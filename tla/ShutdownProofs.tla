----------------------------- MODULE ShutdownProofs -----------------------------
(***************************************************************************)
(* Proofs about Shutdown for every number of requests and places: the      *)
(* admission is exact, children are owned until they are reaped, a receipt *)
(* says "passed" only of a real success, a cancelled worker leaves no      *)
(* candidate behind, and every step is a step of the drain gate.           *)
(***************************************************************************)
EXTENDS Shutdown, FiniteSetTheorems, TLAPS

Positions == Collecting \union
             {"idle", "arrived", "checked", "refused", "slotted", "admitted",
              "answered", "released", "done"}

Answers == {"none", "ok", "invalid", "error", "spawn_error",
            "executable_changed", "timeout", "output_limit", "failed",
            "artifact_error", "passed"}

Endings == {"none", "timeout", "output_limit"}

Threads == [pc : Positions, kind : Kinds, term : Endings, rc : Codes,
            outcome : Answers]

Children == [st : {"none", "running", "exited", "reaped"}, rc : Codes,
             killed : BOOLEAN]

Workers == [candidate : {"none", "born", "checked", "owned", "over"},
            open : BOOLEAN,
            term : {"none", "pending", "handled"}, raced : BOOLEAN]

MainStates == {"serving", "draining", "terminated", "killed", "cancelled",
               "closed"}

(* The shape of everything but the two counters of the admission. *)
Shapes ==
    /\ draining \in BOOLEAN /\ accepting \in BOOLEAN /\ graceful \in BOOLEAN
    /\ rq \in [Requests -> Threads]
    /\ child \in [Requests -> Children]
    /\ worker \in [Requests -> Workers]
    /\ entries \subseteq Requests
    /\ srv \in MainStates

LEMMA TypeParts ==
    TypeOK <=> /\ Shapes /\ active \in Nat
               /\ slots \in [{"work", "operational"} -> Nat]
BY DEF TypeOK, Shapes, Threads, Children, Workers, Positions, Answers, Endings,
       MainStates

LEMMA TypePartsPrimed ==
    ASSUME Shapes', active' \in Nat,
           slots' \in [{"work", "operational"} -> Nat]
    PROVE  TypeOK'
BY DEF TypeOK, Shapes, Threads, Children, Workers, Positions, Answers, Endings,
       MainStates

-----------------------------------------------------------------------------
(* What a step does to the thread of its request *)

(* Only the thread of r moves; x is its new record. *)
Turns(r, x) == rq' = [rq EXCEPT ![r] = x]

LEMMA Names ==
    /\ "collecting" \in Positions /\ "reaping" \in Positions
    /\ "retrying" \in Positions /\ "finally" \in Positions
    /\ "arrived" \in Positions /\ "answered" \in Positions
    /\ "released" \in Positions /\ "done" \in Positions
    /\ "error" \in Answers /\ "passed" \in Answers /\ "none" \in Answers
    /\ "timeout" \in Endings /\ "output_limit" \in Endings
BY DEF Positions, Collecting, Answers, Endings

LEMMA ThreadEnds ==
    ASSUME NEW o \in {"passed", "none"}
    PROVE  LET x == [NoRequest EXCEPT !.pc = "done", !.outcome = o]
           IN  /\ x \in Threads /\ x.pc = "done" /\ x.term = "none"
               /\ x.outcome = o
<1>1. NoRequest \in Threads /\ NoRequest.term = "none"
  BY DEF NoRequest, Threads, Positions, Kinds, Endings, Codes, Answers
<1>2. [NoRequest EXCEPT !.pc = "done", !.outcome = o] \in Threads
  BY <1>1, Names DEF Threads
<1> QED BY <1>1, <1>2 DEF Threads

(* The steps of a thread that touch neither a child nor the main thread. *)
Quiet(r) ==
    \/ \E kind \in Kinds : Arrive(r, kind)
    \/ CheckGate(r)
    \/ AcquireSlot(r)
    \/ Admit(r)
    \/ ReleaseSlot(r)
    \/ ReleaseActive(r)
    \/ Answer(r)
    \/ Malformed(r)
    \/ PolicyViolation(r)
    \/ SpawnError(r)
    \/ CollectEnd(r)

Left == {"idle", "arrived", "checked", "refused", "slotted", "admitted"}
Over == {"answered", "released", "done"}

(* Such a step moves one thread, outside of collecting or to its end, and
   makes no success. *)
QuietEffect(r) ==
    /\ UNCHANGED <<draining, processes, main>>
    /\ rq' \in [Requests -> Threads]
    /\ \A q \in Requests : q # r => rq'[q] = rq[q]
    /\ \/ /\ rq[r].pc = "collecting" /\ rq'[r].pc = "reaping"
          /\ rq'[r].outcome = rq[r].outcome /\ rq'[r].kind = rq[r].kind
       \/ /\ rq[r].pc \in Left /\ rq'[r].pc \in Left
          /\ rq'[r].outcome = rq[r].outcome
       \/ /\ rq[r].pc \in Left /\ rq'[r].pc = "answered"
          /\ rq'[r].outcome # "passed"
       \/ /\ rq[r].pc \in Over /\ rq'[r].pc \in Over
          /\ rq'[r].outcome = "passed" => rq[r].outcome = "passed"
          /\ rq'[r].term \in {rq[r].term, "none"}
          /\ rq'[r].pc = "released" => IsWork(r) /\ rq'[r].kind = rq[r].kind

LEMMA QuietSteps ==
    ASSUME Shapes, NEW r \in Requests, Quiet(r)
    PROVE  QuietEffect(r)
<1> USE DEF admission, processes, main, Positions, Collecting
<1>0. rq \in [Requests -> Threads] /\ rq[r] \in Threads BY DEF Shapes
<1>1. ASSUME NEW x \in Threads, Turns(r, x)
      PROVE  /\ rq' \in [Requests -> Threads] /\ rq'[r] = x
             /\ \A q \in Requests : q # r => rq'[q] = rq[q]
  BY <1>0, <1>1 DEF Turns
<1>2. ASSUME NEW p \in Left, rq[r].pc \in Left, Goto(r, p),
             UNCHANGED <<draining, processes, main>>
      PROVE  QuietEffect(r)
  <2>1. [rq[r] EXCEPT !.pc = p] \in Threads BY <1>0 DEF Threads, Left
  <2>2. Turns(r, [rq[r] EXCEPT !.pc = p]) BY <1>0, <1>2 DEF Goto, Turns
  <2>3. /\ [rq[r] EXCEPT !.pc = p].pc = p
        /\ [rq[r] EXCEPT !.pc = p].outcome = rq[r].outcome
    BY <1>0 DEF Threads
  <2> QED BY <1>1, <1>2, <2>1, <2>2, <2>3 DEF QuietEffect
<1>3. ASSUME NEW o \in Answers \ {"passed"}, rq[r].pc \in Left, Finish(r, o),
             UNCHANGED <<draining, processes, main>>
      PROVE  QuietEffect(r)
  <2> DEFINE x == [rq[r] EXCEPT !.pc = "answered", !.outcome = o]
  <2>1. x \in Threads BY <1>0, Names DEF Threads
  <2>2. Turns(r, x) BY <1>0, <1>3 DEF Finish, Turns
  <2>3. x.pc = "answered" /\ x.outcome = o BY <1>0 DEF Threads
  <2> HIDE DEF x
  <2> QED BY <1>1, <1>3, <2>1, <2>2, <2>3 DEF QuietEffect
<1>4. ASSUME rq[r].pc \in Over, Done(r), UNCHANGED <<draining, processes, main>>
      PROVE  QuietEffect(r)
  <2> DEFINE o == IF rq[r].outcome = "passed" THEN "passed" ELSE "none"
             x == [NoRequest EXCEPT !.pc = "done", !.outcome = o]
  <2>1. /\ x \in Threads /\ x.pc = "done" /\ x.term = "none"
        /\ x.outcome = "passed" => rq[r].outcome = "passed"
    BY ThreadEnds
  <2>2. Turns(r, x) BY <1>4 DEF Done, Turns
  <2> HIDE DEF x
  <2> QED BY <1>1, <1>4, <2>1, <2>2 DEF QuietEffect, Over
<1>5. ASSUME NEW kind \in Kinds, Arrive(r, kind) PROVE QuietEffect(r)
  <2> DEFINE x == [rq[r] EXCEPT !.pc = "arrived", !.kind = kind]
  <2>1. x \in Threads BY <1>0, Names DEF Threads
  <2>2. Turns(r, x) /\ rq[r].pc = "idle" BY <1>0, <1>5 DEF Arrive, Turns
  <2>3. x.pc = "arrived" /\ x.outcome = rq[r].outcome BY <1>0 DEF Threads
  <2>4. UNCHANGED <<draining, processes, main>> BY <1>5 DEF Arrive
  <2> HIDE DEF x
  <2> QED BY <1>1, <2>1, <2>2, <2>3, <2>4 DEF QuietEffect, Left
<1>6. CASE CheckGate(r) BY <1>2, <1>6 DEF CheckGate, Left
<1>7. CASE AcquireSlot(r) BY <1>2, <1>7 DEF AcquireSlot, Left
<1>8. CASE Admit(r) BY <1>2, <1>8 DEF Admit, Left
<1>9. CASE ReleaseSlot(r)
  <2>1. rq[r].pc = "answered" /\ UNCHANGED <<draining, processes, main>>
    BY <1>9 DEF ReleaseSlot
  <2>2. CASE Done(r) BY <1>4, <2>1, <2>2 DEF Over
  <2>3. CASE Goto(r, "released") /\ IsWork(r)
    <3> DEFINE x == [rq[r] EXCEPT !.pc = "released"]
    <3>1. x \in Threads BY <1>0, Names DEF Threads
    <3>2. Turns(r, x) BY <1>0, <2>3 DEF Goto, Turns
    <3>3. /\ x.pc = "released" /\ x.kind = rq[r].kind
          /\ x.outcome = rq[r].outcome /\ x.term = rq[r].term
      BY <1>0 DEF Threads
    <3> HIDE DEF x
    <3> QED BY <1>1, <2>1, <2>3, <3>1, <3>2, <3>3 DEF QuietEffect, Over
  <2> QED BY <1>9, <2>2, <2>3 DEF ReleaseSlot
<1>10. CASE ReleaseActive(r) BY <1>4, <1>10 DEF ReleaseActive, Over
<1>11. CASE Answer(r) BY <1>3, <1>11 DEF Answer, Left, Answers
<1>12. CASE Malformed(r) BY <1>3, <1>12 DEF Malformed, Left, Answers
<1>13. CASE PolicyViolation(r)
  BY <1>3, <1>13 DEF PolicyViolation, Left, Answers
<1>14. CASE SpawnError(r)
  <2>1. /\ rq[r].pc = "admitted" /\ UNCHANGED <<draining, processes, main>>
        /\ \E o \in Answers \ {"passed"} : Finish(r, o)
    BY <1>14 DEF SpawnError, Answers
  <2> QED BY <1>3, <2>1 DEF Left
<1>15. CASE CollectEnd(r)
  <2> DEFINE x == [rq[r] EXCEPT !.pc = "reaping"]
  <2>1. x \in Threads BY <1>0, Names DEF Threads
  <2>2. /\ Turns(r, x) /\ rq[r].pc = "collecting"
        /\ UNCHANGED <<draining, processes, main>>
    BY <1>0, <1>15 DEF CollectEnd, Goto, Turns
  <2>3. x.pc = "reaping" /\ x.outcome = rq[r].outcome /\ x.kind = rq[r].kind
    BY <1>0 DEF Threads
  <2> HIDE DEF x
  <2> QED BY <1>1, <2>1, <2>2, <2>3 DEF QuietEffect
<1> QED
  BY <1>5, <1>6, <1>7, <1>8, <1>9, <1>10, <1>11, <1>12, <1>13, <1>14, <1>15
  DEF Quiet

-----------------------------------------------------------------------------
(* What a step does to the child of its request *)

LEMMA ChildUpdate ==
    ASSUME NEW c \in Children
    PROVE  /\ [c EXCEPT !.st = "running"] \in Children
           /\ [c EXCEPT !.killed = TRUE] \in Children
           /\ \A k \in Codes : /\ [c EXCEPT !.st = "exited", !.rc = k] \in Children
                               /\ [c EXCEPT !.st = "reaped", !.rc = k] \in Children
                               /\ [st |-> "reaped", rc |-> k, killed |-> TRUE]
                                     \in Children
BY DEF Children

LEMMA KilledChildren ==
    ASSUME child \in [Requests -> Children], NEW owned
    PROVE  /\ Killed(owned) \in [Requests -> Children]
           /\ \A q \in Requests :
                /\ Killed(owned)[q].st = child[q].st
                /\ Killed(owned)[q].rc = child[q].rc
                /\ Killed(owned)[q].killed <=> q \in owned \/ child[q].killed
<1>1. ASSUME NEW q \in Requests
      PROVE  /\ Killed(owned)[q] \in Children
             /\ Killed(owned)[q].st = child[q].st
             /\ Killed(owned)[q].rc = child[q].rc
             /\ Killed(owned)[q].killed <=> q \in owned \/ child[q].killed
  <2>1. child[q] \in Children OBVIOUS
  <2>2. CASE q \in owned
    <3>1. Killed(owned)[q] = [child[q] EXCEPT !.killed = TRUE]
      BY <2>2 DEF Killed
    <3> QED BY <2>1, <2>2, <3>1 DEF Children
  <2>3. CASE q \notin owned
    <3>1. Killed(owned)[q] = child[q] BY <2>3 DEF Killed
    <3> QED BY <2>1, <2>3, <3>1
  <2> QED BY <2>2, <2>3
<1>2. Killed(owned) = [q \in Requests |-> Killed(owned)[q]] BY DEF Killed
<1> QED BY <1>1, <1>2

LEMMA ReapedCodes ==
    ASSUME child \in [Requests -> Children], NEW r \in Requests
    PROVE  ReapedCode(r) \in Codes
<1>1. child[r].rc \in Codes BY DEF Children
<1> QED BY <1>1 DEF ReapedCode, Codes

(* kill_and_reap ends the ownership of one child; the code it returns is that
   of the child. *)
LEMMA ReapEffect ==
    ASSUME Shapes, ChildrenOwned, NEW r \in Requests, Reap(r)
    PROVE  /\ child' \in [Requests -> Children] /\ entries' = entries \ {r}
           /\ \A q \in Requests : q # r => child'[q] = child[q]
           /\ child[r].st # "none" =>
                child'[r].st = "reaped" /\ child'[r].rc = ReapedCode(r)
           /\ child[r].st \notin {"running", "exited"} => child'[r] = child[r]
<1>1. /\ child \in [Requests -> Children] /\ child[r] \in Children
      /\ ReapedCode(r) \in Codes
  BY ReapedCodes DEF Shapes
<1>2. entries' = entries \ {r} BY DEF Reap
<1>3. r \in entries <=> child[r].st \in {"running", "exited"}
  BY DEF ChildrenOwned
<1>4. CASE r \in entries
  <2> DEFINE x == [st |-> "reaped", rc |-> ReapedCode(r), killed |-> TRUE]
  <2>1. x \in Children /\ x.st = "reaped" /\ x.rc = ReapedCode(r)
    BY <1>1, ChildUpdate
  <2>2. child' = [child EXCEPT ![r] = x] BY <1>4 DEF Reap
  <2> HIDE DEF x
  <2> QED BY <1>1, <1>2, <1>3, <1>4, <2>1, <2>2
<1>5. CASE r \notin entries
  <2>1. child' = [child EXCEPT ![r] = child[r]] BY <1>5 DEF Reap
  <2>2. child' = child BY <1>1, <2>1
  <2>3. ReapedCode(r) = child[r].rc BY <1>5 DEF ReapedCode
  <2>4. child[r].st # "none" => child[r].st = "reaped"
    BY <1>1, <1>3, <1>5 DEF Children
  <2> QED BY <1>1, <1>2, <2>2, <2>3, <2>4
<1> QED BY <1>4, <1>5

(* kill_and_reap that raises only signals. *)
LEMMA ReapTimeoutEffect ==
    ASSUME Shapes, NEW r \in Requests, ReapTimeout(r)
    PROVE  /\ child' \in [Requests -> Children] /\ entries' = entries
           /\ r \in entries /\ child'[r].killed
           /\ \A q \in Requests :
                /\ child'[q].st = child[q].st /\ child'[q].rc = child[q].rc
                /\ child[q].killed => child'[q].killed
BY KilledChildren DEF Shapes, ReapTimeout

-----------------------------------------------------------------------------
(* What a step does to a thread and its child *)

(* The thread of r goes from p to one of ps; its kind stays. *)
Walks(r, p, ps) ==
    /\ rq' \in [Requests -> Threads]
    /\ \A q \in Requests : q # r => rq'[q] = rq[q]
    /\ rq[r].pc = p /\ rq'[r].pc \in ps
    /\ rq'[r].kind = rq[r].kind

(* spawn under the registry lock: refused, or the child is forked and owned. *)
SpawnEffect(r) ==
    /\ accepting /\ Alive /\ ~Locked /\ rq[r].kind \in Spawning
    /\ Walks(r, "admitted", {"collecting"})
    /\ rq'[r].outcome = rq[r].outcome
    /\ child' \in [Requests -> Children] /\ child'[r].st = "running"
    /\ child'[r].rc = "none"
    /\ \A q \in Requests : q # r => child'[q] = child[q]
    /\ entries' = entries \union {r}
    /\ UNCHANGED <<admission, worker, accepting, main>>

LEMMA SpawnSteps ==
    ASSUME Shapes, NEW r \in Requests, Spawn(r)
    PROVE  SpawnEffect(r) \/ QuietEffect(r)
<1>0. /\ rq \in [Requests -> Threads] /\ rq[r] \in Threads
      /\ child \in [Requests -> Children] /\ child[r] \in Children
  BY DEF Shapes
<1>1. CASE accepting
  <2> DEFINE x == [rq[r] EXCEPT !.pc = "collecting"]
             c == [NoChild EXCEPT !.st = "running"]
  <2>1. /\ x \in Threads /\ x.pc = "collecting" /\ x.kind = rq[r].kind
        /\ x.outcome = rq[r].outcome
    BY <1>0, Names DEF Threads
  <2>2. c \in Children /\ c.st = "running" /\ c.rc = "none"
    BY DEF NoChild, Children, Codes
  <2>3. /\ rq' = [rq EXCEPT ![r] = x] /\ child' = [child EXCEPT ![r] = c]
        /\ entries' = entries \union {r} /\ rq[r].pc = "admitted"
        /\ rq[r].kind \in Spawning /\ Alive /\ ~Locked
        /\ UNCHANGED <<admission, worker, accepting, main>>
    BY <1>0, <1>1 DEF Spawn, Goto
  <2> HIDE DEF x, c
  <2> QED BY <1>0, <1>1, <2>1, <2>2, <2>3 DEF SpawnEffect, Walks
<1>2. CASE ~accepting
  <2> DEFINE x == [rq[r] EXCEPT !.pc = "answered", !.outcome = "error"]
  <2>1. x \in Threads /\ x.pc = "answered" /\ x.outcome = "error"
    BY <1>0, Names DEF Threads
  <2>2. /\ rq' = [rq EXCEPT ![r] = x] /\ rq[r].pc = "admitted"
        /\ UNCHANGED <<draining, processes, main>>
    BY <1>0, <1>2 DEF Spawn, Finish, admission, processes, main
  <2> HIDE DEF x
  <2> QED BY <1>0, <2>1, <2>2 DEF QuietEffect, Left
<1> QED BY <1>1, <1>2

(* The deadline or the cap of collecting: SIGKILL to a child still owned. *)
KillEffect(r) ==
    /\ Walks(r, "collecting", {"reaping"})
    /\ rq'[r].outcome = rq[r].outcome
    /\ child' \in [Requests -> Children] /\ entries' = entries
    /\ \A q \in Requests :
         /\ child'[q].st = child[q].st /\ child'[q].rc = child[q].rc
         /\ child[q].killed => child'[q].killed
    /\ UNCHANGED <<admission, worker, accepting, main>>

LEMMA KillSteps ==
    ASSUME Shapes, NEW r \in Requests, NEW why \in {"timeout", "output_limit"},
           CollectKill(r, why)
    PROVE  KillEffect(r)
<1>0. /\ rq \in [Requests -> Threads] /\ rq[r] \in Threads
      /\ child \in [Requests -> Children]
  BY DEF Shapes
<1> DEFINE x == [rq[r] EXCEPT !.pc = "reaping", !.term = why]
<1>1. /\ x \in Threads /\ x.pc = "reaping" /\ x.kind = rq[r].kind
      /\ x.outcome = rq[r].outcome
  BY <1>0, Names DEF Threads
<1>2. /\ rq' = [rq EXCEPT ![r] = x] /\ rq[r].pc = "collecting"
      /\ child' = Killed(entries \intersect {r})
      /\ UNCHANGED <<admission, worker, entries, accepting, main>>
  BY <1>0 DEF CollectKill
<1> HIDE DEF x
<1> QED BY <1>0, <1>1, <1>2, KilledChildren DEF KillEffect, Walks

(* kill_and_reap at the end of collecting: the code is remembered, or the
   thread retries, or it goes to its finally block with an error. *)
CollectReapEffect(r) ==
    /\ Shapes' /\ rq[r].pc \in {"reaping", "retrying"}
    /\ \A q \in Requests : q # r => rq'[q] = rq[q]
    /\ rq'[r].kind = rq[r].kind
    /\ UNCHANGED <<admission, worker, accepting, main>>
    /\ \/ /\ Reap(r) /\ rq'[r].pc = "finally" /\ rq'[r].rc = ReapedCode(r)
          /\ rq'[r].outcome = rq[r].outcome
       \/ /\ ReapTimeout(r) /\ rq'[r].pc = "retrying"
          /\ rq'[r].outcome = rq[r].outcome
       \/ /\ ReapTimeout(r) /\ rq'[r].pc = "finally"
          /\ rq'[r].outcome = "error"

LEMMA CollectReapSteps ==
    ASSUME Shapes, ChildrenOwned, NEW r \in Requests, CollectReap(r)
    PROVE  CollectReapEffect(r)
<1>0. /\ rq \in [Requests -> Threads] /\ rq[r] \in Threads
      /\ child \in [Requests -> Children]
  BY DEF Shapes
<1>1. /\ rq[r].pc \in {"reaping", "retrying"}
      /\ UNCHANGED <<admission, worker, accepting, main>>
  BY DEF CollectReap
<1>2. ASSUME NEW x \in Threads, rq' = [rq EXCEPT ![r] = x],
             Reap(r) \/ ReapTimeout(r)
      PROVE  /\ Shapes' /\ rq'[r] = x
             /\ \A q \in Requests : q # r => rq'[q] = rq[q]
  <2>1. child' \in [Requests -> Children] /\ entries' \subseteq Requests
    BY <1>2, ReapEffect, ReapTimeoutEffect DEF Shapes
  <2>2. rq' \in [Requests -> Threads] BY <1>0, <1>2
  <2> QED BY <1>0, <1>1, <1>2, <2>1, <2>2 DEF Shapes, admission, main
<1>3. CASE Reap(r) /\ rq' = [rq EXCEPT ![r].pc = "finally",
                                       ![r].rc = ReapedCode(r)]
  <2> DEFINE x == [rq[r] EXCEPT !.pc = "finally", !.rc = ReapedCode(r)]
  <2>1. /\ x \in Threads /\ x.pc = "finally" /\ x.kind = rq[r].kind
        /\ x.outcome = rq[r].outcome /\ x.rc = ReapedCode(r)
    BY <1>0, Names, ReapedCodes DEF Threads
  <2>2. rq' = [rq EXCEPT ![r] = x] BY <1>0, <1>3
  <2> HIDE DEF x
  <2> QED BY <1>1, <1>2, <1>3, <2>1, <2>2 DEF CollectReapEffect
<1>4. CASE ReapTimeout(r) /\ Goto(r, "retrying")
  <2> DEFINE x == [rq[r] EXCEPT !.pc = "retrying"]
  <2>1. /\ x \in Threads /\ x.pc = "retrying" /\ x.kind = rq[r].kind
        /\ x.outcome = rq[r].outcome
    BY <1>0, Names DEF Threads
  <2>2. rq' = [rq EXCEPT ![r] = x] BY <1>0, <1>4 DEF Goto
  <2> HIDE DEF x
  <2> QED BY <1>1, <1>2, <1>4, <2>1, <2>2 DEF CollectReapEffect
<1>5. CASE ReapTimeout(r) /\ rq' = [rq EXCEPT ![r].pc = "finally",
                                              ![r].outcome = "error"]
  <2> DEFINE x == [rq[r] EXCEPT !.pc = "finally", !.outcome = "error"]
  <2>1. /\ x \in Threads /\ x.pc = "finally" /\ x.kind = rq[r].kind
        /\ x.outcome = "error"
    BY <1>0, Names DEF Threads
  <2>2. rq' = [rq EXCEPT ![r] = x] BY <1>0, <1>5
  <2> HIDE DEF x
  <2> QED BY <1>1, <1>2, <1>5, <2>1, <2>2 DEF CollectReapEffect
<1> QED BY <1>3, <1>4, <1>5 DEF CollectReap

(* A success needs a thread that was not timed out and a code of zero. *)
LEMMA OutcomeFacts ==
    ASSUME Shapes, NEW r \in Requests, NEW stable \in BOOLEAN, NEW artifacts
    PROVE  /\ Outcome(r, stable, artifacts) \in Answers
           /\ Outcome(r, stable, artifacts) = "passed" =>
                /\ rq[r].outcome # "error" /\ rq[r].term = "none"
                /\ rq[r].rc = "zero"
<1>1. rq[r].term \in Endings BY DEF Shapes, Threads
<1> QED BY <1>1 DEF Outcome, Answers, Endings

(* The finally block: whatever is owned is reaped or signalled, and the
   outcome is reported. *)
FinallyEffect(r) ==
    /\ Shapes' /\ Walks(r, "finally", {"answered"})
    /\ rq'[r].term = rq[r].term
    /\ UNCHANGED <<admission, worker, accepting, main>>
    /\ rq'[r].outcome = "passed" =>
         /\ Reap(r) /\ rq[r].outcome # "error"
         /\ rq[r].term = "none" /\ rq[r].rc = "zero"
    /\ Reap(r) \/ ReapTimeout(r)

LEMMA FinallySteps ==
    ASSUME Shapes, ChildrenOwned, NEW r \in Requests, Finally(r)
    PROVE  FinallyEffect(r)
<1>0. /\ rq \in [Requests -> Threads] /\ rq[r] \in Threads
      /\ child \in [Requests -> Children]
  BY DEF Shapes
<1>1. rq[r].pc = "finally" /\ UNCHANGED <<admission, worker, accepting, main>>
  BY DEF Finally
<1>2. PICK o \in Answers :
        /\ Finish(r, o)
        /\ Reap(r) \/ ReapTimeout(r)
        /\ o = "passed" =>
             /\ Reap(r) /\ rq[r].outcome # "error"
             /\ rq[r].term = "none" /\ rq[r].rc = "zero"
  <2>1. CASE ReapTimeout(r) /\ Finish(r, "error") BY <2>1 DEF Answers
  <2>2. CASE Reap(r) /\ \E stable \in BOOLEAN, artifacts \in Artifacts :
               \E answer \in Recorded(Outcome(r, stable, artifacts)) :
                 Finish(r, answer)
    <3>1. PICK stable \in BOOLEAN, artifacts \in Artifacts :
            \E answer \in Recorded(Outcome(r, stable, artifacts)) :
              Finish(r, answer)
      BY <2>2
    <3>2. PICK answer \in Recorded(Outcome(r, stable, artifacts)) :
            Finish(r, answer)
      BY <3>1
    <3>3. answer = "error" \/ answer = Outcome(r, stable, artifacts)
      BY <3>2 DEF Recorded
    <3>4. CASE answer = "error" BY <2>2, <3>2, <3>4 DEF Answers
    <3>5. CASE answer = Outcome(r, stable, artifacts)
      <4>1. /\ answer \in Answers
            /\ answer = "passed" =>
                 /\ rq[r].outcome # "error" /\ rq[r].term = "none"
                 /\ rq[r].rc = "zero"
        BY <3>5, OutcomeFacts
      <4> QED BY <2>2, <3>2, <4>1
    <3> QED BY <3>3, <3>4, <3>5
  <2> QED BY <2>1, <2>2 DEF Finally
<1> DEFINE x == [rq[r] EXCEPT !.pc = "answered", !.outcome = o]
<1>3. /\ x \in Threads /\ x.pc = "answered" /\ x.kind = rq[r].kind
      /\ x.outcome = o /\ x.term = rq[r].term
  BY <1>0, Names DEF Threads
<1>4. rq' = [rq EXCEPT ![r] = x] BY <1>0, <1>2 DEF Finish
<1> HIDE DEF x
<1>5. /\ rq' \in [Requests -> Threads] /\ rq'[r] = x
      /\ \A q \in Requests : q # r => rq'[q] = rq[q]
  BY <1>0, <1>3, <1>4
<1>6. child' \in [Requests -> Children] /\ entries' \subseteq Requests
  BY <1>2, ReapEffect, ReapTimeoutEffect DEF Shapes
<1>7. Shapes' BY <1>1, <1>5, <1>6 DEF Shapes, admission, main
<1> QED BY <1>1, <1>2, <1>3, <1>5, <1>7 DEF FinallyEffect, Walks

-----------------------------------------------------------------------------
(* What a child, a worker and the main thread do *)

(* The main thread reaps what died in time; the codes are the children's. *)
LEMMA CancelReapEffect ==
    ASSUME Shapes, CancelReap
    PROVE  /\ child' \in [Requests -> Children] /\ entries' \subseteq entries
           /\ \A q \in entries' : child'[q] = child[q] /\ child[q].st = "running"
           /\ \A q \in entries \ entries' :
                child'[q].st = "reaped" /\ child'[q].rc = ReapedCode(q)
           /\ \A q \in Requests : q \notin entries => child'[q] = child[q]
<1>0. child \in [Requests -> Children] /\ entries \subseteq Requests
  BY DEF Shapes
<1>1. PICK remaining \in SUBSET {r \in entries : child[r].st = "running"} :
        /\ entries' = remaining
        /\ child' = [r \in Requests |->
                       IF r \in entries \ remaining
                       THEN [child[r] EXCEPT !.st = "reaped",
                                             !.rc = ReapedCode(r)]
                       ELSE child[r]]
  BY DEF CancelReap
<1>2. ASSUME NEW q \in Requests, q \in entries \ remaining
      PROVE  /\ child'[q] \in Children /\ child'[q].st = "reaped"
             /\ child'[q].rc = ReapedCode(q)
  <2>1. child[q] \in Children /\ ReapedCode(q) \in Codes BY <1>0, ReapedCodes
  <2>2. child'[q] = [child[q] EXCEPT !.st = "reaped", !.rc = ReapedCode(q)]
    BY <1>1, <1>2
  <2> QED BY <2>1, <2>2 DEF Children
<1>3. ASSUME NEW q \in Requests, q \notin entries \ remaining
      PROVE  child'[q] = child[q]
  BY <1>1, <1>3
<1>4. ASSUME NEW q \in Requests PROVE child'[q] \in Children
  BY <1>0, <1>2, <1>3
<1>5. child' \in [Requests -> Children]
  <2>1. child' = [q \in Requests |-> child'[q]] BY <1>1
  <2> QED BY <1>4, <2>1
<1> QED BY <1>0, <1>1, <1>2, <1>3, <1>5

(* Children and workers, which act by themselves. *)
LEMMA ProcessShapes ==
    ASSUME Shapes, NEW r \in Requests, Process(r)
    PROVE  Shapes' /\ UNCHANGED <<admission, rq, entries, accepting, main>>
<1> USE DEF admission, main
<1>0. /\ child \in [Requests -> Children] /\ child[r] \in Children
      /\ worker \in [Requests -> Workers] /\ worker[r] \in Workers
  BY DEF Shapes
<1>1. ASSUME NEW rc \in Codes,
             child' = [child EXCEPT ![r].st = "exited", ![r].rc = rc],
             UNCHANGED <<admission, rq, worker, entries, accepting, main>>
      PROVE  Shapes'
  <2> DEFINE c == [child[r] EXCEPT !.st = "exited", !.rc = rc]
  <2>1. c \in Children BY <1>0 DEF Children
  <2>2. child' = [child EXCEPT ![r] = c] BY <1>0, <1>1
  <2> HIDE DEF c
  <2>3. child' \in [Requests -> Children] BY <1>0, <2>1, <2>2
  <2> QED BY <1>1, <2>3 DEF Shapes
<1>2. ASSUME NEW x \in Workers, worker' = [worker EXCEPT ![r] = x],
             UNCHANGED <<admission, rq, child, entries, accepting, main>>
      PROVE  Shapes'
  <2>1. worker' \in [Requests -> Workers] BY <1>0, <1>2
  <2> QED BY <1>2, <2>1 DEF Shapes
<1>3. ASSUME NEW state \in {"none", "born", "checked", "owned", "over"},
             Candidate(r, state)
      PROVE  Shapes' /\ UNCHANGED <<admission, rq, entries, accepting, main>>
  <2> DEFINE x == [worker[r] EXCEPT !.candidate = state]
  <2>1. x \in Workers BY <1>0 DEF Workers
  <2>2. worker' = [worker EXCEPT ![r] = x] BY <1>0 , <1>3 DEF Candidate
  <2> HIDE DEF x
  <2> QED BY <1>2, <1>3, <2>1, <2>2 DEF Candidate
<1>4. ASSUME NEW rc \in {"zero", "nonzero"}, ChildExit(r, rc)
      PROVE  Shapes' /\ UNCHANGED <<admission, rq, entries, accepting, main>>
  BY <1>1, <1>4 DEF ChildExit, Codes
<1>5. CASE ChildDies(r) BY <1>1, <1>5 DEF ChildDies, Codes
<1>6. CASE CandidateFork(r) BY <1>3, <1>6 DEF CandidateFork
<1>7. CASE CandidateCheck(r) BY <1>3, <1>7 DEF CandidateCheck
<1>8. CASE CandidateRegister(r) BY <1>3, <1>8 DEF CandidateRegister
<1>9. CASE CandidateEnd(r) BY <1>3, <1>9 DEF CandidateEnd
<1>10. CASE WriteReceipt(r) BY <1>3, <1>10 DEF WriteReceipt
<1>11. CASE CancelDescendants(r)
  <2> DEFINE x == [candidate |-> IF worker[r].candidate = "owned" THEN "none"
                                ELSE worker[r].candidate,
                   open |-> FALSE, term |-> "handled",
                   raced |-> worker[r].candidate = "checked"]
  <2>1. x \in Workers BY <1>0 DEF Workers
  <2>2. /\ worker' = [worker EXCEPT ![r] = x]
        /\ UNCHANGED <<admission, rq, child, entries, accepting, main>>
    BY <1>0, <1>11 DEF CancelDescendants
  <2> HIDE DEF x
  <2> QED BY <1>2, <2>1, <2>2
<1> QED
  BY <1>4, <1>5, <1>6, <1>7, <1>8, <1>9, <1>10, <1>11 DEF Process

LEMMA MainShapes ==
    ASSUME Shapes, Signal \/ StopServing \/ Main
    PROVE  Shapes' /\ UNCHANGED <<slots, active, rq>>
<1> USE DEF admission, processes, main, MainStates
<1>1. CASE Signal BY <1>1 DEF Signal, Shapes
<1>2. CASE StopServing BY <1>2 DEF StopServing, Shapes
<1>3. CASE Drained BY <1>3 DEF Drained, Shapes
<1>4. CASE CancelTerm
  <2>1. ASSUME NEW r \in Requests PROVE worker'[r] \in Workers
    <3>1. worker[r] \in Workers BY DEF Shapes
    <3>2. [worker[r] EXCEPT !.term = "pending"] \in Workers
      BY <3>1 DEF Workers
    <3> QED BY <1>4, <3>1, <3>2 DEF CancelTerm
  <2>2. worker' = [r \in Requests |-> worker'[r]] BY <1>4 DEF CancelTerm
  <2>3. worker' \in [Requests -> Workers] BY <2>1, <2>2
  <2> HIDE <2>1, <2>2
  <2>4. /\ accepting' = FALSE /\ srv' = "terminated"
        /\ UNCHANGED <<admission, rq, child, entries, graceful>>
    BY <1>4 DEF CancelTerm
  <2> QED BY <2>3, <2>4 DEF Shapes
<1>5. CASE CancelKill
  <2>1. /\ child' = Killed(entries) /\ srv' = "killed"
        /\ UNCHANGED <<admission, rq, worker, entries, accepting, graceful>>
    BY <1>5 DEF CancelKill
  <2>2. child' \in [Requests -> Children] BY <2>1, KilledChildren DEF Shapes
  <2> QED BY <2>1, <2>2 DEF Shapes
<1>6. CASE CancelReap
  <2>1. /\ srv' = "cancelled"
        /\ UNCHANGED <<admission, rq, worker, accepting, graceful>>
    BY <1>6 DEF CancelReap
  <2>2. child' \in [Requests -> Children] /\ entries' \subseteq Requests
    BY <1>6, CancelReapEffect DEF Shapes
  <2> QED BY <2>1, <2>2 DEF Shapes
<1>7. CASE Close BY <1>7 DEF Close, Shapes
<1> QED BY <1>1, <1>2, <1>3, <1>4, <1>5, <1>6, <1>7 DEF Main

-----------------------------------------------------------------------------
(* Every step is one of these *)

LEMMA StepKinds ==
    ASSUME [Next]_vars
    PROVE  \/ \E r \in Requests :
                \/ Quiet(r)
                \/ Spawn(r)
                \/ \E why \in {"timeout", "output_limit"} : CollectKill(r, why)
                \/ CollectReap(r)
                \/ Finally(r)
                \/ Process(r)
           \/ Signal \/ StopServing \/ Main
           \/ UNCHANGED vars
BY DEF Next, Thread, Quiet

LEMMA ShapesStep ==
    ASSUME Shapes, ChildrenOwned, [Next]_vars
    PROVE  Shapes'
<1> USE DEF admission, processes, main
<1>1. ASSUME NEW r \in Requests, QuietEffect(r) PROVE Shapes'
  BY <1>1 DEF QuietEffect, Shapes
<1>2. ASSUME NEW r \in Requests, SpawnEffect(r) PROVE Shapes'
  BY <1>2 DEF SpawnEffect, Walks, Shapes
<1>3. ASSUME NEW r \in Requests, KillEffect(r) PROVE Shapes'
  BY <1>3 DEF KillEffect, Walks, Shapes
<1>4. ASSUME NEW r \in Requests, CollectReapEffect(r) PROVE Shapes'
  BY <1>4 DEF CollectReapEffect
<1>5. ASSUME NEW r \in Requests, FinallyEffect(r) PROVE Shapes'
  BY <1>5 DEF FinallyEffect
<1>6. CASE UNCHANGED vars BY <1>6 DEF vars, Shapes
<1> QED
  BY <1>1, <1>2, <1>3, <1>4, <1>5, <1>6, StepKinds, QuietSteps, SpawnSteps,
     KillSteps, CollectReapSteps, FinallySteps, ProcessShapes, MainShapes

-----------------------------------------------------------------------------
(* Admission *)

LEMMA CountOne ==
    ASSUME NEW S, IsFiniteSet(S), NEW T, NEW r, T \ {r} = S \ {r}
    PROVE  /\ Cardinality(S) \in Nat /\ Cardinality(T) \in Nat
           /\ (r \in S <=> r \in T) => Cardinality(T) = Cardinality(S)
           /\ r \notin S /\ r \in T => Cardinality(T) = Cardinality(S) + 1
           /\ r \in S /\ r \notin T =>
                /\ Cardinality(S) > 0
                /\ Cardinality(T) = Cardinality(S) - 1
<1>1. IsFiniteSet(S \ {r}) BY FS_RemoveElement
<1>2. T = S \ {r} \/ T = (S \ {r}) \union {r} OBVIOUS
<1>3. IsFiniteSet(T) BY <1>1, <1>2, FS_AddElement
<1>4. Cardinality(S) \in Nat /\ Cardinality(T) \in Nat
  BY <1>3, FS_CardinalityType
<1>5. CASE r \in S <=> r \in T
  <2>1. S = T BY <1>5
  <2> QED BY <1>4, <1>5, <2>1
<1>6. CASE r \notin S /\ r \in T
  <2>1. T = S \union {r} BY <1>6
  <2> QED BY <1>4, <1>6, <2>1, FS_AddElement
<1>7. CASE r \in S /\ r \notin T
  <2>1. S = T \union {r} BY <1>7
  <2>2. Cardinality(S) = Cardinality(T) + 1 BY <1>3, <1>7, <2>1, FS_AddElement
  <2> QED BY <1>4, <1>7, <2>2
<1> QED BY <1>5, <1>6, <1>7

Pools == {"work", "operational"}

(* The counters of the admission are exact. *)
Counted == active \in Nat /\ slots \in [Pools -> Nat] /\ AdmissionExact

(* When one thread moves the places of the others stay. *)
LEMMA PlacesOfOthers ==
    ASSUME Shapes, NEW r \in Requests,
           \A q \in Requests : q # r => rq'[q] = rq[q]
    PROVE  /\ \A pool \in Pools :
                /\ Holding(pool)' \ {r} = Holding(pool) \ {r}
                /\ IsFiniteSet(Holding(pool))
           /\ Inside' \ {r} = Inside \ {r} /\ IsFiniteSet(Inside)
<1>1. ASSUME NEW pool \in Pools
      PROVE  Holding(pool)' \ {r} = Holding(pool) \ {r}
  BY DEF Holding, Pool
<1>2. Inside' \ {r} = Inside \ {r} BY DEF Inside, IsWork
<1>3. Inside \subseteq Requests /\ \A pool \in Pools : Holding(pool) \subseteq Requests
  BY DEF Inside, Holding
<1> QED BY <1>1, <1>2, <1>3, SlotsAssumption, FS_Subset

(* A thread that moves without taking or giving back a place. *)
LEMMA SamePlace ==
    ASSUME Shapes, Counted, NEW r \in Requests,
           \A q \in Requests : q # r => rq'[q] = rq[q],
           \A pool \in Pools : r \in Holding(pool) <=> r \in Holding(pool)',
           r \in Inside <=> r \in Inside',
           UNCHANGED <<slots, active>>
    PROVE  Counted'
<1>1. \A pool \in Pools : Cardinality(Holding(pool)') = Cardinality(Holding(pool))
  BY PlacesOfOthers, CountOne
<1>2. Cardinality(Inside') = Cardinality(Inside) BY PlacesOfOthers, CountOne
<1> QED BY <1>1, <1>2 DEF Counted, AdmissionExact, Pools

Within == {"admitted", "collecting", "reaping", "retrying", "finally",
           "answered"}

(* A thread that stays on one side, or inside with its kind. *)
LEMMA StaysPut ==
    ASSUME Shapes, Counted, NEW r \in Requests,
           \A q \in Requests : q # r => rq'[q] = rq[q],
           \/ /\ rq[r].pc \in {"idle", "arrived", "checked", "refused"}
              /\ rq'[r].pc \in {"arrived", "checked", "refused"}
           \/ /\ rq[r].pc \in Within /\ rq'[r].pc \in Within
              /\ rq'[r].kind = rq[r].kind,
           UNCHANGED <<slots, active>>
    PROVE  Counted'
<1>1. \A pool \in Pools : r \in Holding(pool) <=> r \in Holding(pool)'
  BY DEF Holding, Pool, Within
<1>2. r \in Inside <=> r \in Inside' BY DEF Inside, IsWork, Within
<1> QED BY <1>1, <1>2, SamePlace

(* What the admission steps do to the thread they move. *)
LEMMA GotoEffect ==
    ASSUME Shapes, NEW r \in Requests, NEW p \in Positions, Goto(r, p)
    PROVE  /\ \A q \in Requests : q # r => rq'[q] = rq[q]
           /\ rq'[r].pc = p /\ rq'[r].kind = rq[r].kind
BY DEF Shapes, Threads, Goto

LEMMA FinishEffect ==
    ASSUME Shapes, NEW r \in Requests, NEW o, Finish(r, o)
    PROVE  /\ \A q \in Requests : q # r => rq'[q] = rq[q]
           /\ rq'[r].pc = "answered" /\ rq'[r].kind = rq[r].kind
BY DEF Shapes, Threads, Finish

LEMMA DoneEffect ==
    ASSUME Shapes, NEW r \in Requests, Done(r)
    PROVE  /\ \A q \in Requests : q # r => rq'[q] = rq[q]
           /\ rq'[r].pc = "done"
<1> DEFINE o == IF rq[r].outcome = "passed" THEN "passed" ELSE "none"
           x == [NoRequest EXCEPT !.pc = "done", !.outcome = o]
<1>1. x.pc = "done" BY ThreadEnds
<1>2. rq' = [rq EXCEPT ![r] = x] BY DEF Done
<1> HIDE DEF x
<1> QED BY <1>1, <1>2 DEF Shapes

(* Semaphore and count move together with the thread. *)
LEMMA QuietCounted ==
    ASSUME Shapes, OnlyWorkCounted, Counted, NEW r \in Requests, Quiet(r)
    PROVE  Counted'
<1>0. /\ rq \in [Requests -> Threads] /\ rq[r].kind \in Kinds
      /\ Pool(r) \in Pools /\ \A pool \in Pools : slots[pool] \in Nat
      /\ active \in Nat /\ \A pool \in Pools : Slots[pool] \in Nat
      /\ slots \in [Pools -> Nat]
  BY SlotsAssumption DEF Shapes, Threads, Counted, Pool, Pools
<1>1. ASSUME NEW kind \in Kinds, Arrive(r, kind) PROVE Counted'
  <2>1. /\ rq[r].pc = "idle" /\ rq'[r].pc = "arrived"
        /\ \A q \in Requests : q # r => rq'[q] = rq[q]
        /\ UNCHANGED <<slots, active>>
    BY <1>0, <1>1 DEF Arrive, Threads, admission
  <2> QED BY <2>1, StaysPut
<1>2. CASE CheckGate(r)
  <2>1. /\ rq[r].pc = "arrived" /\ rq'[r].pc \in {"refused", "checked"}
        /\ \A q \in Requests : q # r => rq'[q] = rq[q]
        /\ UNCHANGED <<slots, active>>
    BY <1>2, GotoEffect DEF CheckGate, admission, Positions
  <2> QED BY <2>1, StaysPut
<1>3. CASE AcquireSlot(r)
  <2>1. CASE slots[Pool(r)] = 0
    <3>1. /\ rq[r].pc = "checked" /\ rq'[r].pc = "refused"
          /\ \A q \in Requests : q # r => rq'[q] = rq[q]
          /\ UNCHANGED <<slots, active>>
      BY <1>3, <2>1, GotoEffect DEF AcquireSlot, Positions
    <3> QED BY <3>1, StaysPut
  <2>2. CASE slots[Pool(r)] # 0
    <3>1. /\ rq[r].pc = "checked" /\ rq'[r].pc = "slotted"
          /\ rq'[r].kind = rq[r].kind
          /\ \A q \in Requests : q # r => rq'[q] = rq[q]
          /\ slots[Pool(r)] > 0 /\ UNCHANGED active
          /\ slots' = [slots EXCEPT ![Pool(r)] = @ - 1]
      BY <1>3, <2>2, GotoEffect DEF AcquireSlot, Positions
    <3>2. /\ \A pool \in Pools : r \notin Holding(pool)
          /\ \A pool \in Pools : r \in Holding(pool)' <=> pool = Pool(r)
          /\ r \notin Inside /\ r \notin Inside'
      BY <3>1 DEF Holding, Inside, Pool
    <3>3. \A pool \in Pools :
            /\ Cardinality(Holding(pool)) \in Nat
            /\ pool = Pool(r) =>
                 Cardinality(Holding(pool)') = Cardinality(Holding(pool)) + 1
            /\ pool # Pool(r) =>
                 Cardinality(Holding(pool)') = Cardinality(Holding(pool))
      BY <3>1, <3>2, PlacesOfOthers, CountOne
    <3>4. Cardinality(Inside') = Cardinality(Inside)
      BY <3>1, <3>2, PlacesOfOthers, CountOne
    <3>5. \A pool \in Pools :
            /\ slots'[pool] \in Nat
            /\ slots'[pool] + Cardinality(Holding(pool)') = Slots[pool]
      BY <1>0, <3>1, <3>3 DEF Counted, AdmissionExact, Pools
    <3>6. slots' \in [Pools -> Nat] BY <1>0, <3>1, <3>5
    <3> QED BY <3>1, <3>4, <3>5, <3>6 DEF Counted, AdmissionExact, Pools
  <2> QED BY <2>1, <2>2
<1>4. CASE Admit(r)
  <2>1. CASE draining /\ IsWork(r)
    <3>1. /\ rq[r].pc = "slotted" /\ rq'[r].pc = "refused"
          /\ \A q \in Requests : q # r => rq'[q] = rq[q]
          /\ UNCHANGED active /\ slots' = [slots EXCEPT !["work"] = @ + 1]
      BY <1>4, <2>1, GotoEffect DEF Admit, Positions
    <3>2. /\ \A pool \in Pools : r \in Holding(pool) <=> pool = "work"
          /\ \A pool \in Pools : r \notin Holding(pool)'
          /\ r \notin Inside /\ r \notin Inside'
      BY <2>1, <3>1 DEF Holding, Inside, Pool, IsWork
    <3>3. \A pool \in Pools :
            /\ Cardinality(Holding(pool)) \in Nat
            /\ pool = "work" =>
                 Cardinality(Holding(pool)') = Cardinality(Holding(pool)) - 1
            /\ pool # "work" =>
                 Cardinality(Holding(pool)') = Cardinality(Holding(pool))
      BY <3>1, <3>2, PlacesOfOthers, CountOne
    <3>4. Cardinality(Inside') = Cardinality(Inside)
      BY <3>1, <3>2, PlacesOfOthers, CountOne
    <3>5. \A pool \in Pools :
            /\ slots'[pool] \in Nat
            /\ slots'[pool] + Cardinality(Holding(pool)') = Slots[pool]
      BY <1>0, <3>1, <3>3 DEF Counted, AdmissionExact, Pools
    <3>6. slots' \in [Pools -> Nat] BY <1>0, <3>1, <3>5 DEF Pools
    <3> QED BY <3>1, <3>4, <3>5, <3>6 DEF Counted, AdmissionExact, Pools
  <2>2. CASE ~(draining /\ IsWork(r))
    <3>1. /\ rq[r].pc = "slotted" /\ rq'[r].pc = "admitted"
          /\ rq'[r].kind = rq[r].kind
          /\ \A q \in Requests : q # r => rq'[q] = rq[q]
          /\ UNCHANGED slots
          /\ active' = IF IsWork(r) THEN active + 1 ELSE active
      BY <1>4, <2>2, GotoEffect DEF Admit, Positions
    <3>2. /\ \A pool \in Pools : r \in Holding(pool) <=> r \in Holding(pool)'
          /\ r \notin Inside /\ (r \in Inside' <=> IsWork(r))
      BY <3>1 DEF Holding, Inside, Pool, IsWork
    <3>3. \A pool \in Pools :
            Cardinality(Holding(pool)') = Cardinality(Holding(pool))
      BY <3>1, <3>2, PlacesOfOthers, CountOne
    <3>4. /\ Cardinality(Inside) \in Nat
          /\ Cardinality(Inside') = IF IsWork(r) THEN Cardinality(Inside) + 1
                                    ELSE Cardinality(Inside)
      BY <3>1, <3>2, PlacesOfOthers, CountOne
    <3> QED BY <1>0, <3>1, <3>3, <3>4 DEF Counted, AdmissionExact, Pools
  <2> QED BY <2>1, <2>2
<1>5. CASE ReleaseSlot(r)
  <2>1. /\ rq[r].pc = "answered"
        /\ IF IsWork(r) THEN rq'[r].pc = "released" /\ rq'[r].kind = rq[r].kind
           ELSE rq'[r].pc = "done"
        /\ \A q \in Requests : q # r => rq'[q] = rq[q]
        /\ UNCHANGED active /\ slots' = [slots EXCEPT ![Pool(r)] = @ + 1]
    BY <1>5, GotoEffect, DoneEffect, Names DEF ReleaseSlot
  <2>2. /\ \A pool \in Pools : r \in Holding(pool) <=> pool = Pool(r)
        /\ \A pool \in Pools : r \notin Holding(pool)'
        /\ r \in Inside <=> r \in Inside'
    BY <2>1 DEF Holding, Inside, Pool, IsWork
  <2>3. \A pool \in Pools :
          /\ Cardinality(Holding(pool)) \in Nat
          /\ pool = Pool(r) =>
               Cardinality(Holding(pool)') = Cardinality(Holding(pool)) - 1
          /\ pool # Pool(r) =>
               Cardinality(Holding(pool)') = Cardinality(Holding(pool))
    BY <2>1, <2>2, PlacesOfOthers, CountOne
  <2>4. Cardinality(Inside') = Cardinality(Inside)
    BY <2>1, <2>2, PlacesOfOthers, CountOne
  <2>5. \A pool \in Pools :
          /\ slots'[pool] \in Nat
          /\ slots'[pool] + Cardinality(Holding(pool)') = Slots[pool]
    BY <1>0, <2>1, <2>3 DEF Counted, AdmissionExact, Pools
  <2>6. slots' \in [Pools -> Nat] BY <1>0, <2>1, <2>5
  <2> QED BY <2>1, <2>4, <2>5, <2>6 DEF Counted, AdmissionExact, Pools
<1>6. CASE ReleaseActive(r)
  <2>1. /\ rq[r].pc = "released" /\ rq'[r].pc = "done"
        /\ \A q \in Requests : q # r => rq'[q] = rq[q]
        /\ UNCHANGED slots /\ active' = active - 1
    BY <1>6, DoneEffect DEF ReleaseActive
  <2>2. /\ \A pool \in Pools : r \in Holding(pool) <=> r \in Holding(pool)'
        /\ r \notin Inside'
    BY <2>1 DEF Holding, Inside
  <2>3. r \in Inside BY <2>1 DEF OnlyWorkCounted, Inside
  <2>4. \A pool \in Pools :
          Cardinality(Holding(pool)') = Cardinality(Holding(pool))
    BY <2>1, <2>2, PlacesOfOthers, CountOne
  <2>5. /\ Cardinality(Inside) \in Nat /\ Cardinality(Inside) > 0
        /\ Cardinality(Inside') = Cardinality(Inside) - 1
    BY <2>1, <2>2, <2>3, PlacesOfOthers, CountOne
  <2> QED BY <1>0, <2>1, <2>4, <2>5 DEF Counted, AdmissionExact, Pools
<1>7. CASE Answer(r) \/ Malformed(r) \/ PolicyViolation(r) \/ SpawnError(r)
  <2>1. /\ rq[r].pc = "admitted" /\ \E o : Finish(r, o)
        /\ UNCHANGED <<slots, active>>
    BY <1>7 DEF Answer, Malformed, PolicyViolation, SpawnError, admission
  <2> QED BY <2>1, FinishEffect, StaysPut DEF Within
<1>8. CASE CollectEnd(r)
  <2>1. /\ rq[r].pc = "collecting" /\ Goto(r, "reaping")
        /\ UNCHANGED <<slots, active>>
    BY <1>8 DEF CollectEnd, admission
  <2> QED BY <2>1, GotoEffect, Names, StaysPut DEF Within
<1> QED
  BY <1>1, <1>2, <1>3, <1>4, <1>5, <1>6, <1>7, <1>8 DEF Quiet

LEMMA CountedStep ==
    ASSUME Shapes, ChildrenOwned, OnlyWorkCounted, Counted, [Next]_vars
    PROVE  Counted'
<1> USE DEF admission, processes, main
<1>1. ASSUME NEW r \in Requests, Quiet(r) PROVE Counted' BY <1>1, QuietCounted
<1>2. ASSUME NEW r \in Requests, Spawn(r) PROVE Counted'
  <2>1. /\ rq[r].pc = "admitted" /\ UNCHANGED <<slots, active>>
        /\ Goto(r, "collecting") \/ Finish(r, "error")
    BY <1>2 DEF Spawn
  <2> QED BY <2>1, Names, GotoEffect, FinishEffect, StaysPut DEF Within
<1>3. ASSUME NEW r \in Requests, KillEffect(r) PROVE Counted'
  BY <1>3, StaysPut DEF KillEffect, Walks, Within
<1>4. ASSUME NEW r \in Requests, CollectReapEffect(r) PROVE Counted'
  BY <1>4, StaysPut DEF CollectReapEffect, Within
<1>5. ASSUME NEW r \in Requests, FinallyEffect(r) PROVE Counted'
  BY <1>5, StaysPut DEF FinallyEffect, Walks, Within
<1>6. ASSUME UNCHANGED <<slots, active, rq>> PROVE Counted'
  BY <1>6 DEF Counted, AdmissionExact, Holding, Inside, Pool, IsWork
<1>7. CASE UNCHANGED vars BY <1>6, <1>7 DEF vars
<1> QED
  BY <1>1, <1>2, <1>3, <1>4, <1>5, <1>6, <1>7, StepKinds, KillSteps,
     CollectReapSteps, FinallySteps, ProcessShapes, MainShapes

-----------------------------------------------------------------------------
(* The other parts of the invariant *)

LEMMA OnlyWorkStep ==
    ASSUME Shapes, ChildrenOwned, OnlyWorkCounted, [Next]_vars
    PROVE  OnlyWorkCounted'
<1> USE DEF OnlyWorkCounted, IsWork
<1>1. ASSUME NEW r \in Requests, QuietEffect(r) PROVE OnlyWorkCounted'
  BY <1>1 DEF QuietEffect, Left, Over
<1>2. ASSUME NEW r \in Requests, SpawnEffect(r) PROVE OnlyWorkCounted'
  BY <1>2 DEF SpawnEffect, Walks
<1>3. ASSUME NEW r \in Requests, KillEffect(r) PROVE OnlyWorkCounted'
  BY <1>3 DEF KillEffect, Walks
<1>4. ASSUME NEW r \in Requests, CollectReapEffect(r) PROVE OnlyWorkCounted'
  BY <1>4 DEF CollectReapEffect
<1>5. ASSUME NEW r \in Requests, FinallyEffect(r) PROVE OnlyWorkCounted'
  BY <1>5 DEF FinallyEffect, Walks
<1>6. ASSUME UNCHANGED rq PROVE OnlyWorkCounted' BY <1>6
<1>7. CASE UNCHANGED vars BY <1>6, <1>7 DEF vars
<1> QED
  BY <1>1, <1>2, <1>3, <1>4, <1>5, <1>6, <1>7, StepKinds, QuietSteps, SpawnSteps,
     KillSteps, CollectReapSteps, FinallySteps, ProcessShapes, MainShapes

LEMMA GateClosedStep ==
    ASSUME Shapes, ChildrenOwned, GateClosed, [Next]_vars
    PROVE  GateClosed'
<1> USE DEF GateClosed, admission, processes, main
<1>1. ASSUME UNCHANGED <<draining, main>> PROVE GateClosed' BY <1>1
<1>2. ASSUME NEW r \in Requests, QuietEffect(r) PROVE GateClosed'
  BY <1>2 DEF QuietEffect
<1>3. ASSUME NEW r \in Requests, SpawnEffect(r) PROVE GateClosed'
  BY <1>3 DEF SpawnEffect
<1>4. ASSUME NEW r \in Requests, KillEffect(r) PROVE GateClosed'
  BY <1>4 DEF KillEffect
<1>5. ASSUME NEW r \in Requests, CollectReapEffect(r) PROVE GateClosed'
  BY <1>5 DEF CollectReapEffect
<1>6. ASSUME NEW r \in Requests, FinallyEffect(r) PROVE GateClosed'
  BY <1>6 DEF FinallyEffect
<1>7. ASSUME NEW r \in Requests, Process(r) PROVE GateClosed'
  BY <1>1, <1>7, ProcessShapes
<1>8. CASE Signal \/ StopServing BY <1>8 DEF Signal, StopServing
<1>9. CASE Main
  <2>1. CASE Drained BY <2>1 DEF Drained
  <2>2. CASE CancelTerm BY <2>2 DEF CancelTerm
  <2>3. CASE CancelKill BY <2>3 DEF CancelKill
  <2>4. CASE CancelReap BY <2>4 DEF CancelReap
  <2>5. CASE Close BY <2>5 DEF Close
  <2> QED BY <1>9, <2>1, <2>2, <2>3, <2>4, <2>5 DEF Main
<1>10. CASE UNCHANGED vars BY <1>1, <1>10 DEF vars
<1> QED
  BY <1>2, <1>3, <1>4, <1>5, <1>6, <1>7, <1>8, <1>9, <1>10, StepKinds,
     QuietSteps, SpawnSteps, KillSteps, CollectReapSteps, FinallySteps

LEMMA DescendantsStep ==
    ASSUME Shapes, ChildrenOwned, DescendantsCancelled, [Next]_vars
    PROVE  DescendantsCancelled'
<1> USE DEF DescendantsCancelled, processes
<1>1. ASSUME UNCHANGED worker PROVE DescendantsCancelled' BY <1>1
<1>2. ASSUME NEW r \in Requests, QuietEffect(r) PROVE DescendantsCancelled'
  BY <1>1, <1>2 DEF QuietEffect
<1>3. ASSUME NEW r \in Requests,
             \/ SpawnEffect(r) \/ KillEffect(r)
             \/ CollectReapEffect(r) \/ FinallyEffect(r)
      PROVE  DescendantsCancelled'
  BY <1>1, <1>3 DEF SpawnEffect, KillEffect, CollectReapEffect, FinallyEffect
<1>4. ASSUME NEW r \in Requests, Process(r) PROVE DescendantsCancelled'
  <2>0. worker \in [Requests -> Workers] /\ worker[r] \in Workers BY DEF Shapes
  <2>1. ASSUME UNCHANGED child, NEW x \in Workers,
               worker' = [worker EXCEPT ![r] = x],
               x.term = "handled" =>
                 ~x.open /\ (x.raced \/ x.candidate \in {"none", "born", "over"})
        PROVE  DescendantsCancelled'
    BY <2>0, <2>1
  <2>2. ASSUME NEW c \in {"none", "born", "checked", "owned", "over"},
               Candidate(r, c),
               worker[r].term = "handled" /\ ~worker[r].raced =>
                 c \in {"none", "born", "over"}
        PROVE  DescendantsCancelled'
    <3> DEFINE x == [worker[r] EXCEPT !.candidate = c]
    <3>1. /\ x \in Workers /\ x.candidate = c /\ x.open = worker[r].open
          /\ x.term = worker[r].term /\ x.raced = worker[r].raced
      BY <2>0 DEF Workers
    <3>2. worker' = [worker EXCEPT ![r] = x] /\ UNCHANGED child
      BY <2>0, <2>2 DEF Candidate
    <3> HIDE DEF x
    <3> QED BY <2>1, <2>2, <3>1, <3>2
  <2>3. CASE CandidateFork(r) BY <2>2, <2>3 DEF CandidateFork
  <2>4. CASE CandidateCheck(r) BY <2>2, <2>4 DEF CandidateCheck
  <2>5. CASE CandidateRegister(r) BY <2>2, <2>5 DEF CandidateRegister
  <2>6. CASE CandidateEnd(r) BY <2>2, <2>6 DEF CandidateEnd
  <2>7. CASE CancelDescendants(r)
    <3> DEFINE x == [candidate |-> IF worker[r].candidate = "owned" THEN "none"
                                  ELSE worker[r].candidate,
                     open |-> FALSE, term |-> "handled",
                     raced |-> worker[r].candidate = "checked"]
    <3>1. x \in Workers /\ ~x.open BY <2>0 DEF Workers
    <3>2. x.raced \/ x.candidate \in {"none", "born", "over"}
      BY <2>0 DEF Workers
    <3>3. worker' = [worker EXCEPT ![r] = x] /\ UNCHANGED child
      BY <2>0, <2>7 DEF CancelDescendants
    <3> HIDE DEF x
    <3> QED BY <2>1, <3>1, <3>2, <3>3
  <2>8. CASE WriteReceipt(r) BY <2>2, <2>8 DEF WriteReceipt
  <2>9. CASE UNCHANGED worker BY <1>1, <2>9
  <2> QED
    BY <1>4, <2>3, <2>4, <2>5, <2>6, <2>7, <2>8, <2>9
    DEF Process, ChildExit, ChildDies
<1>5. CASE CancelTerm
  <2>1. ASSUME NEW r \in Requests
        PROVE  /\ worker'[r].term = "handled" => worker'[r] = worker[r]
    <3>1. worker[r] \in Workers BY DEF Shapes
    <3> QED BY <1>5, <3>1 DEF CancelTerm, Workers
  <2> QED BY <2>1
<1>6. CASE Signal \/ StopServing \/ Drained \/ CancelKill \/ CancelReap \/ Close
  BY <1>1, <1>6 DEF Signal, StopServing, Drained, CancelKill, CancelReap, Close
<1>7. CASE UNCHANGED vars BY <1>1, <1>7 DEF vars
<1> QED
  BY <1>2, <1>3, <1>4, <1>5, <1>6, <1>7, StepKinds, QuietSteps, SpawnSteps,
     KillSteps, CollectReapSteps, FinallySteps DEF Main

(* What a child that ends by itself leaves alone. *)
LEMMA ProcessChild ==
    ASSUME Shapes, NEW r \in Requests, Process(r)
    PROVE  \A q \in Requests :
             /\ child[q].st # "running" => child'[q] = child[q]
             /\ child[q].st = "running" => child'[q].st \in {"running", "exited"}
             /\ child'[q].killed = child[q].killed
<1>0. child \in [Requests -> Children] /\ child[r] \in Children BY DEF Shapes
<1>1. CASE UNCHANGED child BY <1>0, <1>1
<1>2. ASSUME NEW rc, child[r].st = "running",
             child' = [child EXCEPT ![r].st = "exited", ![r].rc = rc]
      PROVE  \A q \in Requests :
               /\ child[q].st # "running" => child'[q] = child[q]
               /\ child[q].st = "running" =>
                    child'[q].st \in {"running", "exited"}
               /\ child'[q].killed = child[q].killed
  <2> DEFINE c == [child[r] EXCEPT !.st = "exited", !.rc = rc]
  <2>1. c.st = "exited" /\ c.killed = child[r].killed BY <1>0 DEF Children
  <2>2. child' = [child EXCEPT ![r] = c] BY <1>0, <1>2
  <2> HIDE DEF c
  <2>3. child'[r] = c /\ \A q \in Requests : q # r => child'[q] = child[q]
    BY <1>0, <2>2
  <2> QED BY <1>2, <2>1, <2>3
<1> QED
  BY <1>1, <1>2
  DEF Process, ChildExit, ChildDies, CandidateFork, CandidateCheck,
      CandidateRegister, CandidateEnd, WriteReceipt, CancelDescendants,
      Candidate

LEMMA OwnChildStep ==
    ASSUME Shapes, ChildrenOwned, OwnChild, [Next]_vars
    PROVE  OwnChild'
<1> USE DEF OwnChild, admission, processes, main
<1>1. ASSUME NEW r \in Requests, QuietEffect(r) PROVE OwnChild'
  BY <1>1 DEF QuietEffect, Left, Over, Collecting
<1>2. ASSUME NEW r \in Requests, SpawnEffect(r) PROVE OwnChild'
  BY <1>2 DEF SpawnEffect, Walks
<1>3. ASSUME NEW r \in Requests, KillEffect(r) PROVE OwnChild'
  BY <1>3 DEF KillEffect, Walks, Collecting
<1>4. ASSUME NEW r \in Requests, CollectReapEffect(r) PROVE OwnChild'
  <2>1. /\ rq[r].kind \in Spawning /\ child[r].st # "none"
        /\ rq[r].outcome = "none"
    BY <1>4 DEF CollectReapEffect, Collecting
  <2>2. CASE Reap(r)
    <3>1. /\ child'[r].st = "reaped" /\ child'[r].rc = ReapedCode(r)
          /\ \A q \in Requests : q # r => child'[q] = child[q]
      BY <2>1, <2>2, ReapEffect
    <3>2. ~ReapTimeout(r) \/ r \notin entries'
      BY <2>2 DEF Reap
    <3>3. CASE ReapTimeout(r)
      <4>1. r \in entries /\ entries' = entries BY <3>3, ReapTimeoutEffect
      <4> QED BY <3>2, <3>3, <4>1
    <3>4. CASE ~ReapTimeout(r)
      BY <1>4, <2>1, <3>1, <3>4 DEF CollectReapEffect, Collecting
    <3> QED BY <3>3, <3>4
  <2>3. CASE ~Reap(r) /\ ReapTimeout(r)
    <3>1. \A q \in Requests : child'[q].st = child[q].st /\ child'[q].rc = child[q].rc
      BY <2>3, ReapTimeoutEffect
    <3> QED BY <1>4, <2>1, <2>3, <3>1 DEF CollectReapEffect, Collecting
  <2> QED BY <1>4, <2>2, <2>3 DEF CollectReapEffect
<1>5. ASSUME NEW r \in Requests, FinallyEffect(r) PROVE OwnChild'
  <2>1. \A q \in Requests : q # r => /\ child'[q].st = child[q].st
                                     /\ child'[q].rc = child[q].rc
    BY <1>5, ReapEffect, ReapTimeoutEffect DEF FinallyEffect
  <2> QED BY <1>5, <2>1 DEF FinallyEffect, Walks, Collecting
<1>6. ASSUME UNCHANGED rq,
             \A q \in Requests :
               /\ child[q].st # "none" => child'[q].st # "none"
               /\ child[q].st = "reaped" => child'[q] = child[q]
      PROVE  OwnChild'
  BY <1>6
<1>7. ASSUME NEW r \in Requests, Process(r) PROVE OwnChild'
  BY <1>6, <1>7, ProcessChild, ProcessShapes
<1>8. CASE CancelReap
  <2>1. /\ UNCHANGED rq /\ entries \subseteq Requests
        /\ \A q \in Requests : child[q].st = "reaped" => q \notin entries
    BY <1>8 DEF CancelReap, ChildrenOwned, Shapes
  <2> QED BY <1>6, <1>8, <2>1, CancelReapEffect
<1>9. CASE CancelKill
  <2>1. UNCHANGED rq /\ child' = Killed(entries) BY <1>9 DEF CancelKill
  <2>2. \A q \in Requests : child'[q].st = child[q].st /\ child'[q].rc = child[q].rc
    BY <2>1, KilledChildren DEF Shapes
  <2> QED BY <2>1, <2>2
<1>10. CASE Signal \/ StopServing \/ Drained \/ CancelTerm \/ Close
  <2>1. UNCHANGED <<rq, child>>
    BY <1>10 DEF Signal, StopServing, Drained, CancelTerm, Close
  <2> QED BY <1>6, <2>1
<1>11. CASE UNCHANGED vars BY <1>6, <1>11 DEF vars
<1> QED
  BY <1>1, <1>2, <1>3, <1>4, <1>5, <1>7, <1>8, <1>9, <1>10, <1>11, StepKinds,
     QuietSteps, SpawnSteps, KillSteps, CollectReapSteps, FinallySteps DEF Main

(* A success is reported by the finally block alone, and its child is reaped
   with code 0; no later step touches a reaped child. *)
LEMMA PassedStep ==
    ASSUME Shapes, ChildrenOwned, OwnChild, SuccessReaped, [Next]_vars
    PROVE  SuccessReaped'
<1> USE DEF SuccessReaped, admission, processes, main
<1>0. \A q \in Requests : rq[q].outcome = "passed" =>
        rq[q].pc \in {"answered", "released", "done"}
  BY DEF OwnChild
<1>1. ASSUME NEW r \in Requests, QuietEffect(r) PROVE SuccessReaped'
  <2>1. rq'[r].outcome = "passed" =>
          rq[r].outcome = "passed" /\ rq'[r].term \in {rq[r].term, "none"}
    BY <1>0, <1>1 DEF QuietEffect, Left
  <2>2. /\ UNCHANGED child
        /\ \A q \in Requests : q # r => rq'[q] = rq[q]
    BY <1>1 DEF QuietEffect
  <2> QED BY <2>1, <2>2
<1>2. ASSUME NEW r \in Requests, SpawnEffect(r) PROVE SuccessReaped'
  BY <1>0, <1>2 DEF SpawnEffect, Walks
<1>3. ASSUME NEW r \in Requests, KillEffect(r) PROVE SuccessReaped'
  BY <1>0, <1>3 DEF KillEffect, Walks
<1>4. ASSUME NEW r \in Requests, CollectReapEffect(r) PROVE SuccessReaped'
  <2>1. rq'[r].outcome # "passed" BY <1>0, <1>4 DEF CollectReapEffect
  <2>2. \A q \in Requests : q # r => /\ rq'[q] = rq[q]
                                     /\ child'[q].st = child[q].st
                                     /\ child'[q].rc = child[q].rc
    BY <1>4, ReapEffect, ReapTimeoutEffect DEF CollectReapEffect
  <2> QED BY <2>1, <2>2
<1>5. ASSUME NEW r \in Requests, FinallyEffect(r) PROVE SuccessReaped'
  <2>1. \A q \in Requests : q # r => /\ rq'[q] = rq[q]
                                     /\ child'[q].st = child[q].st
                                     /\ child'[q].rc = child[q].rc
    BY <1>5, ReapEffect, ReapTimeoutEffect DEF FinallyEffect, Walks
  <2>2. ASSUME rq'[r].outcome = "passed"
        PROVE  /\ rq'[r].term = "none"
               /\ child'[r].st = "reaped" /\ child'[r].rc = "zero"
    <3>1. /\ Reap(r) /\ rq[r].outcome # "error" /\ rq[r].pc = "finally"
          /\ rq[r].term = "none" /\ rq[r].rc = "zero"
          /\ rq'[r].term = rq[r].term
      BY <1>5, <2>2 DEF FinallyEffect, Walks
    <3>2. child[r].st = "reaped" /\ child[r].rc = "zero"
      BY <3>1 DEF OwnChild
    <3>3. child'[r] = child[r] BY <3>1, <3>2, ReapEffect
    <3> QED BY <3>1, <3>2, <3>3
  <2> QED BY <2>1, <2>2
<1>6. ASSUME UNCHANGED rq,
             \A q \in Requests : child[q].st = "reaped" =>
               child'[q].st = child[q].st /\ child'[q].rc = child[q].rc
      PROVE  SuccessReaped'
  BY <1>6
<1>7. ASSUME NEW r \in Requests, Process(r) PROVE SuccessReaped'
  BY <1>6, <1>7, ProcessChild, ProcessShapes
<1>8. CASE CancelReap
  <2>1. UNCHANGED rq BY <1>8 DEF CancelReap
  <2>2. \A q \in Requests : child[q].st = "reaped" => q \notin entries
    BY DEF ChildrenOwned
  <2> QED BY <1>6, <1>8, <2>1, <2>2, CancelReapEffect
<1>9. CASE CancelKill
  <2>1. UNCHANGED rq /\ child' = Killed(entries) BY <1>9 DEF CancelKill
  <2> QED BY <1>6, <2>1, KilledChildren DEF Shapes
<1>10. CASE Signal \/ StopServing \/ Drained \/ CancelTerm \/ Close
  <2>1. UNCHANGED <<rq, child>>
    BY <1>10 DEF Signal, StopServing, Drained, CancelTerm, Close
  <2> QED BY <1>6, <2>1
<1>11. CASE UNCHANGED vars BY <1>6, <1>11 DEF vars
<1> QED
  BY <1>1, <1>2, <1>3, <1>4, <1>5, <1>7, <1>8, <1>9, <1>10, <1>11, StepKinds,
     QuietSteps, SpawnSteps, KillSteps, CollectReapSteps, FinallySteps DEF Main

(* A worker that handled SIGTERM ends with code 0 only past its last look at
   CANCELLED: it handled it while it ran, and the candidate of a worker that
   does not run stays what it is. *)
LEMMA HandledStep ==
    ASSUME Shapes, ChildrenOwned, HandledFails, [Next]_vars
    PROVE  HandledFails'
<1> USE DEF HandledFails, admission, processes, main
<1>1. ASSUME \A q \in Requests :
               /\ child'[q].rc = child[q].rc \/ child'[q].rc = "killed"
               /\ child'[q].st = "running" => child'[q] = child[q] \/
                    (child'[q].rc = child[q].rc /\ child[q].st = "running")
               /\ worker'[q].term = "handled" => worker[q].term = "handled"
               /\ worker'[q].candidate = worker[q].candidate
      PROVE  HandledFails'
  BY <1>1
<1>2. ASSUME NEW r \in Requests, QuietEffect(r) PROVE HandledFails'
  BY <1>1, <1>2 DEF QuietEffect
<1>3. ASSUME NEW r \in Requests, SpawnEffect(r) PROVE HandledFails'
  BY <1>3 DEF SpawnEffect
<1>4. ASSUME NEW r \in Requests, KillEffect(r) PROVE HandledFails'
  BY <1>1, <1>4 DEF KillEffect
<1>5. ASSUME NEW r \in Requests, UNCHANGED worker, Reap(r) \/ ReapTimeout(r)
      PROVE  HandledFails'
  <2>1. CASE Reap(r)
    <3>1. \A q \in Requests : q # r => child'[q] = child[q]
      BY <2>1, ReapEffect
    <3>2. CASE child[r].st \in {"running", "exited"}
      BY <1>1, <1>5, <2>1, <3>1, <3>2, ReapEffect DEF ReapedCode
    <3>3. CASE child[r].st \notin {"running", "exited"}
      BY <1>1, <1>5, <2>1, <3>1, <3>3, ReapEffect
    <3> QED BY <3>2, <3>3
  <2>2. CASE ReapTimeout(r) BY <1>1, <1>5, <2>2, ReapTimeoutEffect
  <2> QED BY <1>5, <2>1, <2>2
<1>6. ASSUME NEW r \in Requests, CollectReapEffect(r) \/ FinallyEffect(r)
      PROVE  HandledFails'
  BY <1>5, <1>6 DEF CollectReapEffect, FinallyEffect
<1>7. ASSUME NEW r \in Requests, Process(r) PROVE HandledFails'
  <2>0. /\ child \in [Requests -> Children] /\ child[r] \in Children
        /\ worker \in [Requests -> Workers] /\ worker[r] \in Workers
    BY DEF Shapes
  <2>1. ASSUME NEW rc \in {"zero", "nonzero"}, ChildExit(r, rc)
        PROVE  HandledFails'
    <3>1. /\ child'[r].st = "exited" /\ child'[r].rc = rc
          /\ \A q \in Requests : q # r => child'[q] = child[q]
          /\ UNCHANGED worker
          /\ rc = "zero" /\ worker[r].term = "handled" =>
               worker[r].candidate = "over"
      BY <2>0, <2>1 DEF ChildExit, Children
    <3> QED BY <3>1
  <2>2. CASE ChildDies(r)
    <3>1. /\ child'[r].st = "exited" /\ child'[r].rc = "killed"
          /\ \A q \in Requests : q # r => child'[q] = child[q]
          /\ UNCHANGED worker
      BY <2>0, <2>2 DEF ChildDies, Children
    <3> QED BY <3>1
  <2>3. ASSUME NEW c, Working(r), Candidate(r, c) PROVE HandledFails'
    <3>1. /\ UNCHANGED child /\ child[r].st = "running"
          /\ \A q \in Requests : q # r => worker'[q] = worker[q]
      BY <2>0, <2>3 DEF Candidate, Working, Workers
    <3> QED BY <3>1
  <2>4. CASE CancelDescendants(r)
    <3>1. /\ UNCHANGED child /\ child[r].st = "running"
          /\ \A q \in Requests : q # r => worker'[q] = worker[q]
      BY <2>0, <2>4 DEF CancelDescendants, Working
    <3> QED BY <3>1
  <2> QED BY <1>7, <2>1, <2>2, <2>3, <2>4
    DEF Process, CandidateFork, CandidateCheck, CandidateRegister, CandidateEnd,
        WriteReceipt
<1>8. CASE CancelTerm
  <2>1. UNCHANGED child BY <1>8 DEF CancelTerm
  <2>2. ASSUME NEW q \in Requests
        PROVE  /\ worker'[q].term = "handled" => worker[q].term = "handled"
               /\ worker'[q].candidate = worker[q].candidate
    <3>1. worker[q] \in Workers BY DEF Shapes
    <3>2. \/ worker'[q] = worker[q]
          \/ worker'[q] = [worker[q] EXCEPT !.term = "pending"]
      BY <1>8 DEF CancelTerm
    <3> QED BY <3>1, <3>2 DEF Workers
  <2> QED BY <1>1, <2>1, <2>2
<1>9. CASE CancelKill
  <2>1. UNCHANGED worker /\ child' = Killed(entries) BY <1>9 DEF CancelKill
  <2> QED BY <1>1, <2>1, KilledChildren DEF Shapes
<1>10. CASE CancelReap
  <2>1. UNCHANGED worker BY <1>10 DEF CancelReap
  <2>2. ASSUME NEW q \in Requests
        PROVE  \/ child'[q] = child[q]
               \/ /\ child'[q].st = "reaped"
                  /\ child'[q].rc = child[q].rc \/ child'[q].rc = "killed"
    BY <1>10, CancelReapEffect DEF ReapedCode
  <2> QED BY <1>1, <2>1, <2>2
<1>11. CASE Signal \/ StopServing \/ Drained \/ Close \/ UNCHANGED vars
  <2>1. UNCHANGED <<child, worker>>
    BY <1>11 DEF Signal, StopServing, Drained, Close, vars
  <2> QED BY <1>1, <2>1
<1> QED
  BY <1>2, <1>3, <1>4, <1>6, <1>7, <1>8, <1>9, <1>10, <1>11, StepKinds,
     QuietSteps, SpawnSteps, KillSteps, CollectReapSteps, FinallySteps DEF Main

(* Ownership ends with the reaping, and the process does not end before every
   child is reaped or signalled. *)
LEMMA OwnedStep ==
    ASSUME Shapes, ChildrenOwned, GivenUpKilled, OwnChild, GateClosed, Counted,
           [Next]_vars
    PROVE  ChildrenOwned' /\ GivenUpKilled'
<1> USE DEF admission, processes, main
<1> DEFINE Live(c) == c.st \in {"running", "exited"}
           Killing == srv \in {"killed", "cancelled", "closed"}
<1>0. /\ entries \subseteq Requests
      /\ \A q \in Requests : q \in entries <=> Live(child[q])
      /\ \A q \in entries : rq[q].pc \in Collecting \/ child[q].killed
      /\ srv \in {"terminated", "killed", "cancelled"} => ~accepting
      /\ Killing => \A q \in entries : child[q].killed
  BY DEF ChildrenOwned, GivenUpKilled, Shapes
<1>1. ASSUME entries' \subseteq Requests,
             \A q \in Requests : q \in entries' <=> Live(child'[q]),
             \A q \in entries' : rq'[q].pc \in Collecting \/ child'[q].killed,
             srv' \in {"terminated", "killed", "cancelled"} => ~accepting',
             srv' \in {"killed", "cancelled", "closed"} =>
               \A q \in entries' : child'[q].killed
      PROVE  ChildrenOwned' /\ GivenUpKilled'
  BY <1>1 DEF ChildrenOwned, GivenUpKilled
<1>2. ASSUME NEW r \in Requests, QuietEffect(r)
      PROVE  ChildrenOwned' /\ GivenUpKilled'
  <2>1. /\ UNCHANGED <<child, entries, accepting, srv>>
        /\ \A q \in Requests : rq[q].pc \in Collecting => rq'[q].pc \in Collecting
    BY <1>2 DEF QuietEffect, Left, Over, Collecting
  <2> QED BY <1>0, <1>1, <2>1
<1>3. ASSUME NEW r \in Requests, SpawnEffect(r)
      PROVE  ChildrenOwned' /\ GivenUpKilled'
  <2>1. /\ entries' = entries \union {r} /\ Live(child'[r])
        /\ rq'[r].pc \in Collecting
        /\ \A q \in Requests : q # r => child'[q] = child[q] /\ rq'[q] = rq[q]
        /\ UNCHANGED <<accepting, srv>> /\ accepting /\ srv # "closed"
    BY <1>3 DEF SpawnEffect, Walks, Collecting, Alive
  <2> HIDE DEF Live
  <2> QED BY <1>0, <1>1, <2>1
<1>4. ASSUME NEW r \in Requests, KillEffect(r)
      PROVE  ChildrenOwned' /\ GivenUpKilled'
  <2>1. /\ UNCHANGED <<entries, accepting, srv>>
        /\ \A q \in Requests :
             /\ child'[q].st = child[q].st
             /\ child[q].killed => child'[q].killed
             /\ rq[q].pc \in Collecting => rq'[q].pc \in Collecting
    BY <1>4 DEF KillEffect, Walks, Collecting
  <2> QED BY <1>0, <1>1, <2>1
<1>5. ASSUME NEW r \in Requests, Reap(r), UNCHANGED <<accepting, srv>>,
             child[r].st # "none",
             \A q \in Requests : q # r => rq'[q] = rq[q]
      PROVE  ChildrenOwned' /\ GivenUpKilled'
  <2>1. /\ entries' = entries \ {r} /\ ~Live(child'[r])
        /\ \A q \in Requests : q # r => child'[q] = child[q]
    BY <1>5, ReapEffect
  <2> HIDE DEF Live
  <2> QED BY <1>0, <1>1, <1>5, <2>1
<1>6. ASSUME NEW r \in Requests, ReapTimeout(r), UNCHANGED <<accepting, srv>>,
             \A q \in Requests : q # r => rq'[q] = rq[q]
      PROVE  ChildrenOwned' /\ GivenUpKilled'
  <2>1. /\ entries' = entries /\ child'[r].killed
        /\ \A q \in Requests : /\ child'[q].st = child[q].st
                               /\ child[q].killed => child'[q].killed
    BY <1>6, ReapTimeoutEffect
  <2> QED BY <1>0, <1>1, <1>6, <2>1
<1>7. ASSUME NEW r \in Requests, CollectReapEffect(r) \/ FinallyEffect(r)
      PROVE  ChildrenOwned' /\ GivenUpKilled'
  <2>1. /\ UNCHANGED <<accepting, srv>>
        /\ Reap(r) \/ ReapTimeout(r)
        /\ rq[r].pc \in Collecting
        /\ \A q \in Requests : q # r => rq'[q] = rq[q]
    BY <1>7 DEF CollectReapEffect, FinallyEffect, Walks, Collecting
  <2>2. child[r].st # "none" BY <2>1 DEF OwnChild
  <2> QED BY <1>5, <1>6, <2>1, <2>2
<1>8. ASSUME NEW r \in Requests, Process(r)
      PROVE  ChildrenOwned' /\ GivenUpKilled'
  <2>1. /\ UNCHANGED <<rq, entries, accepting, srv>>
        /\ \A q \in Requests : /\ Live(child'[q]) <=> Live(child[q])
                               /\ child'[q].killed = child[q].killed
    BY <1>8, ProcessChild, ProcessShapes
  <2> HIDE DEF Live
  <2> QED BY <1>0, <1>1, <2>1
<1>9. CASE Signal \/ StopServing \/ CancelTerm
  <2>1. /\ UNCHANGED <<rq, child, entries>>
        /\ srv' \notin {"killed", "cancelled", "closed"}
        /\ srv' = "terminated" => ~accepting'
    BY <1>9 DEF Signal, StopServing, CancelTerm
  <2> QED BY <1>0, <1>1, <2>1
<1>10. CASE Drained
  <2>1. /\ UNCHANGED <<rq, child, entries>> /\ srv' = "closed" /\ active = 0
    BY <1>10 DEF Drained
  <2>2. Inside = {}
    <3>1. Inside \subseteq Requests BY DEF Inside
    <3>2. IsFiniteSet(Inside) BY <3>1, SlotsAssumption, FS_Subset
    <3>3. Cardinality(Inside) = 0 BY <2>1 DEF Counted, AdmissionExact
    <3> QED BY <3>2, <3>3, FS_EmptySet
  <2>3. \A q \in Requests : rq[q].pc \notin Collecting
    BY <2>2 DEF OwnChild, Inside, IsWork, Collecting, Spawning
  <2> QED BY <1>0, <1>1, <2>1, <2>3
<1>11. CASE CancelKill
  <2>1. /\ UNCHANGED <<rq, entries, accepting>> /\ srv = "terminated"
        /\ srv' = "killed" /\ child' = Killed(entries)
    BY <1>11 DEF CancelKill
  <2>2. \A q \in Requests : /\ child'[q].st = child[q].st
                            /\ q \in entries => child'[q].killed
    BY <2>1, KilledChildren DEF Shapes
  <2>3. \A q \in Requests : q \in entries' <=> Live(child'[q])
    BY <1>0, <2>1, <2>2
  <2>4. /\ entries' \subseteq Requests /\ ~accepting'
        /\ \A q \in entries' : child'[q].killed
    BY <1>0, <2>1, <2>2
  <2> HIDE DEF Live
  <2> QED BY <1>1, <2>3, <2>4
<1>12. CASE CancelReap
  <2>1. /\ UNCHANGED <<rq, accepting>> /\ srv = "killed" /\ srv' = "cancelled"
    BY <1>12 DEF CancelReap
  <2>2. /\ entries' \subseteq entries
        /\ \A q \in entries' : child'[q] = child[q] /\ Live(child'[q])
        /\ \A q \in entries \ entries' : ~Live(child'[q])
        /\ \A q \in Requests : q \notin entries => child'[q] = child[q]
    BY <1>12, CancelReapEffect
  <2> HIDE DEF Live
  <2> QED BY <1>0, <1>1, <2>1, <2>2
<1>13. CASE Close
  <2>1. /\ UNCHANGED <<rq, child, entries>> /\ srv = "cancelled"
        /\ srv' = "closed"
    BY <1>13 DEF Close
  <2> QED BY <1>0, <1>1, <2>1
<1>14. CASE UNCHANGED vars BY <1>0, <1>1, <1>14 DEF vars
<1> QED
  BY <1>2, <1>3, <1>4, <1>7, <1>8, <1>9, <1>10, <1>11, <1>12, <1>13, <1>14,
     StepKinds, QuietSteps, SpawnSteps, KillSteps, CollectReapSteps,
     FinallySteps DEF Main

-----------------------------------------------------------------------------
(* The theorems *)

LEMMA ShutdownInvParts ==
    ShutdownInv <=>
        /\ Shapes /\ Counted /\ ChildrenOwned /\ SuccessReaped
        /\ HandledFails /\ GateClosed /\ OnlyWorkCounted /\ OwnChild /\ GivenUpKilled
        /\ DescendantsCancelled
BY TypeParts DEF ShutdownInv, Counted, Pools

LEMMA ShutdownInvPrimed ==
    ASSUME Shapes', Counted', ChildrenOwned', SuccessReaped', HandledFails',
           GateClosed', OnlyWorkCounted', OwnChild', GivenUpKilled', DescendantsCancelled'
    PROVE  ShutdownInv'
BY TypePartsPrimed DEF ShutdownInv, Counted, Pools

LEMMA ShutdownInit == ASSUME Init PROVE ShutdownInv
<1>1. /\ NoRequest \in Threads /\ NoRequest.pc = "idle"
      /\ NoRequest.outcome = "none"
  BY DEF NoRequest, Threads, Positions, Kinds, Endings, Codes, Answers
<1>2. NoChild \in Children /\ NoChild.st = "none"
  BY DEF NoChild, Children, Codes
<1>3. NoWorker \in Workers /\ NoWorker.term = "none" BY DEF NoWorker, Workers
<1>4. /\ \A r \in Requests : rq[r] = NoRequest
      /\ \A r \in Requests : child[r] = NoChild
      /\ \A r \in Requests : worker[r] = NoWorker
  BY DEF Init
<1>5. Shapes BY <1>1, <1>2, <1>3 DEF Init, Shapes, MainStates
<1>6. Inside = {} /\ \A pool \in Pools : Holding(pool) = {}
  BY <1>1, <1>4 DEF Inside, Holding
<1>7. Counted
  BY <1>6, SlotsAssumption, FS_EmptySet
  DEF Init, Counted, AdmissionExact, Pools
<1>8. ChildrenOwned BY <1>2, <1>4 DEF Init, ChildrenOwned
<1>9. SuccessReaped BY <1>1, <1>4 DEF SuccessReaped
<1>10. GateClosed BY DEF Init, GateClosed
<1>11. OnlyWorkCounted BY <1>1, <1>4 DEF OnlyWorkCounted
<1>12. OwnChild BY <1>1, <1>4 DEF OwnChild, Collecting
<1>13. GivenUpKilled BY DEF Init, GivenUpKilled
<1>14. DescendantsCancelled BY <1>3, <1>4 DEF DescendantsCancelled
<1>15. HandledFails BY <1>2, <1>3, <1>4 DEF HandledFails
<1> QED
  BY <1>5, <1>7, <1>8, <1>9, <1>10, <1>11, <1>12, <1>13, <1>14, <1>15,
     ShutdownInvParts

(* The inductive invariant: whatever the requests, the children and the two
   deadlines of serve do, places, ownership and outcomes stay consistent. *)
THEOREM ShutdownAlways == Spec => []ShutdownInv
<1>1. Init => ShutdownInv BY ShutdownInit
<1>2. ASSUME ShutdownInv, [Next]_vars PROVE ShutdownInv'
  <2>1. /\ Shapes /\ Counted /\ ChildrenOwned /\ SuccessReaped
        /\ HandledFails /\ GateClosed /\ OnlyWorkCounted /\ OwnChild /\ GivenUpKilled
        /\ DescendantsCancelled
    BY <1>2, ShutdownInvParts
  <2>2. Shapes' BY <1>2, <2>1, ShapesStep
  <2>3. Counted' BY <1>2, <2>1, CountedStep
  <2>4. ChildrenOwned' /\ GivenUpKilled' BY <1>2, <2>1, OwnedStep
  <2>5. SuccessReaped' BY <1>2, <2>1, PassedStep
  <2>6. GateClosed' BY <1>2, <2>1, GateClosedStep
  <2>7. OnlyWorkCounted' BY <1>2, <2>1, OnlyWorkStep
  <2>8. OwnChild' BY <1>2, <2>1, OwnChildStep
  <2>9. DescendantsCancelled' BY <1>2, <2>1, DescendantsStep
  <2>10. HandledFails' BY <1>2, <2>1, HandledStep
  <2> QED
    BY <2>2, <2>3, <2>4, <2>5, <2>6, <2>7, <2>8, <2>9, <2>10, ShutdownInvPrimed
<1> QED BY <1>1, <1>2, PTL DEF Spec

(* The semaphores and the active count are exact in every reachable state: no
   way a request is refused, raced by the signal or ended leaks a place, and
   wait_for_drain waits for exactly the admitted work. *)
THEOREM AdmissionAlwaysExact == Spec => []AdmissionExact
<1>1. ShutdownInv => AdmissionExact BY DEF ShutdownInv
<1> QED BY <1>1, ShutdownAlways, PTL

(* The registry owns exactly the unreaped children, and a service that ended
   has signalled every child it leaves. *)
THEOREM RegistryOwnsChildren == Spec => []ChildrenOwned
<1>1. ShutdownInv => ChildrenOwned BY DEF ShutdownInv
<1> QED BY <1>1, ShutdownAlways, PTL

(* A "passed" receipt is of a child that exited with code 0 in time, whoever
   reaped it, and of a benchmark worker that handled the cancellation only when
   its last candidate was over by then.  A command of an evidence request that answers SIGTERM with code 0 does pass
   (CancelledFailsClosed). *)
THEOREM SuccessIsReal == Spec => []PassedHonestly
<1>1. ShutdownInv => PassedHonestly
  BY DEF ShutdownInv, SuccessReaped, HandledFails, PassedHonestly
<1> QED BY <1>1, ShutdownAlways, PTL

(* A worker that handled SIGTERM leaves no candidate running, outside of the
   two windows the property names. *)
THEOREM CandidatesCancelled == Spec => []NoOrphanedCandidate
<1>1. ShutdownInv => NoOrphanedCandidate
  BY DEF ShutdownInv, DescendantsCancelled, NoOrphanedCandidate
<1> QED BY <1>1, ShutdownAlways, PTL

-----------------------------------------------------------------------------
(* The drain gate *)

(* The phase of the gate, as the refinement mapping of Gate defines it. *)
Phase == IF srv = "closed" THEN (IF graceful THEN "clean" ELSE "forced")
         ELSE IF draining THEN "draining" ELSE "open"

(* Every step of the service is a step of the drain gate or leaves it alone. *)
LEMMA GateStep ==
    ASSUME ShutdownInv, [Next]_vars
    PROVE  [Gate!Next]_(Gate!vars)
<1> USE DEF admission, processes, main
<1>0. Shapes /\ Counted /\ ChildrenOwned /\ GateClosed /\ OnlyWorkCounted
  BY ShutdownInvParts
<1>1. ASSUME Inside' = Inside, Phase' = Phase PROVE [Gate!Next]_(Gate!vars)
  BY <1>1 DEF Gate!vars, Phase
<1>2. ASSUME NEW r \in Requests, Inside' = Inside \union {r}, Phase = "open",
             Phase' = Phase
      PROVE  [Gate!Next]_(Gate!vars)
  BY <1>2 DEF Gate!Next, Gate!Enter, Phase
<1>3. ASSUME NEW r \in Requests, Inside' = Inside \ {r},
             Phase \in {"open", "draining"}, Phase' = Phase
      PROVE  [Gate!Next]_(Gate!vars)
  BY <1>3 DEF Gate!Next, Gate!Leave, Gate!Ended, Phase
<1>4. ASSUME Inside' = Inside, Phase = "open", Phase' = "draining"
      PROVE  [Gate!Next]_(Gate!vars)
  BY <1>4 DEF Gate!Next, Gate!CloseGate, Phase
<1>5. ASSUME Inside' = Inside, Phase = "draining",
             Phase' = "forced" \/ (Phase' = "clean" /\ Inside = {})
      PROVE  [Gate!Next]_(Gate!vars)
  BY <1>5 DEF Gate!Next, Gate!End, Phase
<1>6. ASSUME UNCHANGED <<draining, srv, graceful>> PROVE Phase' = Phase
  BY <1>6 DEF Phase
<1>7. ASSUME UNCHANGED rq PROVE Inside' = Inside BY <1>7 DEF Inside, IsWork
<1>8. ASSUME NEW r \in Requests, \A q \in Requests : q # r => rq'[q] = rq[q],
             \/ /\ rq[r].pc \in Left /\ rq'[r].pc \in Left \ {"admitted"}
                /\ rq[r].pc # "admitted"
             \/ /\ rq[r].pc \in Within /\ rq'[r].pc \in Within
                /\ rq'[r].kind = rq[r].kind
      PROVE  Inside' = Inside
  <2>1. Inside' \ {r} = Inside \ {r} BY <1>8 DEF Inside, IsWork
  <2>2. r \in Inside <=> r \in Inside'
    BY <1>8 DEF Inside, IsWork, Left, Within
  <2> QED BY <2>1, <2>2
<1>9. ASSUME NEW r \in Requests, Quiet(r) PROVE [Gate!Next]_(Gate!vars)
  <2>1. /\ UNCHANGED <<draining, srv, graceful>>
        /\ \A q \in Requests : q # r => rq'[q] = rq[q]
    BY <1>0, <1>9, QuietSteps DEF QuietEffect
  <2>2. Phase' = Phase BY <1>6, <2>1
  <2>3. CASE Admit(r)
    <3>1. Alive /\ rq[r].pc = "slotted" BY <2>3 DEF Admit
    <3>2. CASE draining /\ IsWork(r)
      <4>1. rq'[r].pc = "refused"
        BY <1>0, <2>3, <3>2, GotoEffect DEF Admit, Positions
      <4> QED BY <1>1, <1>8, <2>1, <2>2, <3>1, <4>1 DEF Left
    <3>3. CASE ~(draining /\ IsWork(r))
      <4>1. rq'[r].pc = "admitted" /\ rq'[r].kind = rq[r].kind
        BY <1>0, <2>3, <3>3, GotoEffect DEF Admit, Positions
      <4>2. Inside' \ {r} = Inside \ {r} /\ r \notin Inside
        BY <2>1, <3>1 DEF Inside, IsWork
      <4>3. r \in Inside' <=> IsWork(r) BY <4>1 DEF Inside, IsWork
      <4>4. CASE IsWork(r)
        <5>1. Inside' = Inside \union {r} BY <4>2, <4>3, <4>4
        <5>2. Phase = "open" BY <3>1, <3>3, <4>4 DEF Phase, Alive
        <5> QED BY <1>2, <2>2, <5>1, <5>2
      <4>5. CASE ~IsWork(r)
        <5>1. Inside' = Inside BY <4>2, <4>3, <4>5
        <5> QED BY <1>1, <2>2, <5>1
      <4> QED BY <4>4, <4>5
    <3> QED BY <3>2, <3>3
  <2>4. CASE ReleaseSlot(r)
    <3>1. /\ rq[r].pc = "answered"
          /\ IF IsWork(r) THEN rq'[r].pc = "released" /\ rq'[r].kind = rq[r].kind
             ELSE rq'[r].pc = "done"
      BY <1>0, <2>4, GotoEffect, DoneEffect, Names DEF ReleaseSlot
    <3>2. r \in Inside <=> r \in Inside' BY <3>1 DEF Inside, IsWork
    <3>3. Inside' \ {r} = Inside \ {r} BY <2>1 DEF Inside, IsWork
    <3>4. Inside' = Inside BY <3>2, <3>3
    <3> QED BY <1>1, <2>2, <3>4
  <2>5. CASE ReleaseActive(r)
    <3>1. Alive /\ rq[r].pc = "released" /\ rq'[r].pc = "done"
      BY <1>0, <2>5, DoneEffect DEF ReleaseActive
    <3>2. Inside' \ {r} = Inside \ {r} /\ r \notin Inside'
      BY <2>1, <3>1 DEF Inside, IsWork
    <3>3. Inside' = Inside \ {r} BY <3>2
    <3>4. Phase \in {"open", "draining"} BY <3>1 DEF Phase, Alive
    <3> QED BY <1>3, <2>2, <3>3, <3>4
  <2>6. CASE \E kind \in Kinds : Arrive(r, kind)
    <3>1. rq[r].pc = "idle" /\ rq'[r].pc = "arrived"
      BY <1>0, <2>6 DEF Arrive, Shapes, Threads
    <3> QED BY <1>1, <1>8, <2>1, <2>2, <3>1 DEF Left
  <2>7. CASE CheckGate(r)
    <3>1. rq[r].pc = "arrived" /\ rq'[r].pc \in {"refused", "checked"}
      BY <1>0, <2>7, GotoEffect DEF CheckGate, Positions
    <3> QED BY <1>1, <1>8, <2>1, <2>2, <3>1 DEF Left
  <2>8. CASE AcquireSlot(r)
    <3>1. rq[r].pc = "checked" /\ rq'[r].pc \in {"refused", "slotted"}
      BY <1>0, <2>8, GotoEffect DEF AcquireSlot, Positions
    <3> QED BY <1>1, <1>8, <2>1, <2>2, <3>1 DEF Left
  <2>9. CASE Answer(r) \/ Malformed(r) \/ PolicyViolation(r) \/ SpawnError(r)
    <3>1. rq[r].pc = "admitted" /\ \E o : Finish(r, o)
      BY <2>9 DEF Answer, Malformed, PolicyViolation, SpawnError
    <3>2. rq'[r].pc = "answered" /\ rq'[r].kind = rq[r].kind
      BY <1>0, <3>1, FinishEffect
    <3> QED BY <1>1, <1>8, <2>1, <2>2, <3>1, <3>2 DEF Within
  <2>10. CASE CollectEnd(r)
    <3>1. /\ rq[r].pc = "collecting" /\ rq'[r].pc = "reaping"
          /\ rq'[r].kind = rq[r].kind
      BY <1>0, <2>10, GotoEffect, Names DEF CollectEnd
    <3> QED BY <1>1, <1>8, <2>1, <2>2, <3>1 DEF Within
  <2> QED
    BY <1>9, <2>3, <2>4, <2>5, <2>6, <2>7, <2>8, <2>9, <2>10 DEF Quiet
<1>10. ASSUME NEW r \in Requests,
              \/ Spawn(r)
              \/ \E why \in {"timeout", "output_limit"} : CollectKill(r, why)
              \/ CollectReap(r)
              \/ Finally(r)
       PROVE  [Gate!Next]_(Gate!vars)
  <2>1. CASE Spawn(r)
    <3>1. /\ rq[r].pc = "admitted" /\ UNCHANGED <<draining, srv, graceful>>
          /\ Goto(r, "collecting") \/ Finish(r, "error")
      BY <2>1 DEF Spawn
    <3>2. /\ \A q \in Requests : q # r => rq'[q] = rq[q]
          /\ rq'[r].pc \in Within /\ rq'[r].kind = rq[r].kind
      BY <1>0, <3>1, Names, GotoEffect, FinishEffect DEF Within
    <3> QED BY <1>1, <1>6, <1>8, <3>1, <3>2 DEF Within
  <2>2. ASSUME KillEffect(r) \/ CollectReapEffect(r) \/ FinallyEffect(r)
        PROVE  [Gate!Next]_(Gate!vars)
    <3>1. /\ rq[r].pc \in Within /\ rq'[r].pc \in Within
          /\ rq'[r].kind = rq[r].kind
          /\ \A q \in Requests : q # r => rq'[q] = rq[q]
          /\ UNCHANGED <<draining, srv, graceful>>
      BY <2>2 DEF KillEffect, CollectReapEffect, FinallyEffect, Walks, Within
    <3> QED BY <1>1, <1>6, <1>8, <3>1
  <2> QED
    BY <1>0, <1>10, <2>1, <2>2, KillSteps, CollectReapSteps, FinallySteps
<1>11. ASSUME NEW r \in Requests, Process(r) PROVE [Gate!Next]_(Gate!vars)
  BY <1>0, <1>1, <1>6, <1>7, <1>11, ProcessShapes
<1>12. ASSUME Signal \/ StopServing \/ Main PROVE Inside' = Inside
  BY <1>0, <1>7, <1>12, MainShapes
<1>13. CASE Signal
  <2>1. Phase = "open" /\ Phase' = "draining" BY <1>13 DEF Signal, Phase
  <2> QED BY <1>4, <1>12, <1>13, <2>1
<1>14. CASE StopServing
  <2>1. Phase' = "draining" /\ Phase = IF draining THEN "draining" ELSE "open"
    BY <1>14 DEF StopServing, Phase
  <2> QED BY <1>1, <1>4, <1>12, <1>14, <2>1
<1>15. CASE Drained
  <2>1. /\ Phase = "draining" /\ Phase' = "clean" /\ active = 0
    BY <1>0, <1>15 DEF Drained, Phase, GateClosed
  <2>2. Inside = {}
    <3>1. Inside \subseteq Requests BY DEF Inside
    <3>2. IsFiniteSet(Inside) BY <3>1, SlotsAssumption, FS_Subset
    <3>3. Cardinality(Inside) = 0 BY <1>0, <2>1 DEF Counted, AdmissionExact
    <3> QED BY <3>2, <3>3, FS_EmptySet
  <2> QED BY <1>5, <1>12, <1>15, <2>1, <2>2 DEF Main
<1>16. CASE Close
  <2>1. Phase = "draining" /\ Phase' = "forced"
    BY <1>0, <1>16 DEF Close, Phase, GateClosed
  <2> QED BY <1>5, <1>12, <1>16, <2>1 DEF Main
<1>17. ASSUME srv' # "closed", srv # "closed", UNCHANGED draining, Main
       PROVE  [Gate!Next]_(Gate!vars)
  BY <1>1, <1>12, <1>17 DEF Phase
<1>18. CASE CancelTerm BY <1>17, <1>18 DEF CancelTerm, Main
<1>19. CASE CancelKill BY <1>17, <1>19 DEF CancelKill, Main
<1>20. CASE CancelReap BY <1>17, <1>20 DEF CancelReap, Main
<1>21. CASE UNCHANGED vars BY <1>1, <1>6, <1>7, <1>21 DEF vars
<1> QED
  BY <1>9, <1>10, <1>11, <1>13, <1>14, <1>15, <1>16, <1>18, <1>19, <1>20,
     <1>21, StepKinds DEF Main

(* The safety part of the refinement ImplementsGate: a request racing with the
   signal enters before the gate closes or not at all, and serve reports a
   clean end only when every admitted request has left. *)
THEOREM GateRefined == Spec => Gate!Init /\ [][Gate!Next]_(Gate!vars)
<1>1. Init => Gate!Init
  BY DEF Init, Gate!Init, Inside, NoRequest
<1>2. ShutdownInv /\ [Next]_vars => [Gate!Next]_(Gate!vars) BY GateStep
<1> QED BY <1>1, <1>2, ShutdownAlways, PTL DEF Spec
=============================================================================
