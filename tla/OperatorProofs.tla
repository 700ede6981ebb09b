---------------------------- MODULE OperatorProofs ----------------------------
(***************************************************************************)
(* For any requests, items, keys, ranks and proposers, and any number of   *)
(* failing database calls: what an idempotency key, an answer and an       *)
(* approval of the approval center mean.  For any nodes, labels, retention *)
(* and requests: what cleaning the graph does.                             *)
(***************************************************************************)
EXTENDS ApprovalCenter, Pruning, FiniteSetTheorems, TLAPS

(* A request answered by a handler, or on its way to that.                  *)
Passed(q) ==
    \/ call[q].phase \in {"handling", "read", "written", "handled"}
    \/ call[q].phase = "done" /\ call[q].answer \in {"succeeded", "failed"}

(* How phase, answer and effect of a request go together.                   *)
CallInv ==
    \A q \in Requests :
        /\ call[q].phase \in {"unsent", "handling", "read", "written"} => call[q].answer = "none"
        /\ call[q].phase = "handled" => call[q].answer \in {"succeeded", "failed"}
        /\ call[q].phase = "written" => call[q].effect
        /\ call[q].effect => call[q].phase \in {"written", "handled", "done"} /\ Passed(q)

(* Nobody gets past the gate, or past the guards of a decision, without the *)
(* rank; and what was read is there.                                        *)
RankInv ==
    \A q \in Requests :
        /\ Passed(q) => call[q].rank >= Required
        /\ call[q].phase = "read" => item[Target(q)] # "absent"
        /\ call[q].phase = "read" \/ call[q].effect => Permitted(q)

(* An event that tells of a success has a request that was one.             *)
EventInv ==
    \A e \in events : e.result = "succeeded" =>
        \E p \in Requests : call[p].path = e.path /\ call[p].key = e.key /\ call[p].answer = "succeeded"

(* While no database call has failed the manager counts as available, every *)
(* change is told as a success, and every success that went out has left    *)
(* its event ...                                                            *)
CleanInv ==
    faults = 0 =>
        /\ ~unavailable
        /\ \A q \in Requests : call[q].phase = "handled" /\ call[q].effect => call[q].answer = "succeeded"
        /\ \A q \in Requests : call[q].phase = "done" /\ call[q].effect =>
             [path |-> call[q].path, key |-> call[q].key, result |-> "succeeded"] \in events

(* ... so that of two requests with one key, of which neither met the other *)
(* in a handler, one has gone without changing anything.                    *)
Over(q) == call[q].phase = "done" /\ ~call[q].effect
KeyInv ==
    faults = 0 =>
        \A p, q \in Requests : SameMutation(p, q) /\ Passed(p) /\ Passed(q) =>
            p \in call[q].beside \/ q \in call[p].beside \/ Over(p) \/ Over(q)

(* Two proposals under way overlap, one of them having looked while the     *)
(* other was under way; and what one of them found missing is missing until *)
(* another one that overlaps with it proposes it.                           *)
Overlap(p, o) == o \in proposal[p].beside \/ p \in proposal[o].beside
ProposalInv ==
    faults = 0 =>
        /\ \A p, o \in Proposing : p # o => Overlap(p, o)
        /\ \A p \in Proposing : /\ proposal[p].saw \notin {"pending", "deferred"}
                              /\ \/ proposal[p].saw # "absent"
                                 \/ \A a \in proposal[p].about : item[a] = "absent"
                                 \/ \E o \in Proposers \ {p} : Overlap(p, o)

Inv == /\ TypeOK /\ CallInv /\ RankInv /\ EventInv /\ CleanInv /\ KeyInv
       /\ SucceededIsAudited /\ RefusedWasDone /\ ApprovedByRank

USE KeysAssumption, RanksAssumption, MaxFaultsAssumption, ItemsAssumption, PathsAssumption

-----------------------------------------------------------------------------
(* Records of requests, and what a step does to the one request it moves.   *)
Phases == {"unsent", "handling", "read", "written", "handled", "done"}

LEMMA AnsweredCall ==
    ASSUME NEW r \in Call, NEW phase \in Phases, NEW answer \in Answers
    PROVE  [r EXCEPT !.phase = phase, !.answer = answer] \in Call
<1>1. [r EXCEPT !.phase = phase] \in Call
  BY DEF Call, Phases
<1>2. \A d \in Call : [d EXCEPT !.answer = answer] \in Call
  BY DEF Call
<1> QED
  BY <1>1, <1>2, Zenon

LEMMA PassedCall ==
    ASSUME NEW r \in Call, NEW beside \in SUBSET Requests
    PROVE  [r EXCEPT !.phase = "handling", !.beside = beside] \in Call
<1>1. [r EXCEPT !.phase = "handling"] \in Call
  BY DEF Call
<1>2. \A d \in Call : [d EXCEPT !.beside = beside] \in Call
  BY DEF Call
<1> QED
  BY <1>1, <1>2, Zenon

LEMMA WrittenCall ==
    ASSUME NEW r \in Call PROVE [r EXCEPT !.phase = "written", !.effect = TRUE] \in Call
<1>1. [r EXCEPT !.phase = "written"] \in Call
  BY DEF Call
<1>2. \A d \in Call : [d EXCEPT !.effect = TRUE] \in Call
  BY DEF Call
<1> QED
  BY <1>1, <1>2, Zenon

Others(q) == /\ call' \in [Requests -> Call]
             /\ \A p \in Requests \ {q} : call'[p] = call[p]
             /\ call'[q].path = call[q].path /\ call'[q].key = call[q].key /\ call'[q].rank = call[q].rank
Kept(q) == call'[q].beside = call[q].beside /\ (call'[q].effect <=> call[q].effect)

LEMMA Answering ==
    ASSUME call \in [Requests -> Call], NEW q \in Requests, NEW phase \in Phases, NEW answer \in Answers,
           call' = [call EXCEPT ![q].phase = phase, ![q].answer = answer]
    PROVE  Others(q) /\ Kept(q) /\ call'[q].phase = phase /\ call'[q].answer = answer
<1> DEFINE c == [call[q] EXCEPT !.phase = phase, !.answer = answer]
<1>1. call[q] \in Call
  OBVIOUS
<1>2. c \in Call
  BY <1>1, AnsweredCall
<1>3. call' = [call EXCEPT ![q] = c]
  BY Zenon
<1>4. /\ c.phase = phase /\ c.answer = answer /\ c.path = call[q].path /\ c.key = call[q].key
      /\ c.rank = call[q].rank /\ c.beside = call[q].beside /\ (c.effect <=> call[q].effect)
  BY <1>1, Zenon DEF Call
<1> HIDE DEF c
<1>5. call' \in [Requests -> Call] /\ call'[q] = c /\ \A p \in Requests \ {q} : call'[p] = call[p]
  BY <1>2, <1>3
<1> QED
  BY <1>4, <1>5 DEF Others, Kept

LEMMA Moving ==
    ASSUME call \in [Requests -> Call], NEW q \in Requests, NEW phase \in Phases,
           call' = [call EXCEPT ![q].phase = phase]
    PROVE  Others(q) /\ Kept(q) /\ call'[q].phase = phase /\ call'[q].answer = call[q].answer
<1> DEFINE c == [call[q] EXCEPT !.phase = phase]
<1>1. call[q] \in Call
  OBVIOUS
<1>2. c \in Call
  BY <1>1 DEF Call, Phases
<1>3. call' = [call EXCEPT ![q] = c]
  BY Zenon
<1>4. /\ c.phase = phase /\ c.answer = call[q].answer /\ c.path = call[q].path /\ c.key = call[q].key
      /\ c.rank = call[q].rank /\ c.beside = call[q].beside /\ (c.effect <=> call[q].effect)
  BY <1>1, Zenon DEF Call
<1> HIDE DEF c
<1>5. call' \in [Requests -> Call] /\ call'[q] = c /\ \A p \in Requests \ {q} : call'[p] = call[p]
  BY <1>2, <1>3
<1> QED
  BY <1>4, <1>5 DEF Others, Kept

LEMMA Passing ==
    ASSUME call \in [Requests -> Call], NEW q \in Requests, Pass(q)
    PROVE  /\ Others(q) /\ call'[q].phase = "handling" /\ call'[q].answer = call[q].answer
           /\ call'[q].beside = InHandler /\ (call'[q].effect <=> call[q].effect)
<1> DEFINE c == [call[q] EXCEPT !.phase = "handling", !.beside = InHandler]
<1>1. call[q] \in Call
  OBVIOUS
<1>2. c \in Call
  BY <1>1, PassedCall DEF InHandler
<1>3. call' = [call EXCEPT ![q] = c]
  BY Zenon DEF Pass
<1>4. /\ c.phase = "handling" /\ c.answer = call[q].answer /\ c.path = call[q].path /\ c.key = call[q].key
      /\ c.rank = call[q].rank /\ c.beside = InHandler /\ (c.effect <=> call[q].effect)
  BY <1>1, Zenon DEF Call
<1> HIDE DEF c
<1>5. call' \in [Requests -> Call] /\ call'[q] = c /\ \A p \in Requests \ {q} : call'[p] = call[p]
  BY <1>2, <1>3
<1> QED
  BY <1>4, <1>5 DEF Others

LEMMA Writing ==
    ASSUME call \in [Requests -> Call], NEW q \in Requests,
           call' = [call EXCEPT ![q].phase = "written", ![q].effect = TRUE]
    PROVE  /\ Others(q) /\ call'[q].phase = "written" /\ call'[q].answer = call[q].answer
           /\ call'[q].beside = call[q].beside /\ call'[q].effect
<1> DEFINE c == [call[q] EXCEPT !.phase = "written", !.effect = TRUE]
<1>1. call[q] \in Call
  OBVIOUS
<1>2. c \in Call
  BY <1>1, WrittenCall
<1>3. call' = [call EXCEPT ![q] = c]
  BY Zenon
<1>4. /\ c.phase = "written" /\ c.answer = call[q].answer /\ c.path = call[q].path /\ c.key = call[q].key
      /\ c.rank = call[q].rank /\ c.beside = call[q].beside /\ c.effect
  BY <1>1, Zenon DEF Call
<1> HIDE DEF c
<1>5. call' \in [Requests -> Call] /\ call'[q] = c /\ \A p \in Requests \ {q} : call'[p] = call[p]
  BY <1>2, <1>3
<1> QED
  BY <1>4, <1>5 DEF Others

-----------------------------------------------------------------------------
LEMMA Starts == Init => Inv
<1> SUFFICES ASSUME Init PROVE Inv
  OBVIOUS
<1>1. call \in [Requests -> Call]
  BY DEF Init, GateInit, Call, Answers
<1>2. \A q \in Requests : call[q].phase = "unsent" /\ call[q].answer = "none" /\ ~call[q].effect
  BY DEF Init, GateInit
<1>3. events = {} /\ unavailable = FALSE /\ faults = 0 /\ trail = {}
  BY DEF Init, GateInit, ApprovalInit
<1>4. item \in [Items -> Status]
  BY DEF Init, ApprovalInit, Status
<1>5. proposal \in [Proposers -> [at : {"start", "looked", "done"}, about : SUBSET Items,
                                  saw : Status, beside : SUBSET Proposers]]
  BY DEF Init, ApprovalInit, Status
<1>6. events \subseteq Event /\ trail \subseteq Requests
  BY <1>3
<1>12. unavailable \in BOOLEAN
  BY <1>3
<1>13. faults \in 0..MaxFaults
  BY <1>3
<1>7. TypeOK
  BY <1>1, <1>4, <1>5, <1>6, <1>12, <1>13 DEF TypeOK, GateTypeOK
<1>8. CallInv /\ RankInv /\ KeyInv
  BY <1>2 DEF CallInv, RankInv, KeyInv, Passed
<1>9. EventInv /\ CleanInv
  BY <1>2, <1>3 DEF EventInv, CleanInv
<1>10. SucceededIsAudited /\ RefusedWasDone
  BY <1>2 DEF SucceededIsAudited, RefusedWasDone
<1>11. ApprovedByRank
  BY DEF Init, ApprovalInit, ApprovedByRank
<1> QED
  BY <1>7, <1>8, <1>9, <1>10, <1>11 DEF Inv

(* A request that is answered at the gate leaves everything as it was: no   *)
(* invariant needs to know more of it than that it made no change and told  *)
(* of no success.                                                           *)
LEMMA RefusalKeeps ==
    ASSUME Inv, NEW q \in Requests, call[q].phase = "unsent",
           NEW answer \in {"limited", "forbidden", "duplicate"}, Refuse(q, answer),
           answer = "duplicate" => Seen(q) /\ call[q].key # NoKey,
           events \subseteq events', events' \subseteq Event,
           \A e \in events' \ events : e.result = "rejected",
           faults' = faults \/ Fault, UNCHANGED <<unavailable, approvalVars>>
    PROVE  Inv'
<1>1. TypeOK /\ CallInv /\ RankInv /\ EventInv /\ CleanInv /\ KeyInv
      /\ SucceededIsAudited /\ RefusedWasDone /\ ApprovedByRank
  BY DEF Inv
<1>2. call \in [Requests -> Call] /\ faults \in Nat /\ faults' \in 0..MaxFaults /\ (faults' = 0 => faults = 0)
  BY <1>1 DEF TypeOK, GateTypeOK, Fault
<1>3. Others(q) /\ Kept(q) /\ call'[q].phase = "done" /\ call'[q].answer = answer
  BY <1>2, Answering DEF Refuse, Phases, Answers
<1>4. call[q].answer = "none" /\ ~call[q].effect /\ ~call'[q].effect /\ ~Passed(q)
  BY <1>1, <1>3 DEF CallInv, Kept, Passed
<1>5. ~Passed(q)'
  BY <1>3 DEF Passed
<1>6. \A p \in Requests \ {q} : call'[p] = call[p]
  BY <1>3 DEF Others
<1>7. item' = item /\ trail' = trail /\ proposal' = proposal /\ unavailable' = unavailable
  BY DEF approvalVars
<1>8. TypeOK'
  BY <1>1, <1>2, <1>3, <1>7 DEF TypeOK, GateTypeOK, Others
<1>9. CallInv'
  BY <1>1, <1>3, <1>4, <1>6 DEF CallInv, Passed
<1>10. RankInv'
  BY <1>1, <1>3, <1>4, <1>5, <1>6, <1>7 DEF RankInv, Passed, Permitted, Target, Verb
<1>11. EventInv'
  BY <1>1, <1>4, <1>6 DEF EventInv
<1>12. CleanInv'
  BY <1>1, <1>2, <1>3, <1>4, <1>6, <1>7 DEF CleanInv
<1>13. KeyInv'
  BY <1>1, <1>2, <1>5, <1>6 DEF KeyInv, SameMutation, Passed, Over
<1>14. SucceededIsAudited'
  BY <1>1, <1>3, <1>6, <1>7 DEF SucceededIsAudited
<1>15. RefusedWasDone'
  <2> SUFFICES ASSUME NEW r \in Requests, call'[r].answer = "duplicate"
               PROVE  \E p \in trail : SameMutation(p, r)' /\ call'[p].effect
    BY <1>7 DEF RefusedWasDone
  <2>1. CASE r # q
    <3>1. PICK p \in trail : SameMutation(p, r) /\ call[p].effect
      BY <1>1, <1>6, <2>1 DEF RefusedWasDone
    <3>2. p \in Requests /\ p # q
      BY <1>1, <1>4, <3>1 DEF TypeOK
    <3> QED
      BY <1>6, <2>1, <3>1, <3>2 DEF SameMutation
  <2>2. CASE r = q
    <3>1. PICK e \in events : e.path = call[q].path /\ e.key = call[q].key /\ e.result = "succeeded"
      BY <1>3, <2>2 DEF Seen, Completed
    <3>2. PICK p \in Requests : call[p].path = e.path /\ call[p].key = e.key /\ call[p].answer = "succeeded"
      BY <1>1, <3>1 DEF EventInv
    <3>3. p # q /\ p \in trail /\ call[p].effect
      BY <1>1, <1>4, <3>2 DEF SucceededIsAudited
    <3>4. call[q].key # NoKey
      BY <1>3, <2>2
    <3>5. SameMutation(p, q)' /\ call'[p].effect
      BY <1>3, <1>6, <3>1, <3>2, <3>3, <3>4 DEF SameMutation, Others
    <3> QED
      BY <2>2, <3>3, <3>5
  <2> QED
    BY <2>1, <2>2
<1>16. ApprovedByRank'
  <2> SUFFICES ASSUME NEW a \in Items, item[a] = "approved"
               PROVE  a \notin Manual /\ \E p \in Requests : ApprovedBy(p, a)'
    BY <1>7 DEF ApprovedByRank
  <2>1. PICK p \in Requests : ApprovedBy(p, a)
    BY <1>1 DEF ApprovedByRank
  <2>2. ApprovedBy(p, a)'
    BY <1>4, <1>6, <2>1 DEF ApprovedBy
  <2> QED
    BY <1>1, <2>2 DEF ApprovedByRank
<1> QED
  BY <1>8, <1>9, <1>10, <1>11, <1>12, <1>13, <1>14, <1>15, <1>16 DEF Inv

(* A request that passes the gate met everybody who is in a handler; whoever *)
(* was through with it under its key had changed nothing.                    *)
LEMMA PassKeeps ==
    ASSUME Inv, NEW q \in Requests, call[q].phase = "unsent", call[q].rank >= Required, Pass(q),
           \/ faults' = faults /\ (call[q].key = NoKey \/ unavailable \/ ~Seen(q))
           \/ Fault,
           UNCHANGED <<events, unavailable, approvalVars>>
    PROVE  Inv'
<1>1. TypeOK /\ CallInv /\ RankInv /\ EventInv /\ CleanInv /\ KeyInv
      /\ SucceededIsAudited /\ RefusedWasDone /\ ApprovedByRank
  BY DEF Inv
<1>2. call \in [Requests -> Call] /\ faults \in Nat /\ faults' \in 0..MaxFaults /\ (faults' = 0 => faults = 0)
  BY <1>1 DEF TypeOK, GateTypeOK, Fault
<1>3. /\ Others(q) /\ call'[q].phase = "handling" /\ call'[q].answer = "none"
      /\ call'[q].beside = InHandler /\ ~call'[q].effect /\ ~call[q].effect /\ call[q].answer = "none"
  BY <1>1, <1>2, Passing DEF CallInv
<1>4. \A p \in Requests \ {q} : call'[p] = call[p]
  BY <1>3 DEF Others
<1>5. /\ item' = item /\ trail' = trail /\ proposal' = proposal /\ unavailable' = unavailable
      /\ events' = events
  BY DEF approvalVars
<1>6. TypeOK'
  BY <1>1, <1>2, <1>3, <1>5 DEF TypeOK, GateTypeOK, Others
<1>7. CallInv'
  BY <1>1, <1>3, <1>4 DEF CallInv, Passed
<1>8. RankInv'
  BY <1>1, <1>3, <1>4, <1>5 DEF RankInv, Passed, Permitted, Target, Verb, Others
<1>9. EventInv'
  BY <1>1, <1>3, <1>4, <1>5 DEF EventInv
<1>10. CleanInv'
  BY <1>1, <1>2, <1>3, <1>4, <1>5 DEF CleanInv
<1>11. KeyInv'
  <2> SUFFICES ASSUME faults' = 0, NEW p \in Requests, NEW r \in Requests, SameMutation(p, r)',
                      Passed(p)', Passed(r)'
               PROVE  p \in call'[r].beside \/ r \in call'[p].beside \/ Over(p)' \/ Over(r)'
    BY DEF KeyInv
  <2>1. p # r /\ SameMutation(p, r)
    BY <1>3, <1>4 DEF SameMutation, Others
  <2>2. CASE p # q /\ r # q
    BY <1>1, <1>2, <1>4, <2>1, <2>2 DEF KeyInv, Passed, Over
  <2>3. ASSUME NEW o \in Requests, o # q, SameMutation(o, q), Passed(o)
        PROVE  o \in InHandler \/ Over(o)
    <3>1. CASE call[o].phase \in {"handling", "read", "written", "handled"}
      BY <3>1 DEF InHandler
    <3>2. CASE call[o].phase = "done" /\ call[o].effect
      <4>1. [path |-> call[o].path, key |-> call[o].key, result |-> "succeeded"] \in events /\ ~unavailable
        BY <1>1, <1>2, <3>2 DEF CleanInv
      <4>2. call[q].key # NoKey /\ Seen(q)
        BY <2>3, <4>1 DEF Seen, Completed, SameMutation
      <4>3. faults' # faults + 1
        BY <1>2
      <4> QED
        BY <4>1, <4>2, <4>3 DEF Fault
    <3>3. CASE call[o].phase = "done" /\ ~call[o].effect
      BY <3>3 DEF Over
    <3> QED
      BY <2>3, <3>1, <3>2, <3>3 DEF Passed
  <2>4. CASE p = q
    BY <1>3, <1>4, <2>1, <2>3, <2>4 DEF SameMutation, Passed, Over
  <2>5. CASE r = q
    BY <1>3, <1>4, <2>1, <2>3, <2>5 DEF SameMutation, Passed, Over
  <2> QED
    BY <2>2, <2>4, <2>5
<1>12. SucceededIsAudited'
  BY <1>1, <1>3, <1>4, <1>5 DEF SucceededIsAudited
<1>13. RefusedWasDone'
  <2> SUFFICES ASSUME NEW r \in Requests, call'[r].answer = "duplicate"
               PROVE  \E p \in trail : SameMutation(p, r)' /\ call'[p].effect
    BY <1>5 DEF RefusedWasDone
  <2>1. PICK p \in trail : SameMutation(p, r) /\ call[p].effect
    BY <1>1, <1>3, <1>4 DEF RefusedWasDone
  <2> QED
    BY <1>1, <1>3, <1>4, <2>1 DEF SameMutation, TypeOK
<1>14. ApprovedByRank'
  <2> SUFFICES ASSUME NEW a \in Items, item[a] = "approved"
               PROVE  a \notin Manual /\ \E p \in Requests : ApprovedBy(p, a)'
    BY <1>5 DEF ApprovedByRank
  <2>1. PICK p \in Requests : ApprovedBy(p, a)
    BY <1>1 DEF ApprovedByRank
  <2>2. ApprovedBy(p, a)'
    BY <1>3, <1>4, <2>1 DEF ApprovedBy
  <2> QED
    BY <1>1, <2>2 DEF ApprovedByRank
<1> QED
  BY <1>6, <1>7, <1>8, <1>9, <1>10, <1>11, <1>12, <1>13, <1>14 DEF Inv

(* A handler that fails: while no database call did, it had changed nothing. *)
LEMMA FailKeeps ==
    ASSUME Inv, NEW q \in Requests, call[q].phase \in {"handling", "read", "written"}, Handled(q, "failed"),
           (faults' = faults /\ call[q].phase = "handling" /\ unavailable' = FALSE) \/ Fault,
           unavailable' \in BOOLEAN, UNCHANGED <<events, approvalVars>>
    PROVE  Inv'
<1>1. TypeOK /\ CallInv /\ RankInv /\ EventInv /\ CleanInv /\ KeyInv
      /\ SucceededIsAudited /\ RefusedWasDone /\ ApprovedByRank
  BY DEF Inv
<1>2. call \in [Requests -> Call] /\ faults \in Nat /\ faults' \in 0..MaxFaults /\ (faults' = 0 => faults = 0)
  BY <1>1 DEF TypeOK, GateTypeOK, Fault
<1>3. Others(q) /\ Kept(q) /\ call'[q].phase = "handled" /\ call'[q].answer = "failed" /\ call[q].answer = "none"
  BY <1>1, <1>2, Answering DEF Handled, Phases, Answers, CallInv
<1>4. \A p \in Requests \ {q} : call'[p] = call[p]
  BY <1>3 DEF Others
<1>5. /\ item' = item /\ trail' = trail /\ proposal' = proposal /\ events' = events
  BY DEF approvalVars
<1>6. TypeOK'
  BY <1>1, <1>2, <1>3, <1>5 DEF TypeOK, GateTypeOK, Others
<1>7. CallInv'
  BY <1>1, <1>3, <1>4 DEF CallInv, Passed, Kept
<1>8. RankInv'
  BY <1>1, <1>3, <1>4, <1>5 DEF RankInv, Passed, Permitted, Target, Verb, Others, Kept
<1>9. EventInv'
  BY <1>1, <1>3, <1>4, <1>5 DEF EventInv
<1>10. CleanInv'
  <2>1. CASE faults' = faults /\ call[q].phase = "handling" /\ unavailable' = FALSE
    <3>1. ~call'[q].effect
      BY <1>1, <1>3, <2>1 DEF CallInv, Kept
    <3> QED
      BY <1>1, <1>2, <1>3, <1>4, <1>5, <2>1, <3>1 DEF CleanInv
  <2>2. CASE Fault
    BY <1>2, <2>2 DEF CleanInv, Fault
  <2> QED
    BY <2>1, <2>2
<1>11. KeyInv'
  BY <1>1, <1>2, <1>3, <1>4 DEF KeyInv, SameMutation, Passed, Over, Others, Kept
<1>12. SucceededIsAudited'
  BY <1>1, <1>3, <1>4, <1>5 DEF SucceededIsAudited
<1>13. RefusedWasDone'
  <2> SUFFICES ASSUME NEW r \in Requests, call'[r].answer = "duplicate"
               PROVE  \E p \in trail' : SameMutation(p, r)' /\ call'[p].effect
    BY DEF RefusedWasDone
  <2>1. PICK p \in trail : SameMutation(p, r) /\ call[p].effect
    BY <1>1, <1>3, <1>4 DEF RefusedWasDone
  <2>2. SameMutation(p, r)'
    BY <1>1, <1>3, <1>4, <2>1 DEF SameMutation, TypeOK, Others
  <2>3. call'[p].effect
    BY <1>1, <1>3, <1>4, <2>1 DEF TypeOK, Kept
  <2> QED
    BY <1>5, <2>1, <2>2, <2>3
<1>14. ApprovedByRank'
  <2> SUFFICES ASSUME NEW a \in Items, item[a] = "approved"
               PROVE  a \notin Manual /\ \E p \in Requests : ApprovedBy(p, a)'
    BY <1>5 DEF ApprovedByRank
  <2>1. PICK p \in Requests : ApprovedBy(p, a)
    BY <1>1 DEF ApprovedByRank
  <2>2. ApprovedBy(p, a)'
    BY <1>3, <1>4, <2>1 DEF ApprovedBy, Others, Kept
  <2> QED
    BY <1>1, <2>2 DEF ApprovedByRank
<1> QED
  BY <1>6, <1>7, <1>8, <1>9, <1>10, <1>11, <1>12, <1>13, <1>14 DEF Inv

(* A decision goes on to be written only with the rank it takes.            *)
LEMMA ReadKeeps ==
    ASSUME Inv, NEW q \in Requests, call[q].phase = "handling", call' = [call EXCEPT ![q].phase = "read"],
           item[Target(q)] # "absent", Permitted(q),
           faults' = faults, unavailable' = FALSE, UNCHANGED <<events, approvalVars>>
    PROVE  Inv'
<1>1. TypeOK /\ CallInv /\ RankInv /\ EventInv /\ CleanInv /\ KeyInv
      /\ SucceededIsAudited /\ RefusedWasDone /\ ApprovedByRank
  BY DEF Inv
<1>2. call \in [Requests -> Call] /\ faults \in Nat /\ faults' \in 0..MaxFaults /\ (faults' = 0 => faults = 0)
  BY <1>1 DEF TypeOK, GateTypeOK, Fault
<1>3. Others(q) /\ Kept(q) /\ call'[q].phase = "read" /\ call'[q].answer = "none" /\ call[q].answer = "none"
  <2>1. call[q].answer = "none"
    BY <1>1 DEF CallInv
  <2>2. Others(q) /\ Kept(q) /\ call'[q].phase = "read" /\ call'[q].answer = call[q].answer
    <3>1. "read" \in Phases
      BY DEF Phases
    <3> QED
      BY <1>2, <3>1, Moving
  <2> QED
    BY <2>1, <2>2
<1>4. \A p \in Requests \ {q} : call'[p] = call[p]
  BY <1>3 DEF Others
<1>5. /\ item' = item /\ trail' = trail /\ proposal' = proposal /\ events' = events
  BY DEF approvalVars
<1>6. TypeOK'
  BY <1>1, <1>2, <1>3, <1>5 DEF TypeOK, GateTypeOK, Others
<1>7. CallInv'
  BY <1>1, <1>3, <1>4 DEF CallInv, Passed, Kept
<1>8. RankInv'
  BY <1>1, <1>3, <1>4, <1>5 DEF RankInv, Passed, Permitted, Target, Verb, Others, Kept
<1>9. EventInv'
  BY <1>1, <1>3, <1>4, <1>5 DEF EventInv
<1>10. CleanInv'
  BY <1>1, <1>2, <1>3, <1>4, <1>5 DEF CleanInv
<1>11. KeyInv'
  BY <1>1, <1>2, <1>3, <1>4 DEF KeyInv, SameMutation, Passed, Over, Others, Kept
<1>12. SucceededIsAudited'
  BY <1>1, <1>3, <1>4, <1>5 DEF SucceededIsAudited
<1>13. RefusedWasDone'
  <2> SUFFICES ASSUME NEW r \in Requests, call'[r].answer = "duplicate"
               PROVE  \E p \in trail' : SameMutation(p, r)' /\ call'[p].effect
    BY DEF RefusedWasDone
  <2>1. PICK p \in trail : SameMutation(p, r) /\ call[p].effect
    BY <1>1, <1>3, <1>4 DEF RefusedWasDone
  <2>2. SameMutation(p, r)'
    BY <1>1, <1>3, <1>4, <2>1 DEF SameMutation, TypeOK, Others
  <2>3. call'[p].effect
    BY <1>1, <1>3, <1>4, <2>1 DEF TypeOK, Kept
  <2> QED
    BY <1>5, <2>1, <2>2, <2>3
<1>14. ApprovedByRank'
  <2> SUFFICES ASSUME NEW a \in Items, item[a] = "approved"
               PROVE  a \notin Manual /\ \E p \in Requests : ApprovedBy(p, a)'
    BY <1>5 DEF ApprovedByRank
  <2>1. PICK p \in Requests : ApprovedBy(p, a)
    BY <1>1 DEF ApprovedByRank
  <2>2. ApprovedBy(p, a)'
    BY <1>3, <1>4, <2>1 DEF ApprovedBy, Others, Kept
  <2> QED
    BY <1>1, <2>2 DEF ApprovedByRank
<1> QED
  BY <1>6, <1>7, <1>8, <1>9, <1>10, <1>11, <1>12, <1>13, <1>14 DEF Inv

(* The decision is written: the only step that approves anything.           *)
LEMMA WriteKeeps ==
    ASSUME Inv, NEW q \in Requests, call[q].phase = "read",
           item' = [item EXCEPT ![Target(q)] = Outcome(Verb(q))],
           call' = [call EXCEPT ![q].phase = "written", ![q].effect = TRUE],
           UNCHANGED <<events, unavailable, faults, trail, proposal>>
    PROVE  Inv'
<1>1. TypeOK /\ CallInv /\ RankInv /\ EventInv /\ CleanInv /\ KeyInv
      /\ SucceededIsAudited /\ RefusedWasDone /\ ApprovedByRank
  BY DEF Inv
<1>2. call \in [Requests -> Call] /\ faults \in Nat /\ faults' \in 0..MaxFaults /\ (faults' = 0 => faults = 0)
  BY <1>1 DEF TypeOK, GateTypeOK, Fault
<1>3. /\ Others(q) /\ call'[q].phase = "written" /\ call'[q].answer = "none" /\ call[q].answer = "none"
      /\ call'[q].beside = call[q].beside /\ call'[q].effect
  BY <1>1, <1>2, Writing DEF CallInv
<1>4. \A p \in Requests \ {q} : call'[p] = call[p]
  BY <1>3 DEF Others
<1>5. trail' = trail /\ proposal' = proposal /\ events' = events /\ unavailable' = unavailable /\ faults' = faults
  OBVIOUS
<1>15. /\ Target(q) \in Items /\ Verb(q) \in Verbs /\ call[q].path = <<Target(q), Verb(q)>>
  BY <1>2 DEF Call, Target, Verb
<1>16. /\ Outcome(Verb(q)) \in Status \ {"absent"}
       /\ Outcome(Verb(q)) = "approved" => Verb(q) = "approve"
  BY <1>15 DEF Outcome, Verbs, Status
<1>17. item \in [Items -> Status]
  BY <1>1 DEF TypeOK
<1>18. /\ item' \in [Items -> Status]
       /\ \A a \in Items : item'[a] = item[a] \/ (a = Target(q) /\ item'[a] = Outcome(Verb(q)))
  BY <1>15, <1>16, <1>17
<1>6. TypeOK'
  BY <1>1, <1>2, <1>3, <1>5, <1>18 DEF TypeOK, GateTypeOK, Others
<1>7. CallInv'
  BY <1>1, <1>3, <1>4 DEF CallInv, Passed
<1>8. RankInv'
  <2> SUFFICES ASSUME NEW p \in Requests
               PROVE  /\ Passed(p)' => call'[p].rank >= Required
                      /\ call'[p].phase = "read" => item'[Target(p)'] # "absent"
                      /\ call'[p].phase = "read" \/ call'[p].effect => Permitted(p)'
    BY DEF RankInv
  <2>1. CASE p = q
    BY <1>1, <1>3, <2>1 DEF RankInv, Passed, Permitted, Target, Verb, Others
  <2>2. CASE p # q
    <3>1. Target(p) \in Items /\ Target(p)' = Target(p)
      BY <1>2, <1>4, <2>2 DEF Call, Target
    <3>2. call[p].phase = "read" => item'[Target(p)] # "absent"
      BY <1>1, <1>16, <1>18, <3>1 DEF RankInv
    <3>3. Passed(p)' = Passed(p) /\ Permitted(p)' = Permitted(p) /\ call'[p] = call[p]
      BY <1>4, <2>2 DEF Passed, Permitted, Verb, Target
    <3> QED
      BY <1>1, <3>1, <3>2, <3>3 DEF RankInv
  <2> QED
    BY <2>1, <2>2
<1>19. \A p \in Requests : /\ call'[p].path = call[p].path /\ call'[p].key = call[p].key
                           /\ call'[p].answer = call[p].answer
  BY <1>3, <1>4 DEF Others
<1>9. EventInv'
  <2> SUFFICES ASSUME NEW e \in events, e.result = "succeeded"
               PROVE  \E p \in Requests : call'[p].path = e.path /\ call'[p].key = e.key /\ call'[p].answer = "succeeded"
    BY <1>5, Zenon DEF EventInv
  <2>1. PICK p \in Requests : call[p].path = e.path /\ call[p].key = e.key /\ call[p].answer = "succeeded"
    BY <1>1, Zenon DEF EventInv
  <2> QED
    BY <1>19, <2>1, Zenon
<1>10. CleanInv'
  BY <1>1, <1>2, <1>3, <1>4, <1>5 DEF CleanInv
<1>11. KeyInv'
  BY <1>1, <1>2, <1>3, <1>4 DEF KeyInv, SameMutation, Passed, Over, Others
<1>12. SucceededIsAudited'
  BY <1>1, <1>3, <1>4, <1>5 DEF SucceededIsAudited
<1>13. RefusedWasDone'
  <2> SUFFICES ASSUME NEW r \in Requests, call'[r].answer = "duplicate"
               PROVE  \E p \in trail' : SameMutation(p, r)' /\ call'[p].effect
    BY DEF RefusedWasDone
  <2>1. PICK p \in trail : SameMutation(p, r) /\ call[p].effect
    BY <1>1, <1>3, <1>4 DEF RefusedWasDone
  <2>2. SameMutation(p, r)'
    BY <1>1, <1>3, <1>4, <2>1 DEF SameMutation, TypeOK, Others
  <2>3. call'[p].effect
    BY <1>1, <1>3, <1>4, <2>1 DEF TypeOK
  <2> QED
    BY <1>5, <2>1, <2>2, <2>3
<1>14. ApprovedByRank'
  <2> SUFFICES ASSUME NEW a \in Items, item'[a] = "approved"
               PROVE  a \notin Manual /\ \E p \in Requests : ApprovedBy(p, a)'
    BY DEF ApprovedByRank
  <2>1. CASE item[a] = "approved"
    <3>1. PICK p \in Requests : ApprovedBy(p, a)
      BY <1>1, <2>1 DEF ApprovedByRank
    <3>2. ApprovedBy(p, a)'
      BY <1>3, <1>4, <3>1 DEF ApprovedBy, Others
    <3> QED
      BY <1>1, <2>1, <3>2 DEF ApprovedByRank
  <2>2. CASE item[a] # "approved"
    <3>1. a = Target(q) /\ Verb(q) = "approve"
      BY <1>16, <1>18, <2>2
    <3>2. Permitted(q) /\ call[q].rank >= Required
      BY <1>1 DEF RankInv, Passed
    <3>3. ApprovedBy(q, a)'
      BY <1>3, <1>15, <3>1, <3>2 DEF ApprovedBy, Others, Permitted
    <3> QED
      BY <3>1, <3>2, <3>3 DEF Permitted
  <2> QED
    BY <2>1, <2>2
<1> QED
  BY <1>6, <1>7, <1>8, <1>9, <1>10, <1>11, <1>12, <1>13, <1>14 DEF Inv

(* The audit of a decision: from here on it counts as done.                 *)
LEMMA AuditKeeps ==
    ASSUME Inv, NEW q \in Requests, call[q].phase = "written",
           trail' = trail \cup {q}, Handled(q, "succeeded"),
           UNCHANGED <<events, unavailable, faults, item, proposal>>
    PROVE  Inv'
<1>1. TypeOK /\ CallInv /\ RankInv /\ EventInv /\ CleanInv /\ KeyInv
      /\ SucceededIsAudited /\ RefusedWasDone /\ ApprovedByRank
  BY DEF Inv
<1>2. call \in [Requests -> Call] /\ faults \in Nat /\ faults' \in 0..MaxFaults /\ (faults' = 0 => faults = 0)
  BY <1>1 DEF TypeOK, GateTypeOK, Fault
<1>3. Others(q) /\ Kept(q) /\ call'[q].phase = "handled" /\ call'[q].answer = "succeeded" /\ call[q].answer = "none"
  BY <1>1, <1>2, Answering DEF Handled, Phases, Answers, CallInv
<1>4. \A p \in Requests \ {q} : call'[p] = call[p]
  BY <1>3 DEF Others
<1>5. /\ item' = item /\ trail \subseteq trail' /\ q \in trail' /\ proposal' = proposal /\ events' = events
      /\ unavailable' = unavailable /\ faults' = faults
  OBVIOUS
<1>6. TypeOK'
  BY <1>1, <1>2, <1>3, <1>5 DEF TypeOK, GateTypeOK, Others
<1>7. CallInv'
  BY <1>1, <1>3, <1>4 DEF CallInv, Passed, Kept
<1>8. RankInv'
  BY <1>1, <1>3, <1>4, <1>5 DEF RankInv, Passed, Permitted, Target, Verb, Others, Kept
<1>9. EventInv'
  BY <1>1, <1>3, <1>4, <1>5 DEF EventInv
<1>10. CleanInv'
  BY <1>1, <1>2, <1>3, <1>4, <1>5 DEF CleanInv
<1>11. KeyInv'
  BY <1>1, <1>2, <1>3, <1>4 DEF KeyInv, SameMutation, Passed, Over, Others, Kept
<1>15. call'[q].effect
  BY <1>1, <1>3 DEF CallInv, Kept
<1>12. SucceededIsAudited'
  BY <1>1, <1>3, <1>4, <1>5, <1>15 DEF SucceededIsAudited
<1>13. RefusedWasDone'
  <2> SUFFICES ASSUME NEW r \in Requests, call'[r].answer = "duplicate"
               PROVE  \E p \in trail' : SameMutation(p, r)' /\ call'[p].effect
    BY DEF RefusedWasDone
  <2>1. PICK p \in trail : SameMutation(p, r) /\ call[p].effect
    BY <1>1, <1>3, <1>4 DEF RefusedWasDone
  <2>2. SameMutation(p, r)'
    BY <1>1, <1>3, <1>4, <2>1 DEF SameMutation, TypeOK, Others
  <2>3. call'[p].effect
    BY <1>1, <1>3, <1>4, <2>1 DEF TypeOK, Kept
  <2> QED
    BY <1>5, <2>1, <2>2, <2>3
<1>14. ApprovedByRank'
  <2> SUFFICES ASSUME NEW a \in Items, item[a] = "approved"
               PROVE  a \notin Manual /\ \E p \in Requests : ApprovedBy(p, a)'
    BY <1>5 DEF ApprovedByRank
  <2>1. PICK p \in Requests : ApprovedBy(p, a)
    BY <1>1 DEF ApprovedByRank
  <2>2. ApprovedBy(p, a)'
    BY <1>3, <1>4, <2>1 DEF ApprovedBy, Others, Kept
  <2> QED
    BY <1>1, <2>2 DEF ApprovedByRank
<1> QED
  BY <1>6, <1>7, <1>8, <1>9, <1>10, <1>11, <1>12, <1>13, <1>14 DEF Inv

(* The answer goes out after its event: a success leaves the event that the *)
(* next request under its key is refused by.                                *)
LEMMA RespondKeeps ==
    ASSUME Inv, NEW q \in Requests, Respond(q), UNCHANGED approvalVars
    PROVE  Inv'
<1>1. TypeOK /\ CallInv /\ RankInv /\ EventInv /\ CleanInv /\ KeyInv
      /\ SucceededIsAudited /\ RefusedWasDone /\ ApprovedByRank
  BY DEF Inv
<1>2. call \in [Requests -> Call] /\ faults \in Nat /\ faults' \in 0..MaxFaults /\ (faults' = 0 => faults = 0)
  BY <1>1 DEF TypeOK, GateTypeOK, Fault, NoFault, Respond, WriteEvent
<1>3. /\ Others(q) /\ Kept(q) /\ call[q].phase = "handled" /\ call'[q].phase = "done"
      /\ call'[q].answer = call[q].answer /\ call[q].answer \in {"succeeded", "failed"}
  BY <1>1, <1>2, Moving DEF Respond, Phases, CallInv
<1>4. \A p \in Requests \ {q} : call'[p] = call[p]
  BY <1>3 DEF Others
<1>5. /\ item' = item /\ trail' = trail /\ proposal' = proposal /\ unavailable' = unavailable
  BY DEF approvalVars, Respond
<1>15. EventOf(q) \in Event /\ EventOf(q).result = call[q].answer
       /\ EventOf(q).path = call[q].path /\ EventOf(q).key = call[q].key
  BY <1>2, <1>3 DEF EventOf, Event, Call
<1>16. events \subseteq events' /\ events' \subseteq events \cup {EventOf(q)}
  BY DEF Respond, WriteEvent
<1>6. TypeOK'
  BY <1>1, <1>2, <1>3, <1>5, <1>15, <1>16 DEF TypeOK, GateTypeOK, Others
<1>7. CallInv'
  BY <1>1, <1>3, <1>4 DEF CallInv, Passed, Kept
<1>8. RankInv'
  BY <1>1, <1>3, <1>4, <1>5 DEF RankInv, Passed, Permitted, Target, Verb, Others, Kept
<1>17. \A p \in Requests : /\ call'[p].path = call[p].path /\ call'[p].key = call[p].key
                           /\ call'[p].answer = call[p].answer
  BY <1>3, <1>4 DEF Others
<1>9. EventInv'
  BY <1>1, <1>15, <1>16, <1>17 DEF EventInv
<1>10. CleanInv'
  <2> SUFFICES ASSUME faults' = 0 PROVE CleanInv'
    BY DEF CleanInv
  <2>1. faults = 0 /\ ~unavailable /\ faults' # faults + 1
    BY <1>1, <1>2 DEF CleanInv
  <2>2. EventOf(q) \in events'
    BY <2>1 DEF Respond, WriteEvent, Fault
  <2>3. call[q].effect => EventOf(q) = [path |-> call[q].path, key |-> call[q].key, result |-> "succeeded"]
    BY <1>1, <1>3, <2>1 DEF EventOf, CleanInv
  <2>4. \A p \in Requests : call'[p].phase = "handled" /\ call'[p].effect => call'[p].answer = "succeeded"
    BY <1>1, <1>3, <1>4, <2>1 DEF CleanInv
  <2>5. \A p \in Requests : call'[p].phase = "done" /\ call'[p].effect =>
             [path |-> call'[p].path, key |-> call'[p].key, result |-> "succeeded"] \in events'
    BY <1>1, <1>3, <1>4, <1>16, <1>17, <2>1, <2>2, <2>3 DEF CleanInv, Kept
  <2> QED
    BY <1>5, <2>1, <2>4, <2>5 DEF CleanInv
<1>11. KeyInv'
  BY <1>1, <1>2, <1>3, <1>4 DEF KeyInv, SameMutation, Passed, Over, Others, Kept
<1>12. SucceededIsAudited'
  BY <1>1, <1>3, <1>4, <1>5 DEF SucceededIsAudited, Kept
<1>13. RefusedWasDone'
  <2> SUFFICES ASSUME NEW r \in Requests, call'[r].answer = "duplicate"
               PROVE  \E p \in trail' : SameMutation(p, r)' /\ call'[p].effect
    BY DEF RefusedWasDone
  <2>1. PICK p \in trail : SameMutation(p, r) /\ call[p].effect
    BY <1>1, <1>3, <1>4 DEF RefusedWasDone
  <2>2. SameMutation(p, r)'
    BY <1>1, <1>3, <1>4, <2>1 DEF SameMutation, TypeOK, Others
  <2>3. call'[p].effect
    BY <1>1, <1>3, <1>4, <2>1 DEF TypeOK, Kept
  <2> QED
    BY <1>5, <2>1, <2>2, <2>3
<1>14. ApprovedByRank'
  <2> SUFFICES ASSUME NEW a \in Items, item[a] = "approved"
               PROVE  a \notin Manual /\ \E p \in Requests : ApprovedBy(p, a)'
    BY <1>5 DEF ApprovedByRank
  <2>1. PICK p \in Requests : ApprovedBy(p, a)
    BY <1>1 DEF ApprovedByRank
  <2>2. ApprovedBy(p, a)'
    BY <1>3, <1>4, <2>1 DEF ApprovedBy, Others, Kept
  <2> QED
    BY <1>1, <2>2 DEF ApprovedByRank
<1> QED
  BY <1>6, <1>7, <1>8, <1>9, <1>10, <1>11, <1>12, <1>13, <1>14 DEF Inv

(* Proposals decide nothing.                                                *)
LEMMA ProposalKeeps ==
    ASSUME Inv, TypeOK', faults' = faults \/ Fault, UNCHANGED <<call, events, unavailable, trail>>,
           \A a \in Items : item'[a] = item[a] \/ item'[a] = "pending"
    PROVE  Inv'
<1>1. TypeOK /\ CallInv /\ RankInv /\ EventInv /\ CleanInv /\ KeyInv
      /\ SucceededIsAudited /\ RefusedWasDone /\ ApprovedByRank
  BY DEF Inv
<1>2. faults' = 0 => faults = 0
  BY <1>1 DEF TypeOK, GateTypeOK, Fault
<1>7. CallInv'
  BY <1>1 DEF CallInv, Passed
<1>3. \A q \in Requests : Target(q) \in Items /\ Target(q)' = Target(q)
  BY <1>1 DEF TypeOK, GateTypeOK, Call, Target
<1>8. RankInv'
  BY <1>1, <1>3 DEF RankInv, Passed, Permitted, Verb
<1>9. EventInv'
  BY <1>1 DEF EventInv
<1>10. CleanInv'
  BY <1>1, <1>2 DEF CleanInv
<1>11. KeyInv'
  BY <1>1, <1>2 DEF KeyInv, SameMutation, Passed, Over
<1>12. SucceededIsAudited'
  BY <1>1 DEF SucceededIsAudited
<1>13. RefusedWasDone'
  BY <1>1 DEF RefusedWasDone, SameMutation
<1>14. ApprovedByRank'
  BY <1>1 DEF ApprovedByRank, ApprovedBy
<1> QED
  BY <1>7, <1>8, <1>9, <1>10, <1>11, <1>12, <1>13, <1>14 DEF Inv

-----------------------------------------------------------------------------
Proposal == [at : {"start", "looked", "done"}, about : SUBSET Items,
             saw : Status, beside : SUBSET Proposers]

(* A look goes on as a record of its own, and leaves the other proposers    *)
(* alone.                                                                   *)
LEMMA Going ==
    ASSUME TypeOK, NEW p \in Proposers, NEW a \in Items, NEW at \in {"looked", "done"}, Goes(p, a, at)
    PROVE  /\ proposal' \in [Proposers -> Proposal]
           /\ proposal'[p].at = at /\ proposal'[p].about = {a} /\ proposal'[p].saw = item[a]
           /\ proposal'[p].beside = Proposing
           /\ \A o \in Proposers \ {p} : proposal'[o] = proposal[o]
<1> DEFINE r == [at |-> at, about |-> {a}, saw |-> item[a], beside |-> Proposing]
<1>1. proposal \in [Proposers -> Proposal] /\ item[a] \in Status /\ Proposing \subseteq Proposers
  BY DEF TypeOK, Proposal, Proposing
<1>2. r \in Proposal /\ r.at = at /\ r.about = {a} /\ r.saw = item[a] /\ r.beside = Proposing
  BY <1>1 DEF Proposal
<1>3. proposal' = [proposal EXCEPT ![p] = r]
  BY DEF Goes
<1> HIDE DEF r
<1> QED
  BY <1>1, <1>2, <1>3

(* What is proposed is there from then on, and the proposer is through.     *)
LEMMA Proposed ==
    ASSUME TypeOK, NEW p \in Proposers, Propose(p)
    PROVE  /\ proposal' \in [Proposers -> Proposal] /\ proposal[p].at = "looked" /\ proposal'[p].at = "done"
           /\ proposal'[p].beside = proposal[p].beside
           /\ \A o \in Proposers \ {p} : proposal'[o] = proposal[o]
           /\ item' \in [Items -> Status]
           /\ \A a \in Items : item'[a] = item[a] \/ item'[a] = "pending"
<1> DEFINE r == [proposal[p] EXCEPT !.at = "done"]
<1>1. proposal \in [Proposers -> Proposal] /\ item \in [Items -> Status]
  BY DEF TypeOK, Proposal
<1>2. r \in Proposal /\ r.at = "done" /\ r.beside = proposal[p].beside
  BY <1>1 DEF Proposal
<1>3. proposal' = [proposal EXCEPT ![p] = r] /\ proposal[p].at = "looked"
  BY Zenon DEF Propose
<1> HIDE DEF r
<1>4. /\ proposal' \in [Proposers -> Proposal] /\ proposal'[p] = r
      /\ \A o \in Proposers \ {p} : proposal'[o] = proposal[o]
  BY <1>1, <1>2, <1>3
<1>5. /\ item' \in [Items -> Status]
      /\ \A a \in Items : item'[a] = item[a] \/ item'[a] = "pending"
  <2>1. CASE item' = [a \in Items |-> IF a \in proposal[p].about THEN "pending" ELSE item[a]]
    BY <1>1, <2>1 DEF Status
  <2>2. CASE item' = item
    BY <1>1, <2>2
  <2> QED
    BY <2>1, <2>2 DEF Propose
<1> QED
  BY <1>2, <1>3, <1>4, <1>5

LEMMA LookKeeps ==
    ASSUME Inv, ProposalInv, NEW p \in Proposers, NEW a \in Items, Look(p, a)
    PROVE  Inv' /\ ProposalInv'
<1>1. TypeOK
  BY DEF Inv
<1>2. /\ proposal[p].at = "start" /\ item' = item
      /\ UNCHANGED <<call, events, unavailable, trail>> /\ (faults' = faults \/ Fault)
  BY DEF Look, NoFault
<1>3. PICK at \in {"looked", "done"} : Goes(p, a, at) /\ (at = "looked" /\ ~Fault => ~Unresolved(item[a]))
  BY DEF Look, NoFault
<1>4. /\ proposal' \in [Proposers -> Proposal]
      /\ proposal'[p].at = at /\ proposal'[p].about = {a} /\ proposal'[p].saw = item[a]
      /\ proposal'[p].beside = Proposing
      /\ \A o \in Proposers \ {p} : proposal'[o] = proposal[o]
  BY <1>1, <1>3, Going
<1>5. faults \in Nat /\ faults' \in 0..MaxFaults
  BY <1>1, <1>2 DEF TypeOK, GateTypeOK, Fault
<1>6. TypeOK'
  BY <1>1, <1>2, <1>4, <1>5 DEF TypeOK, GateTypeOK, Proposal
<1>7. Inv'
  BY <1>2, <1>6, ProposalKeeps
<1>8. ProposalInv'
  <2> SUFFICES ASSUME faults' = 0
               PROVE  /\ \A q, o \in Proposing' : q # o => Overlap(q, o)'
                      /\ \A q \in Proposing' : /\ proposal'[q].saw \notin {"pending", "deferred"}
                                             /\ \/ proposal'[q].saw # "absent"
                                                \/ \A b \in proposal'[q].about : item[b] = "absent"
                                                \/ \E o \in Proposers \ {q} : Overlap(q, o)'
    BY <1>2 DEF ProposalInv
  <2>1. faults = 0 /\ ~Fault
    BY <1>2, <1>5 DEF Fault
  <2>2. Proposing \subseteq Proposing' /\ Proposing' \subseteq Proposing \cup {p} /\ p \notin Proposing
        /\ Proposing \subseteq Proposers
    BY <1>2, <1>4 DEF Proposing
  <2>3. \A o \in Proposing : Overlap(p, o)' /\ Overlap(o, p)'
    BY <1>4 DEF Overlap
  <2>4. \A q, o \in Proposing' : q # o => Overlap(q, o)'
    <3> SUFFICES ASSUME NEW q \in Proposing', NEW o \in Proposing', q # o PROVE Overlap(q, o)'
      OBVIOUS
    <3>1. CASE q = p \/ o = p
      BY <2>2, <2>3, <3>1
    <3>2. CASE q # p /\ o # p
      BY <1>4, <2>1, <2>2, <3>2 DEF ProposalInv, Overlap
    <3> QED
      BY <3>1, <3>2
  <2>5. \A q \in Proposing' : /\ proposal'[q].saw \notin {"pending", "deferred"}
                            /\ \/ proposal'[q].saw # "absent"
                               \/ \A b \in proposal'[q].about : item[b] = "absent"
                               \/ \E o \in Proposers \ {q} : Overlap(q, o)'
    <3> SUFFICES ASSUME NEW q \in Proposing'
                 PROVE  /\ proposal'[q].saw \notin {"pending", "deferred"}
                        /\ \/ proposal'[q].saw # "absent"
                           \/ \A b \in proposal'[q].about : item[b] = "absent"
                           \/ \E o \in Proposers \ {q} : Overlap(q, o)'
      OBVIOUS
    <3>1. CASE q = p
      BY <1>3, <1>4, <2>1, <3>1 DEF Unresolved, Proposing
    <3>2. CASE q # p
      <4>1. q \in Proposing /\ proposal'[q] = proposal[q]
        BY <1>4, <2>2, <3>2
      <4>2. \/ proposal[q].saw # "absent" \/ \A b \in proposal[q].about : item[b] = "absent"
            \/ \E o \in Proposers \ {q} : Overlap(q, o)
        BY <2>1, <4>1 DEF ProposalInv
      <4>3. \A o \in Proposers \ {q} : Overlap(q, o) => Overlap(q, o)'
        BY <1>4, <2>3, <4>1 DEF Overlap
      <4> QED
        BY <2>1, <4>1, <4>2, <4>3 DEF ProposalInv
    <3> QED
      BY <3>1, <3>2
  <2> QED
    BY <2>4, <2>5
<1> QED
  BY <1>7, <1>8

LEMMA ProposeKeeps ==
    ASSUME Inv, ProposalInv, NEW p \in Proposers, Propose(p)
    PROVE  Inv' /\ ProposalInv'
<1>1. TypeOK
  BY DEF Inv
<1>2. UNCHANGED <<call, events, unavailable, trail>> /\ (faults' = faults \/ Fault)
  BY DEF Propose, NoFault
<1>3. /\ proposal' \in [Proposers -> Proposal] /\ proposal[p].at = "looked" /\ proposal'[p].at = "done"
      /\ proposal'[p].beside = proposal[p].beside
      /\ \A o \in Proposers \ {p} : proposal'[o] = proposal[o]
      /\ item' \in [Items -> Status]
      /\ \A a \in Items : item'[a] = item[a] \/ item'[a] = "pending"
  BY <1>1, Proposed
<1>4. faults \in Nat /\ faults' \in 0..MaxFaults
  BY <1>1, <1>2 DEF TypeOK, GateTypeOK, Fault
<1>5. TypeOK'
  BY <1>1, <1>2, <1>3, <1>4 DEF TypeOK, GateTypeOK, Proposal
<1>6. Inv'
  BY <1>2, <1>3, <1>5, ProposalKeeps
<1>7. ProposalInv'
  <2> SUFFICES ASSUME faults' = 0 PROVE ProposalInv'
    BY DEF ProposalInv
  <2>1. faults = 0
    BY <1>2, <1>4 DEF Fault
  <2>2. Proposing' = Proposing \ {p} /\ p \in Proposing /\ Proposing \subseteq Proposers
    BY <1>3 DEF Proposing
  <2>3. \A q \in Proposers, o \in Proposers : Overlap(q, o)' = Overlap(q, o)
    BY <1>3 DEF Overlap
  <2>4. \A q \in Proposing' : Overlap(q, p)' /\ p \in Proposers \ {q} /\ proposal'[q] = proposal[q]
    BY <1>3, <2>1, <2>2, <2>3 DEF ProposalInv
  <2> QED
    BY <2>1, <2>2, <2>3, <2>4 DEF ProposalInv
<1> QED
  BY <1>6, <1>7

LEMMA DecidingKeeps ==
    ASSUME Inv, ProposalInv, NEW q \in Requests, Deciding(q)
    PROVE  Inv' /\ ProposalInv'
<1>1. TypeOK /\ RankInv
  BY DEF Inv
<1>2. [path |-> call[q].path, key |-> NoKey, result |-> "rejected"] \in Event
  BY <1>1 DEF TypeOK, GateTypeOK, Call, Event
<1>3. ASSUME Gate(q), UNCHANGED approvalVars PROVE Inv'
  <2>1. CASE Limit(q)
    BY <1>1, <1>3, <2>1, RefusalKeeps DEF Limit, TypeOK, GateTypeOK
  <2>2. CASE Forbid(q)
    <3> DEFINE e == [path |-> call[q].path, key |-> NoKey, result |-> "rejected"]
    <3>1. /\ events \subseteq events' /\ events' \subseteq Event
          /\ \A d \in events' \ events : d.result = "rejected"
      BY <1>1, <1>2, <2>2 DEF Forbid, WriteEvent, TypeOK, GateTypeOK
    <3>2. /\ call[q].phase = "unsent" /\ Refuse(q, "forbidden") /\ unavailable' = unavailable
          /\ (faults' = faults \/ Fault)
      BY <2>2 DEF Forbid, WriteEvent, NoFault
    <3> QED
      BY <1>3, <3>1, <3>2, RefusalKeeps
  <2>3. CASE Admit(q)
    <3>1. call[q].phase = "unsent" /\ call[q].rank >= Required /\ UNCHANGED <<events, unavailable>>
      BY <2>3 DEF Admit
    <3>2. CASE Refuse(q, "duplicate") /\ Seen(q) /\ call[q].key # NoKey /\ NoFault
      BY <1>1, <1>3, <3>1, <3>2, RefusalKeeps DEF NoFault, TypeOK, GateTypeOK
    <3>3. CASE Pass(q) /\ NoFault /\ (call[q].key = NoKey \/ unavailable \/ ~Seen(q))
      BY <1>3, <3>1, <3>3, PassKeeps DEF NoFault
    <3>4. CASE Pass(q) /\ Fault
      BY <1>3, <3>1, <3>4, PassKeeps
    <3> QED
      BY <2>3, <3>2, <3>3, <3>4 DEF Admit
  <2>4. CASE Respond(q)
    BY <1>3, <2>4, RespondKeeps
  <2> QED
    BY <1>3, <2>1, <2>2, <2>3, <2>4 DEF Gate
<1>4. ASSUME Read(q) PROVE Inv'
  <2>1. call[q].phase = "handling" /\ UNCHANGED <<events, approvalVars>> /\ unavailable' \in BOOLEAN
    BY <1>4 DEF Read
  <2>2. CASE Handled(q, "failed")
    BY <1>4, <2>1, <2>2, FailKeeps DEF Read, NoFault
  <2>3. CASE ~Handled(q, "failed")
    BY <1>4, <2>1, <2>3, ReadKeeps DEF Read, NoFault
  <2> QED
    BY <2>2, <2>3
<1>5. ASSUME Write(q) PROVE Inv'
  <2>1. CASE Fault /\ Handled(q, "failed") /\ UNCHANGED item
    BY <1>1, <1>5, <2>1, FailKeeps DEF Write, approvalVars, TypeOK, GateTypeOK
  <2>2. CASE NoFault /\ item' = [item EXCEPT ![Target(q)] = Outcome(Verb(q))]
             /\ call' = [call EXCEPT ![q].phase = "written", ![q].effect = TRUE]
    BY <1>5, <2>2, WriteKeeps DEF Write, NoFault
  <2> QED
    BY <1>5, <2>1, <2>2, Zenon DEF Write
<1>6. ASSUME Audit(q) PROVE Inv'
  <2>1. CASE Fault /\ UNCHANGED trail /\ Handled(q, "failed")
    BY <1>1, <1>6, <2>1, FailKeeps DEF Audit, approvalVars, TypeOK, GateTypeOK
  <2>2. CASE NoFault /\ trail' = trail \cup {q} /\ Handled(q, "succeeded")
    BY <1>6, <2>2, AuditKeeps DEF Audit, NoFault
  <2> QED
    BY <1>6, <2>1, <2>2 DEF Audit
<1>7. ProposalInv'
  <2>1. /\ proposal' = proposal /\ (faults' = faults \/ Fault)
        /\ \/ item' = item
           \/ call[q].phase = "read" /\ item' = [item EXCEPT ![Target(q)] = Outcome(Verb(q))]
    BY DEF Deciding, Gate, Limit, Forbid, Admit, Respond, Read, Write, Audit, WriteEvent, approvalVars, NoFault
  <2>2. faults' = 0 => faults = 0
    BY <1>1, <2>1 DEF TypeOK, GateTypeOK, Fault
  <2>3. \A a \in Items : item[a] = "absent" => item'[a] = "absent"
    BY <1>1, <2>1 DEF RankInv, TypeOK
  <2>4. \A p \in Proposers : proposal[p].about \subseteq Items
    BY <1>1 DEF TypeOK
  <2>5. Proposing' = Proposing /\ Proposing \subseteq Proposers
    BY <2>1 DEF Proposing
  <2>6. \A p, o \in Proposers : Overlap(p, o)' = Overlap(p, o)
    BY <2>1 DEF Overlap
  <2> QED
    BY <2>1, <2>2, <2>3, <2>4, <2>5, <2>6 DEF ProposalInv
<1> QED
  BY <1>3, <1>4, <1>5, <1>6, <1>7 DEF Deciding

LEMMA Stutters == ASSUME Inv, ProposalInv, UNCHANGED vars PROVE Inv' /\ ProposalInv'
<1>1. /\ call' = call /\ events' = events /\ unavailable' = unavailable /\ faults' = faults
      /\ item' = item /\ trail' = trail /\ proposal' = proposal
  BY DEF vars, gateVars, approvalVars
<1>2. TypeOK' /\ CallInv' /\ EventInv' /\ CleanInv'
  BY <1>1 DEF Inv, TypeOK, GateTypeOK, CallInv, Passed, EventInv, CleanInv
<1>3. RankInv' /\ KeyInv'
  BY <1>1 DEF Inv, RankInv, KeyInv, Passed, Permitted, Target, Verb, SameMutation, Over
<1>4. SucceededIsAudited' /\ RefusedWasDone' /\ ApprovedByRank'
  BY <1>1 DEF Inv, SucceededIsAudited, RefusedWasDone, ApprovedByRank, SameMutation, ApprovedBy
<1>5. ProposalInv'
  BY <1>1 DEF ProposalInv, Proposing, Overlap
<1> QED
  BY <1>2, <1>3, <1>4, <1>5 DEF Inv

(* Every state of the approval center satisfies the inductive invariant.    *)
THEOREM Holds == Spec => [](Inv /\ ProposalInv)
<1>1. Init => Inv /\ ProposalInv
  <2>1. Init => Proposing = {}
    BY DEF Init, ApprovalInit, Proposing
  <2> QED
    BY <2>1, Starts DEF ProposalInv
<1>2. Inv /\ ProposalInv /\ [Next]_vars => Inv' /\ ProposalInv'
  <2> SUFFICES ASSUME Inv, ProposalInv, [Next]_vars PROVE Inv' /\ ProposalInv'
    OBVIOUS
  <2>1. ASSUME NEW q \in Requests, Deciding(q) PROVE Inv' /\ ProposalInv'
    BY <2>1, DecidingKeeps
  <2>2. ASSUME NEW p \in Proposers, Propose(p) PROVE Inv' /\ ProposalInv'
    BY <2>2, ProposeKeeps
  <2>3. ASSUME NEW p \in Proposers, NEW a \in Items, Look(p, a) PROVE Inv' /\ ProposalInv'
    BY <2>3, LookKeeps
  <2> QED
    BY <2>1, <2>2, <2>3, Stutters DEF Next
<1> QED
  BY <1>1, <1>2, PTL DEF Spec

(* What the check of the idempotency key gives, in spite of the requests    *)
(* that are in a handler together: one change of the database per key, a    *)
(* refusal only after a change, an approval only by somebody entitled.      *)
THEOREM KeysMeanOnce == Spec => []KeyMeansOnce
<1>1. Inv => KeyMeansOnce
  <2> SUFFICES ASSUME Inv PROVE SerialOnce
    BY DEF KeyMeansOnce, Inv
  <2> SUFFICES ASSUME NEW p \in Requests, NEW q \in Requests, SameMutation(p, q),
                      call[p].effect, call[q].effect, faults = 0
               PROVE  p \in call[q].beside \/ q \in call[p].beside
    BY DEF SerialOnce, Inv, TypeOK, GateTypeOK
  <2>1. Passed(p) /\ Passed(q) /\ ~Over(p) /\ ~Over(q)
    BY DEF Inv, CallInv, Over
  <2> QED
    BY <2>1 DEF Inv, KeyInv
<1> QED
  BY <1>1, Holds, PTL

(* A decision that was answered with success is in the audit trail.         *)
THEOREM SuccessIsAudited == Spec => []SucceededIsAudited
<1>1. Inv => SucceededIsAudited
  BY DEF Inv
<1> QED
  BY <1>1, Holds, PTL

(* A proposal never takes back what it did not know of, unless two overlap  *)
(* or a database call failed.                                               *)
THEOREM ProposalsReopenResolved == Spec => ReopensOnlyResolved
<1> DEFINE Reopens == \A p \in Proposers :
         proposal[p].at = "looked" /\ proposal'[p].at = "done" /\ item' # item =>
            \/ \A a \in proposal[p].about : item[a] = "absent"
            \/ proposal[p].saw \in {"approved", "rejected", "reviewed"}
            \/ \E o \in Proposers \ {p} : o \in proposal[p].beside \/ p \in proposal[o].beside
            \/ faults > 0
<1>1. Inv /\ ProposalInv => Reopens
  <2> SUFFICES ASSUME Inv, ProposalInv, NEW p \in Proposers, proposal[p].at = "looked", faults = 0
               PROVE  \/ \A a \in proposal[p].about : item[a] = "absent"
                      \/ proposal[p].saw \in {"approved", "rejected", "reviewed"}
                      \/ \E o \in Proposers \ {p} : o \in proposal[p].beside \/ p \in proposal[o].beside
    BY DEF Inv, TypeOK, GateTypeOK
  <2>1. proposal[p].saw \in Status /\ p \in Proposing
    BY DEF Inv, TypeOK, Proposing
  <2> QED
    BY <2>1 DEF ProposalInv, Overlap, Status
<1>2. Inv /\ ProposalInv /\ [Next]_vars => [Reopens]_vars
  BY <1>1
<1> QED
  BY <1>2, Holds, PTL DEF Spec, ReopensOnlyResolved

-----------------------------------------------------------------------------
USE CleaningAssumption

-----------------------------------------------------------------------------
(* What a request of the operator has in hand at each place of its way.     *)
Scopes == {SafeLabels(asked) : asked \in Asked}
Counts == Nat \cup {NoCount}
Elsewhere == [at : {"idle", "over"}, quiet : {FALSE}]
Counted == [at : {"counted"}, quiet : BOOLEAN, labels : Scopes, total : Nat]
Previewed == [at : {"previewed"}, quiet : BOOLEAN, labels : Scopes, would : Nat, remaining : Nat]
Pruned == [at : {"pruned"}, quiet : {FALSE}, labels : Scopes, would : {0}, remaining : {0}]
BeingPruned == [at : {"pruning"}, quiet : BOOLEAN, labels : Scopes, cutoff : Int, deleted : Nat,
                would : Nat, remaining : Nat, promised : Nat]
Confirming == [at : {"labelling", "confirmed"}, quiet : BOOLEAN, confirmed : Counts]
Totalled == [at : {"totalled"}, quiet : BOOLEAN, confirmed : Counts, before : Nat]
Labelled == [at : {"labelled"}, quiet : BOOLEAN, confirmed : Counts, before : Nat, labelled : Nat]
Answered == [at : {"answered"}, quiet : BOOLEAN, confirmed : Counts, labelled : Nat, left : Nat, unchanged : BOOLEAN]
CleaningRecords == Elsewhere \cup Counted \cup Previewed \cup Pruned \cup BeingPruned
                   \cup Confirming \cup Totalled \cup Labelled \cup Answered

\* What it has in hand tells of the graph, or did so until something happened to it.
PruneFits(r) ==
    /\ r.at = "counted" /\ r.quiet => r.total = Total
    /\ r.at = "previewed" /\ r.quiet =>
          LET size == Cardinality(Prunable(r.labels, now - Retention))
          IN  r.would = size /\ r.remaining = Total - size
    /\ r.at = "pruning" =>
          LET size == Cardinality(Prunable(r.labels, r.cutoff))
          IN  /\ r.cutoff <= now - Retention /\ (r.deleted = 0 \/ r.deleted < r.promised)
              /\ r.quiet => /\ r.would = r.promised /\ r.deleted + size = r.would
                            /\ Total - size = r.remaining
LabelFits(r) ==
    /\ r.at \in {"confirmed", "totalled"} => r.confirmed = NoCount \/ snapshots.bare \in {0, r.confirmed}
    /\ r.at \in {"totalled", "labelled"} /\ r.quiet => r.before = snapshots.all
    /\ r.at = "labelled" => snapshots.bare = 0
    /\ r.at \in {"labelled", "answered"} => r.confirmed = NoCount \/ r.labelled \in {0, r.confirmed}
    /\ r.at = "answered" => r.left = 0 /\ (r.quiet => r.unchanged)

GraphIs ==
    /\ born \in [Nodes -> Nat \cup {Gone}] /\ now \in Nat
    /\ snapshots \in [all : Nat, bare : Nat]
CleaningInv ==
    /\ GraphIs /\ cleaning \in [Cleaners -> CleaningRecords]
    /\ \A c \in Cleaners : PruneFits(cleaning[c]) /\ LabelFits(cleaning[c])

-----------------------------------------------------------------------------
LEMMA LargerOf == ASSUME NEW a \in Int, NEW b \in Int PROVE Max({a, b}) = IF a >= b THEN a ELSE b
<1>1. \E x \in {a, b} : \A y \in {a, b} : x >= y
  OBVIOUS
<1>2. Max({a, b}) \in {a, b} /\ \A y \in {a, b} : Max({a, b}) >= y
  BY <1>1 DEF Max
<1> QED
  BY <1>2

LEMMA SmallerOf == ASSUME NEW a \in Int, NEW b \in Int PROVE Min({a, b}) = IF a <= b THEN a ELSE b
<1>1. \E x \in {a, b} : \A y \in {a, b} : x <= y
  OBVIOUS
<1>2. Min({a, b}) \in {a, b} /\ \A y \in {a, b} : Min({a, b}) <= y
  BY <1>1 DEF Min
<1> QED
  BY <1>2

LEMMA PartOfAll ==
    ASSUME NEW S, IsFiniteSet(S), NEW T \in SUBSET S
    PROVE  /\ IsFiniteSet(T) /\ IsFiniteSet(S \ T) /\ Cardinality(S) \in Nat /\ Cardinality(T) \in Nat
           /\ Cardinality(S \ T) = Cardinality(S) - Cardinality(T) /\ Cardinality(T) <= Cardinality(S)
<1>1. S \cap T = T
  OBVIOUS
<1> QED
  BY <1>1, FS_Subset, FS_Difference, FS_CardinalityType

(* What is in the graph can be counted.                                     *)
LEMMA GraphIsCounted ==
    ASSUME GraphIs, NEW labels, NEW cutoff
    PROVE  /\ IsFiniteSet(InGraph) /\ Cardinality(InGraph) \in Nat /\ Total \in Nat
           /\ Prunable(labels, cutoff) \in SUBSET InGraph /\ IsFiniteSet(Prunable(labels, cutoff))
           /\ Cardinality(Prunable(labels, cutoff)) \in Nat /\ Cardinality(Prunable(labels, cutoff)) <= Cardinality(InGraph)
           /\ snapshots.all \in Nat /\ snapshots.bare \in Nat /\ now - Retention \in Int
<1>1. IsFiniteSet(InGraph)
  BY FS_Subset DEF InGraph
<1>2. snapshots.all \in Nat /\ snapshots.bare \in Nat /\ now - Retention \in Int
  BY DEF GraphIs
<1>3. Prunable(labels, cutoff) \in SUBSET InGraph
  BY DEF Prunable
<1>4. Cardinality(InGraph) \in Nat /\ Total \in Nat
  BY <1>1, <1>2, FS_CardinalityType DEF Total
<1>5. /\ IsFiniteSet(Prunable(labels, cutoff)) /\ Cardinality(Prunable(labels, cutoff)) \in Nat
      /\ Cardinality(Prunable(labels, cutoff)) <= Cardinality(InGraph)
  <2> DEFINE P == Prunable(labels, cutoff)
  <2>1. P \in SUBSET InGraph
    BY <1>3
  <2> HIDE DEF P
  <2>2. IsFiniteSet(P) /\ Cardinality(P) \in Nat /\ Cardinality(P) <= Cardinality(InGraph)
    BY <1>1, <2>1, PartOfAll
  <2> QED
    BY <2>2 DEF P
<1> QED
  BY <1>1, <1>2, <1>3, <1>4, <1>5

(* Which record a request has is told by its place.                         *)
LEMMA ByPlace ==
    ASSUME NEW r \in CleaningRecords
    PROVE  /\ r.at \in {"idle", "over"} => r \in Elsewhere
           /\ r.at = "counted" => r \in Counted
           /\ r.at = "previewed" => r \in Previewed
           /\ r.at = "pruned" => r \in Pruned
           /\ r.at = "pruning" => r \in BeingPruned
           /\ r.at \in {"labelling", "confirmed"} => r \in Confirming
           /\ r.at = "totalled" => r \in Totalled
           /\ r.at = "labelled" => r \in Labelled
           /\ r.at = "answered" => r \in Answered
BY DEF CleaningRecords, Elsewhere, Counted, Previewed, Pruned, BeingPruned, Confirming, Totalled, Labelled, Answered

(* A request that is told that something happened has all it had in hand.   *)
LEMMA NoticedRecord ==
    ASSUME NEW r \in CleaningRecords
    PROVE  LET s == [r EXCEPT !.quiet = FALSE]
           IN  s \in CleaningRecords /\ s.at = r.at /\ s.quiet = FALSE
<1> DEFINE s == [r EXCEPT !.quiet = FALSE]
<1> HIDE DEF Scopes, Counts
<1>1. CASE r \in Elsewhere
  BY <1>1 DEF Elsewhere, CleaningRecords
<1>2. CASE r \in Counted
  BY <1>2 DEF Counted, CleaningRecords
<1>3. CASE r \in Previewed
  BY <1>3 DEF Previewed, CleaningRecords
<1>4. CASE r \in Pruned
  BY <1>4 DEF Pruned, CleaningRecords
<1>5. CASE r \in BeingPruned
  BY <1>5 DEF BeingPruned, CleaningRecords
<1>6. CASE r \in Confirming
  BY <1>6 DEF Confirming, CleaningRecords
<1>7. CASE r \in Totalled
  BY <1>7 DEF Totalled, CleaningRecords
<1>8. CASE r \in Labelled
  BY <1>8 DEF Labelled, CleaningRecords
<1>9. CASE r \in Answered
  BY <1>9 DEF Answered, CleaningRecords
<1> QED
  BY <1>1, <1>2, <1>3, <1>4, <1>5, <1>6, <1>7, <1>8, <1>9 DEF CleaningRecords

(* What was once taken stays true of what the others do.                    *)
LEMMA NoticedFits ==
    ASSUME NEW r \in CleaningRecords, PruneFits(r), LabelFits(r),
           now \in Nat, now' \in Nat, now <= now', snapshots'.bare \in {0, snapshots.bare}
    PROVE  LET s == [r EXCEPT !.quiet = FALSE]
           IN  PruneFits(s)' /\ LabelFits(s)'
<1> DEFINE s == [r EXCEPT !.quiet = FALSE]
<1>1. s \in CleaningRecords /\ s.at = r.at /\ s.quiet = FALSE
  BY NoticedRecord
<1>2. CASE r.at = "pruning"
  <2>1. r \in BeingPruned
    BY <1>2, ByPlace
  <2>2. s.cutoff = r.cutoff /\ s.deleted = r.deleted /\ s.promised = r.promised /\ r.cutoff \in Int
    BY <2>1 DEF BeingPruned
  <2>3. r.cutoff <= now - Retention /\ (r.deleted = 0 \/ r.deleted < r.promised)
    BY <1>2 DEF PruneFits
  <2>4. s.cutoff <= now' - Retention /\ (s.deleted = 0 \/ s.deleted < s.promised)
    BY <2>2, <2>3
  <2> HIDE DEF s
  <2>5. PruneFits(s)'
    BY <1>1, <1>2, <2>4 DEF PruneFits
  <2>6. LabelFits(s)'
    BY <1>1, <1>2 DEF LabelFits
  <2> HIDE DEF LabelFits, PruneFits
  <2> QED
    BY <2>5, <2>6 DEF s
<1>3. CASE r.at \in {"confirmed", "totalled"}
  <2>1. s.confirmed = r.confirmed
    BY <1>3, ByPlace DEF Confirming, Totalled
  <2>2. r.confirmed = NoCount \/ snapshots.bare \in {0, r.confirmed}
    BY <1>3 DEF LabelFits
  <2> HIDE DEF s
  <2> QED
    BY <1>1, <1>3, <2>1, <2>2 DEF PruneFits, LabelFits
<1>4. CASE r.at \in {"labelled", "answered"}
  <2>1. s.confirmed = r.confirmed /\ s.labelled = r.labelled
    BY <1>4, ByPlace DEF Labelled, Answered
  <2>2. r.at = "answered" => s.left = r.left
    BY <1>4, ByPlace DEF Answered
  <2>3. /\ r.confirmed = NoCount \/ r.labelled \in {0, r.confirmed}
        /\ r.at = "labelled" => snapshots.bare = 0
        /\ r.at = "answered" => r.left = 0
    BY <1>4 DEF LabelFits
  <2> HIDE DEF s
  <2> QED
    BY <1>1, <1>4, <2>1, <2>2, <2>3 DEF PruneFits, LabelFits
<1>5. CASE r.at \notin {"pruning", "confirmed", "totalled", "labelled", "answered"}
  <2> HIDE DEF s
  <2> QED
    BY <1>1, <1>5 DEF PruneFits, LabelFits
<1> QED
  BY <1>2, <1>3, <1>4, <1>5

LEMMA SameFits ==
    ASSUME NEW r \in CleaningRecords, PruneFits(r), LabelFits(r),
           UNCHANGED <<born, now>>, snapshots'.all = snapshots.all, snapshots'.bare \in {0, snapshots.bare}
    PROVE  PruneFits(r)' /\ LabelFits(r)'
<1>1. Total' = Total /\ \A labels, cutoff : Prunable(labels, cutoff)' = Prunable(labels, cutoff)
  BY DEF Total, InGraph, Prunable, OldEnough
<1>2. PruneFits(r)'
  BY <1>1 DEF PruneFits
<1>3. LabelFits(r)'
  BY DEF LabelFits
<1> QED
  BY <1>2, <1>3

-----------------------------------------------------------------------------
(* Requests fit when each of them does.                                     *)
LEMMA RequestsFit ==
    ASSUME GraphIs', cleaning' = [k \in Cleaners |-> cleaning'[k]],
           \A k \in Cleaners : \E s \in CleaningRecords : cleaning'[k] = s /\ PruneFits(s)' /\ LabelFits(s)'
    PROVE  CleaningInv'
<1>1. (CleaningRecords = CleaningRecords')
  BY DEF CleaningRecords, Elsewhere, Counted, Previewed, Pruned, BeingPruned, Confirming, Totalled, Labelled, Answered,
         Counts, Scopes, SafeLabels
<1> HIDE DEF CleaningRecords
<1>2. cleaning' \in [Cleaners -> CleaningRecords]
  <2>1. \A k \in Cleaners : cleaning'[k] \in CleaningRecords
    OBVIOUS
  <2> QED
    BY <2>1
<1>3. ASSUME NEW k \in Cleaners PROVE (PruneFits(cleaning[k]) /\ LabelFits(cleaning[k]))'
  <2>1. PICK s \in CleaningRecords : cleaning'[k] = s /\ PruneFits(s)' /\ LabelFits(s)'
    OBVIOUS
  <2> QED
    BY <2>1 DEF PruneFits, LabelFits
<1> QED
  BY <1>1, <1>2, <1>3 DEF CleaningInv

(* One request acts; the others see that something happened, or nothing did. *)
LEMMA OneActs ==
    ASSUME CleaningInv, GraphIs', now <= now', snapshots'.bare \in {0, snapshots.bare},
           NEW c \in Cleaners, NEW r \in CleaningRecords, PruneFits(r)', LabelFits(r)',
           \/ Acts(c, r)
           \/ Looks(c, r) /\ UNCHANGED <<born, now>> /\ snapshots'.all = snapshots.all
    PROVE  CleaningInv'
<1>1. /\ cleaning \in [Cleaners -> CleaningRecords] /\ now \in Nat /\ now' \in Nat
      /\ \A k \in Cleaners : PruneFits(cleaning[k]) /\ LabelFits(cleaning[k])
  BY DEF CleaningInv, GraphIs
<1>2. cleaning' = [k \in Cleaners |-> cleaning'[k]] /\ cleaning'[c] = r
  BY <1>1 DEF Acts, Looks, Noticed
<1>3. ASSUME NEW k \in Cleaners
      PROVE  \E s \in CleaningRecords : cleaning'[k] = s /\ PruneFits(s)' /\ LabelFits(s)'
  <2>1. CASE k = c
    BY <1>2, <2>1
  <2>2. CASE k # c
    <3>1. PICK q \in CleaningRecords : q = cleaning[k] /\ PruneFits(q) /\ LabelFits(q)
      BY <1>1
    <3>2. CASE Acts(c, r)
      <4>1. cleaning'[k] = [q EXCEPT !.quiet = FALSE]
        BY <2>2, <3>1, <3>2 DEF Acts, Noticed
      <4> QED
        BY <1>1, <3>1, <4>1, NoticedRecord, NoticedFits
    <3>3. CASE Looks(c, r) /\ UNCHANGED <<born, now>> /\ snapshots'.all = snapshots.all
      <4>1. cleaning'[k] = q
        BY <1>1, <2>2, <3>1, <3>3 DEF Looks
      <4> QED
        BY <3>1, <3>3, <4>1, SameFits
    <3> QED
      BY <3>2, <3>3
  <2> QED
    BY <2>1, <2>2
<1> QED
  BY <1>2, <1>3, RequestsFit

LEMMA AllNotice ==
    ASSUME CleaningInv, GraphIs', now <= now', snapshots'.bare = snapshots.bare, cleaning' = Noticed
    PROVE  CleaningInv'
<1>1. /\ cleaning \in [Cleaners -> CleaningRecords] /\ now \in Nat /\ now' \in Nat
      /\ \A k \in Cleaners : PruneFits(cleaning[k]) /\ LabelFits(cleaning[k])
  BY DEF CleaningInv, GraphIs
<1>2. ASSUME NEW k \in Cleaners
      PROVE  \E s \in CleaningRecords : cleaning'[k] = s /\ PruneFits(s)' /\ LabelFits(s)'
  <2>1. PICK q \in CleaningRecords : q = cleaning[k] /\ PruneFits(q) /\ LabelFits(q)
    BY <1>1
  <2>2. cleaning'[k] = [q EXCEPT !.quiet = FALSE]
    BY <2>1 DEF Noticed
  <2> QED
    BY <1>1, <2>1, <2>2, NoticedRecord, NoticedFits
<1>3. cleaning' = [k \in Cleaners |-> cleaning'[k]]
  BY DEF Noticed
<1> QED
  BY <1>2, <1>3, RequestsFit

LEMMA CleaningStarts == CleaningInit => CleaningInv
<1> SUFFICES ASSUME CleaningInit PROVE CleaningInv
  OBVIOUS
<1>1. GraphIs
  BY DEF CleaningInit, GraphIs
<1>2. Unasked \in CleaningRecords /\ Unasked.at = "idle"
  BY DEF CleaningRecords, Elsewhere, Unasked
<1>3. cleaning = [c \in Cleaners |-> Unasked]
  BY DEF CleaningInit
<1> HIDE DEF CleaningRecords
<1>4. PruneFits(Unasked) /\ LabelFits(Unasked)
  BY <1>2 DEF PruneFits, LabelFits
<1> QED
  BY <1>1, <1>2, <1>3, <1>4 DEF CleaningInv

(* The rest of the program.                                                 *)
LEMMA OutsideKeeps ==
    ASSUME CleaningInv, (\E n \in Nodes : WriteNode(n)) \/ IngestSnapshot \/ DayPasses
    PROVE  CleaningInv'
<1>1. born \in [Nodes -> Nat \cup {Gone}] /\ now \in Nat /\ snapshots \in [all : Nat, bare : Nat]
  BY DEF CleaningInv, GraphIs
<1>2. GraphIs' /\ now <= now' /\ snapshots'.bare = snapshots.bare /\ cleaning' = Noticed
  <2>1. CASE \E n \in Nodes : WriteNode(n)
    BY <1>1, <2>1 DEF WriteNode, GraphIs
  <2>2. CASE IngestSnapshot
    BY <1>1, <2>2 DEF IngestSnapshot, GraphIs
  <2>3. CASE DayPasses
    BY <1>1, <2>3 DEF DayPasses, GraphIs
  <2> QED
    BY <2>1, <2>2, <2>3
<1> QED
  BY <1>2, AllNotice

LEMMA ClosedFits == Closed \in CleaningRecords /\ PruneFits(Closed)' /\ LabelFits(Closed)'
<1>1. Closed \in CleaningRecords /\ Closed.at = "over"
  BY DEF CleaningRecords, Elsewhere, Closed
<1> HIDE DEF Closed
<1> QED
  BY <1>1 DEF PruneFits, LabelFits

LEMMA GiveUpKeeps == ASSUME CleaningInv, NEW c \in Cleaners, GiveUp(c) PROVE CleaningInv'
<1>1. Looks(c, Closed) /\ UNCHANGED <<born, snapshots, now>>
  BY DEF GiveUp
<1>2. GraphIs' /\ now <= now' /\ snapshots'.bare = snapshots.bare
  BY <1>1 DEF CleaningInv, GraphIs
<1> QED
  BY <1>1, <1>2, ClosedFits, OneActs

(* Looking at the graph changes nothing in it.                              *)
LEMMA LookingKeeps ==
    ASSUME CleaningInv, UNCHANGED <<born, snapshots, now>>, NEW c \in Cleaners,
           NEW r \in CleaningRecords, PruneFits(r), LabelFits(r), Looks(c, r)
    PROVE  CleaningInv'
<1>1. GraphIs' /\ now <= now' /\ snapshots'.bare = snapshots.bare
  BY DEF CleaningInv, GraphIs
<1>2. PruneFits(r)' /\ LabelFits(r)'
  BY SameFits
<1> QED
  BY <1>1, <1>2, OneActs

LEMMA CountKeeps == ASSUME CleaningInv, NEW c \in Cleaners, NEW asked \in Asked, CountNodes(c, asked) PROVE CleaningInv'
<1> DEFINE r == [at |-> "counted", quiet |-> TRUE, labels |-> SafeLabels(asked), total |-> Total]
<1>1. Looks(c, r) /\ UNCHANGED <<born, snapshots, now>>
  BY DEF CountNodes
<1>2. PICK s : s = r
  OBVIOUS
<1>3. Total \in Nat
  BY GraphIsCounted DEF CleaningInv
<1>4. s \in CleaningRecords /\ PruneFits(s) /\ LabelFits(s)
  BY <1>2, <1>3 DEF CleaningRecords, Counted, Scopes, PruneFits, LabelFits
<1>5. Looks(c, s)
  BY <1>1, <1>2 DEF Looks
<1> QED
  BY <1>1, <1>4, <1>5, LookingKeeps

LEMMA SignKeeps == ASSUME CleaningInv, NEW c \in Cleaners, SignPreview(c) PROVE CleaningInv'
<1>1. PICK p \in CleaningRecords : p = cleaning[c] /\ PruneFits(p) /\ LabelFits(p)
  BY DEF CleaningInv
<1>2. p.at = "counted" /\ p \in Counted
  BY <1>1, ByPlace DEF SignPreview
<1>3. PICK would : would = Cardinality(Prunable(p.labels, now - Retention))
  OBVIOUS
<1>4. PICK s : s = [at |-> "previewed", quiet |-> p.quiet, labels |-> p.labels,
                    would |-> would, remaining |-> Max({p.total - would, 0})]
  OBVIOUS
<1>5. Looks(c, s) /\ UNCHANGED <<born, snapshots, now>>
  BY <1>1, <1>3, <1>4 DEF SignPreview, Looks
<1>6. would \in Nat /\ Total \in Nat /\ would <= Total
  <2>1. GraphIs
    BY DEF CleaningInv
  <2>2. PICK labels, cutoff : labels = p.labels /\ cutoff = now - Retention
    OBVIOUS
  <2>3. would \in Nat /\ Total \in Nat /\ would <= Cardinality(InGraph) /\ Cardinality(InGraph) \in Nat /\ snapshots.all \in Nat
    BY <1>3, <2>1, <2>2, GraphIsCounted
  <2> QED
    BY <2>3 DEF Total
<1>7. p.total \in Nat /\ p.quiet \in BOOLEAN /\ p.labels \in Scopes
  BY <1>2 DEF Counted
<1>8. Max({p.total - would, 0}) = IF p.total >= would THEN p.total - would ELSE 0
  BY <1>6, <1>7, LargerOf
<1>9. s \in Previewed /\ s.labels = p.labels
  BY <1>4, <1>6, <1>7, <1>8 DEF Previewed
<1>10. p.quiet => p.total = Total
  BY <1>1, <1>2 DEF PruneFits
<1>11. s.quiet => s.would = would /\ s.remaining = Total - would
  BY <1>4, <1>6, <1>8, <1>10
<1>12. s \in CleaningRecords /\ s.at = "previewed"
  BY <1>9 DEF CleaningRecords, Previewed
<1>13. PruneFits(s) /\ LabelFits(s)
  BY <1>3, <1>9, <1>11, <1>12 DEF PruneFits, LabelFits
<1> QED
  BY <1>5, <1>12, <1>13, LookingKeeps

LEMMA ApproveKeeps == ASSUME CleaningInv, NEW c \in Cleaners, ApprovePrune(c) PROVE CleaningInv'
<1>1. PICK p \in CleaningRecords : p = cleaning[c] /\ PruneFits(p) /\ LabelFits(p)
  BY DEF CleaningInv
<1>2. p.at \in {"previewed", "pruned"} /\ UNCHANGED <<born, snapshots, now>>
  BY <1>1 DEF ApprovePrune
<1>3. /\ p.would \in Nat /\ p.remaining \in Nat /\ p.labels \in Scopes /\ p.quiet \in BOOLEAN
      /\ p.quiet => p.at = "previewed"
  <2>1. CASE p.at = "previewed"
    <3>1. p \in Previewed
      BY <2>1, ByPlace
    <3> QED
      BY <2>1, <3>1 DEF Previewed
  <2>2. CASE p.at = "pruned"
    <3>1. p \in Pruned
      BY <2>2, ByPlace
    <3>2. p.would = 0 /\ p.remaining = 0 /\ p.labels \in Scopes
      BY <3>1 DEF Pruned
    <3>3. p.quiet = FALSE
      BY <3>1 DEF Pruned
    <3>4. p.quiet \in BOOLEAN /\ ~p.quiet
      BY <3>3, Zenon
    <3>5. p.would \in Nat /\ p.remaining \in Nat
      BY <3>2
    <3> QED
      BY <3>2, <3>4, <3>5
  <2> QED
    BY <1>2, <2>1, <2>2
<1>4. PICK cutoff : cutoff = now - Retention
  OBVIOUS
<1>5. PICK promised : promised = Cardinality(Prunable(p.labels, cutoff))
  OBVIOUS
<1>6. cutoff \in Int /\ promised \in Nat
  BY <1>4, <1>5, GraphIsCounted DEF CleaningInv
<1>7. PICK s : s = [at |-> "pruning", quiet |-> p.quiet, labels |-> p.labels, cutoff |-> cutoff, deleted |-> 0,
                    would |-> p.would, remaining |-> p.remaining, promised |-> promised]
  OBVIOUS
<1>8. Looks(c, Closed) \/ Looks(c, s)
  BY <1>1, <1>4, <1>5, <1>7 DEF ApprovePrune, Looks
<1>9. s \in BeingPruned
  BY <1>3, <1>6, <1>7 DEF BeingPruned
<1>10. s \in CleaningRecords /\ s.at = "pruning"
  BY <1>9 DEF CleaningRecords, BeingPruned
<1>11. p.quiet => p.would = promised /\ p.remaining = Total - promised
  BY <1>1, <1>3, <1>4, <1>5 DEF PruneFits
<1>12. PruneFits(s)
  <2>1. s.labels = p.labels /\ s.cutoff = cutoff
    BY <1>7
  <2>2. s.cutoff <= now - Retention /\ s.deleted = 0
    BY <1>4, <1>6, <1>7
  <2>3. s.quiet => s.would = s.promised /\ s.deleted + promised = s.would /\ Total - promised = s.remaining
    BY <1>6, <1>7, <1>11
  <2> QED
    BY <1>5, <1>10, <2>1, <2>2, <2>3 DEF PruneFits
<1>13. LabelFits(s)
  BY <1>10 DEF LabelFits
<1>14. CASE Looks(c, Closed)
  <2>1. GraphIs' /\ now <= now' /\ snapshots'.bare = snapshots.bare
    BY <1>2 DEF CleaningInv, GraphIs
  <2> QED
    BY <1>2, <1>14, <2>1, ClosedFits, OneActs
<1>15. CASE Looks(c, s)
  BY <1>2, <1>10, <1>12, <1>13, <1>15, LookingKeeps
<1> QED
  BY <1>8, <1>14, <1>15

-----------------------------------------------------------------------------
(* What a batch takes out of the graph.                                     *)
LEMMA BatchIsDeleted ==
    ASSUME GraphIs, NEW labels, NEW cutoff, NEW batch \in SUBSET Prunable(labels, cutoff),
           born' = [n \in Nodes |-> IF n \in batch THEN Gone ELSE born[n]], UNCHANGED <<snapshots, now>>
    PROVE  /\ GraphIs' /\ Deleted = batch /\ Cardinality(batch) \in Nat
           /\ Total' = Total - Cardinality(batch)
           /\ Prunable(labels, cutoff)' = Prunable(labels, cutoff) \ batch
           /\ Cardinality(Prunable(labels, cutoff) \ batch) = Cardinality(Prunable(labels, cutoff)) - Cardinality(batch)
           /\ Cardinality(batch) <= Cardinality(Prunable(labels, cutoff))
<1>1. /\ IsFiniteSet(InGraph) /\ Cardinality(InGraph) \in Nat /\ snapshots.all \in Nat
      /\ Prunable(labels, cutoff) \in SUBSET InGraph /\ IsFiniteSet(Prunable(labels, cutoff))
  BY GraphIsCounted
<1>2. batch \in SUBSET InGraph /\ InGraph \in SUBSET Nodes
  BY <1>1 DEF InGraph
<1>3. InGraph' = InGraph \ batch
  BY <1>2 DEF InGraph
<1>4. Deleted = batch
  BY <1>2 DEF Deleted, InGraph
<1>5. Prunable(labels, cutoff)' = Prunable(labels, cutoff) \ batch
  <2>1. ASSUME NEW n \in InGraph' \ Beside PROVE born'[n] = born[n] /\ n \in InGraph \ Beside
    BY <1>2, <1>3, <2>1
  <2> QED
    BY <1>2, <1>3, <2>1 DEF Prunable, OldEnough
<1>6. GraphIs'
  BY DEF GraphIs
<1> DEFINE P == Prunable(labels, cutoff)
<1>7. IsFiniteSet(P) /\ batch \in SUBSET P
  BY <1>1
<1>8. Total' = Total - Cardinality(batch)
  <2>1. Cardinality(InGraph \ batch) = Cardinality(InGraph) - Cardinality(batch) /\ Cardinality(batch) \in Nat
    BY <1>1, <1>2, PartOfAll
  <2> QED
    BY <1>1, <1>3, <2>1 DEF Total
<1> HIDE DEF P
<1>9. /\ Cardinality(batch) \in Nat /\ Cardinality(P \ batch) = Cardinality(P) - Cardinality(batch)
      /\ Cardinality(batch) <= Cardinality(P)
  BY <1>7, PartOfAll
<1> QED
  BY <1>4, <1>5, <1>6, <1>8, <1>9 DEF P

(* A batch of c with all that is known of it, for the invariant and for     *)
(* what the prune has done when it ends.                                    *)
LEMMA BatchDoes ==
    ASSUME CleaningInv, NEW c \in Cleaners, DeleteBatch(c)
    PROVE  \E p \in BeingPruned, found \in SUBSET InGraph, batch \in SUBSET InGraph, next \in CleaningRecords :
             /\ p = cleaning[c] /\ PruneFits(p) /\ found = Prunable(p.labels, p.cutoff) /\ batch \in SUBSET found
             /\ Cardinality(batch) = IF BatchSize <= Cardinality(found) THEN BatchSize ELSE Cardinality(found)
             /\ Cardinality(found) \in Nat
             /\ born' = [n \in Nodes |-> IF n \in batch THEN Gone ELSE born[n]] /\ UNCHANGED <<snapshots, now>>
             /\ \/ Ends(p, Cardinality(batch)) /\ next \in Pruned
                \/ ~Ends(p, Cardinality(batch)) /\ next = [p EXCEPT !.deleted = p.deleted + Cardinality(batch)]
             /\ IF batch = {} THEN Looks(c, next) ELSE Acts(c, next)
<1>1. PICK p \in CleaningRecords : p = cleaning[c] /\ PruneFits(p) /\ LabelFits(p)
  BY DEF CleaningInv
<1>2. p.at = "pruning" /\ p \in BeingPruned
  BY <1>1, ByPlace DEF DeleteBatch
<1>3. PICK found : found = Prunable(p.labels, p.cutoff)
  OBVIOUS
<1>4. found \in SUBSET InGraph /\ Cardinality(found) \in Nat
  <2>1. PICK labels, cutoff : labels = p.labels /\ cutoff = p.cutoff
    OBVIOUS
  <2> QED
    BY <1>3, <2>1, GraphIsCounted DEF CleaningInv
<1>5. PICK size : size = Min({BatchSize, Cardinality(found)})
  OBVIOUS
<1>6. size = IF BatchSize <= Cardinality(found) THEN BatchSize ELSE Cardinality(found)
  BY <1>4, <1>5, SmallerOf
<1>7. PICK batch \in kSubset(size, found) :
        /\ born' = [n \in Nodes |-> IF n \in batch THEN Gone ELSE born[n]]
        /\ LET q == IF Ends(p, size) THEN [at |-> "pruned", quiet |-> FALSE, labels |-> p.labels, would |-> 0, remaining |-> 0]
                    ELSE [p EXCEPT !.deleted = @ + size]
           IN  IF batch = {} THEN Looks(c, q) ELSE Acts(c, q)
  BY <1>1, <1>3, <1>5 DEF DeleteBatch, Looks, Acts
<1>8. batch \in SUBSET found /\ batch \in SUBSET InGraph /\ Cardinality(batch) = size
  BY <1>4, <1>7 DEF kSubset
<1>9. UNCHANGED <<snapshots, now>>
  BY DEF DeleteBatch
<1>10. PICK next : next = IF Ends(p, size) THEN [at |-> "pruned", quiet |-> FALSE, labels |-> p.labels, would |-> 0, remaining |-> 0]
                          ELSE [p EXCEPT !.deleted = p.deleted + size]
  OBVIOUS
<1>11. IF batch = {} THEN Looks(c, next) ELSE Acts(c, next)
  BY <1>7, <1>10 DEF Looks, Acts
<1>12. p.deleted + size \in Nat /\ p.labels \in Scopes
  BY <1>2, <1>4, <1>6 DEF BeingPruned
<1>13. CASE Ends(p, size)
  <2>1. next \in Pruned
    BY <1>10, <1>12, <1>13 DEF Pruned
  <2>2. next \in CleaningRecords
    BY <2>1 DEF CleaningRecords
  <2> QED
    BY <1>1, <1>2, <1>3, <1>4, <1>6, <1>7, <1>8, <1>9, <1>11, <1>13, <2>1, <2>2
<1>14. CASE ~Ends(p, size)
  <2>1. next = [p EXCEPT !.deleted = p.deleted + size]
    BY <1>10, <1>14
  <2>2. next \in BeingPruned
    BY <1>2, <1>12, <2>1 DEF BeingPruned
  <2>3. next \in CleaningRecords
    BY <2>2 DEF CleaningRecords
  <2> QED
    BY <1>1, <1>2, <1>3, <1>4, <1>6, <1>7, <1>8, <1>9, <1>11, <1>14, <2>1, <2>3
<1> QED
  BY <1>13, <1>14

LEMMA BatchKeeps == ASSUME CleaningInv, NEW c \in Cleaners, DeleteBatch(c) PROVE CleaningInv'
<1>1. PICK p \in BeingPruned, found \in SUBSET InGraph, batch \in SUBSET InGraph, next \in CleaningRecords :
             /\ p = cleaning[c] /\ PruneFits(p) /\ found = Prunable(p.labels, p.cutoff) /\ batch \in SUBSET found
             /\ Cardinality(batch) = IF BatchSize <= Cardinality(found) THEN BatchSize ELSE Cardinality(found)
             /\ Cardinality(found) \in Nat
             /\ born' = [n \in Nodes |-> IF n \in batch THEN Gone ELSE born[n]] /\ UNCHANGED <<snapshots, now>>
             /\ \/ Ends(p, Cardinality(batch)) /\ next \in Pruned
                \/ ~Ends(p, Cardinality(batch)) /\ next = [p EXCEPT !.deleted = p.deleted + Cardinality(batch)]
             /\ IF batch = {} THEN Looks(c, next) ELSE Acts(c, next)
  BY BatchDoes
<1>2. PICK labels, cutoff : labels = p.labels /\ cutoff = p.cutoff
  OBVIOUS
<1>3. GraphIs
  BY DEF CleaningInv
<1>4. /\ GraphIs' /\ Cardinality(batch) \in Nat /\ Total' = Total - Cardinality(batch)
      /\ Prunable(labels, cutoff)' = found \ batch
      /\ Cardinality(found \ batch) = Cardinality(found) - Cardinality(batch)
  <2>1. found = Prunable(labels, cutoff)
    BY <1>1, <1>2
  <2>2. batch \in SUBSET Prunable(labels, cutoff)
    BY <1>1, <2>1
  <2>3. born' = [n \in Nodes |-> IF n \in batch THEN Gone ELSE born[n]] /\ UNCHANGED <<snapshots, now>>
    BY <1>1
  <2>4. Cardinality(batch) \in Nat
    BY <1>3, <2>2, <2>3, BatchIsDeleted
  <2>5. GraphIs'
    BY <1>3, <2>2, <2>3, BatchIsDeleted
  <2>6. Total' = Total - Cardinality(batch)
    BY <1>3, <2>2, <2>3, BatchIsDeleted
  <2>7. Prunable(labels, cutoff)' = Prunable(labels, cutoff) \ batch
    BY <1>3, <2>2, <2>3, BatchIsDeleted
  <2>8. Cardinality(Prunable(labels, cutoff) \ batch) = Cardinality(Prunable(labels, cutoff)) - Cardinality(batch)
    BY <1>3, <2>2, <2>3, BatchIsDeleted
  <2> QED
    BY <2>1, <2>4, <2>5, <2>6, <2>7, <2>8
<1>5. PruneFits(next)' /\ LabelFits(next)'
  <2>1. CASE next \in Pruned
    <3>1. next.at = "pruned"
      BY <2>1 DEF Pruned
    <3> QED
      BY <3>1 DEF PruneFits, LabelFits
  <2>2. CASE ~Ends(p, Cardinality(batch)) /\ next = [p EXCEPT !.deleted = p.deleted + Cardinality(batch)]
    <3>1. /\ next.at = "pruning" /\ next.labels = labels /\ next.cutoff = cutoff /\ next.quiet = p.quiet
          /\ next.would = p.would /\ next.remaining = p.remaining /\ next.promised = p.promised
          /\ next.deleted = p.deleted + Cardinality(batch)
          /\ p.at = "pruning" /\ p.deleted \in Nat /\ p.promised \in Nat /\ p.would \in Nat /\ cutoff \in Int
      BY <1>2, <2>2 DEF BeingPruned
    <3>2. cutoff <= now' - Retention /\ next.deleted < next.promised
      BY <1>1, <1>2, <1>4, <2>2, <3>1 DEF PruneFits, Ends
    <3>3. p.quiet => p.would = p.promised /\ p.deleted + Cardinality(found) = p.would
                     /\ Total - Cardinality(found) = p.remaining
      BY <1>1, <3>1 DEF PruneFits
    <3>4. Total \in Nat
      BY <1>3, GraphIsCounted
    <3>5. next.quiet => /\ next.would = next.promised
                        /\ next.deleted + Cardinality(found \ batch) = next.would
                        /\ Total' - Cardinality(found \ batch) = next.remaining
      BY <1>1, <1>4, <3>1, <3>3, <3>4
    <3>6. PruneFits(next)'
      BY <1>4, <3>1, <3>2, <3>5 DEF PruneFits
    <3> QED
      BY <3>1, <3>6 DEF LabelFits
  <2> QED
    BY <1>1, <2>1, <2>2
<1>6. now <= now' /\ snapshots'.bare = snapshots.bare
  BY <1>1, <1>3 DEF GraphIs
<1>7. CASE batch = {}
  <2>1. born' = born /\ Looks(c, next)
    BY <1>1, <1>3, <1>7 DEF GraphIs
  <2> QED
    BY <1>1, <1>4, <1>5, <1>6, <2>1, OneActs
<1>8. CASE batch # {}
  BY <1>1, <1>4, <1>5, <1>6, <1>8, OneActs
<1> QED
  BY <1>7, <1>8

-----------------------------------------------------------------------------
(* The regional labels of price snapshots.                                  *)
LEMMA PreviewLabelsKeeps == ASSUME CleaningInv, NEW c \in Cleaners, PreviewLabels(c) PROVE CleaningInv'
<1>1. PICK count \in {snapshots.bare, NoCount} : Looks(c, [at |-> "labelling", quiet |-> TRUE, confirmed |-> count])
  BY DEF PreviewLabels
<1>2. PICK s : s = [at |-> "labelling", quiet |-> TRUE, confirmed |-> count]
  OBVIOUS
<1>3. UNCHANGED <<born, snapshots, now>> /\ Looks(c, s)
  BY <1>1, <1>2 DEF PreviewLabels, Looks
<1>4. count \in Counts
  BY DEF CleaningInv, GraphIs, Counts
<1>5. s \in Confirming /\ s.at = "labelling"
  BY <1>2, <1>4 DEF Confirming
<1>6. s \in CleaningRecords /\ PruneFits(s) /\ LabelFits(s)
  BY <1>5 DEF CleaningRecords, PruneFits, LabelFits
<1> QED
  BY <1>3, <1>6, LookingKeeps

LEMMA ConfirmKeeps == ASSUME CleaningInv, NEW c \in Cleaners, ConfirmCount(c) PROVE CleaningInv'
<1>1. PICK p \in CleaningRecords : p = cleaning[c] /\ PruneFits(p) /\ LabelFits(p)
  BY DEF CleaningInv
<1>2. p.at = "labelling" /\ UNCHANGED <<born, snapshots, now>>
  BY <1>1 DEF ConfirmCount
<1>3. p \in Confirming
  BY <1>2, ByPlace
<1>4. PICK s : s = [p EXCEPT !.at = "confirmed"]
  OBVIOUS
<1>5. s \in Confirming /\ s.at = "confirmed" /\ s.confirmed = p.confirmed
  BY <1>3, <1>4 DEF Confirming
<1>6. CASE p.confirmed \in {snapshots.bare, NoCount}
  <2>1. Looks(c, s)
    BY <1>1, <1>4, <1>6 DEF ConfirmCount, Looks
  <2>2. s \in CleaningRecords /\ PruneFits(s) /\ LabelFits(s)
    BY <1>5, <1>6 DEF CleaningRecords, PruneFits, LabelFits
  <2> QED
    BY <1>2, <2>1, <2>2, LookingKeeps
<1>7. CASE p.confirmed \notin {snapshots.bare, NoCount}
  <2>1. Looks(c, Closed)
    BY <1>1, <1>7 DEF ConfirmCount, Looks
  <2>2. GraphIs' /\ now <= now' /\ snapshots'.bare = snapshots.bare
    BY <1>2 DEF CleaningInv, GraphIs
  <2> QED
    BY <1>2, <2>1, <2>2, ClosedFits, OneActs
<1> QED
  BY <1>6, <1>7

LEMMA TotalBeforeKeeps == ASSUME CleaningInv, NEW c \in Cleaners, TotalBefore(c) PROVE CleaningInv'
<1>1. PICK p \in CleaningRecords : p = cleaning[c] /\ PruneFits(p) /\ LabelFits(p)
  BY DEF CleaningInv
<1>2. p.at = "confirmed" /\ UNCHANGED <<born, snapshots, now>>
  BY <1>1 DEF TotalBefore
<1>3. p \in Confirming
  BY <1>2, ByPlace
<1>4. PICK s : s = [at |-> "totalled", quiet |-> TRUE, confirmed |-> p.confirmed, before |-> snapshots.all]
  OBVIOUS
<1>5. Looks(c, s)
  BY <1>1, <1>4 DEF TotalBefore, Looks
<1>6. s \in Totalled /\ s.at = "totalled" /\ s.confirmed = p.confirmed /\ s.before = snapshots.all
  BY <1>3, <1>4 DEF Totalled, Confirming, CleaningInv, GraphIs
<1>7. p.confirmed = NoCount \/ snapshots.bare \in {0, p.confirmed}
  BY <1>1, <1>2 DEF LabelFits
<1>8. s \in CleaningRecords /\ PruneFits(s) /\ LabelFits(s)
  BY <1>6, <1>7 DEF CleaningRecords, PruneFits, LabelFits
<1> QED
  BY <1>2, <1>5, <1>8, LookingKeeps

LEMMA SetLabelsKeeps == ASSUME CleaningInv, NEW c \in Cleaners, SetLabels(c) PROVE CleaningInv'
<1>1. PICK p \in CleaningRecords : p = cleaning[c] /\ PruneFits(p) /\ LabelFits(p)
  BY DEF CleaningInv
<1>2. p.at = "totalled" /\ snapshots' = [snapshots EXCEPT !.bare = 0] /\ UNCHANGED <<born, now>>
  BY <1>1 DEF SetLabels
<1>3. p \in Totalled
  BY <1>2, ByPlace
<1>4. PICK s : s = [at |-> "labelled", quiet |-> p.quiet, confirmed |-> p.confirmed,
                    before |-> p.before, labelled |-> snapshots.bare]
  OBVIOUS
<1>5. Looks(c, s)
  BY <1>1, <1>4 DEF SetLabels, Looks
<1>6. snapshots \in [all : Nat, bare : Nat] /\ GraphIs
  BY DEF CleaningInv, GraphIs
<1>7. GraphIs' /\ snapshots'.bare = 0 /\ snapshots'.all = snapshots.all /\ now <= now'
  BY <1>2, <1>6 DEF GraphIs
<1>8. /\ s \in Labelled /\ s.at = "labelled" /\ s.confirmed = p.confirmed /\ s.before = p.before
      /\ s.labelled = snapshots.bare /\ s.quiet = p.quiet
  BY <1>3, <1>4, <1>6 DEF Totalled, Labelled
<1>9. (p.confirmed = NoCount \/ snapshots.bare \in {0, p.confirmed}) /\ (p.quiet => p.before = snapshots.all)
  BY <1>1, <1>2 DEF LabelFits
<1>10. s \in CleaningRecords /\ PruneFits(s)' /\ LabelFits(s)'
  BY <1>7, <1>8, <1>9 DEF CleaningRecords, PruneFits, LabelFits
<1> QED
  BY <1>2, <1>5, <1>7, <1>10, OneActs

LEMMA TotalAfterKeeps == ASSUME CleaningInv, NEW c \in Cleaners, TotalAfter(c) PROVE CleaningInv'
<1>1. PICK p \in CleaningRecords : p = cleaning[c] /\ PruneFits(p) /\ LabelFits(p)
  BY DEF CleaningInv
<1>2. p.at = "labelled" /\ UNCHANGED <<born, snapshots, now>>
  BY <1>1 DEF TotalAfter
<1>3. p \in Labelled
  BY <1>2, ByPlace
<1>4. PICK same \in BOOLEAN : same <=> p.before = snapshots.all
  OBVIOUS
<1>5. PICK s : s = [at |-> "answered", quiet |-> p.quiet, confirmed |-> p.confirmed,
                    labelled |-> p.labelled, left |-> snapshots.bare, unchanged |-> p.before = snapshots.all]
  OBVIOUS
<1>6. Looks(c, s)
  BY <1>1, <1>5 DEF TotalAfter, Looks
<1>7. snapshots.bare \in Nat
  BY DEF CleaningInv, GraphIs
<1>8. /\ s \in Answered /\ s.at = "answered" /\ s.confirmed = p.confirmed /\ s.labelled = p.labelled
      /\ s.left = snapshots.bare /\ s.quiet = p.quiet /\ (s.unchanged <=> p.before = snapshots.all)
  BY <1>3, <1>5, <1>7 DEF Labelled, Answered
<1>9. /\ p.confirmed = NoCount \/ p.labelled \in {0, p.confirmed}
      /\ p.quiet => p.before = snapshots.all
      /\ snapshots.bare = 0
  BY <1>1, <1>2 DEF LabelFits
<1>10. s \in CleaningRecords /\ PruneFits(s) /\ LabelFits(s)
  BY <1>8, <1>9 DEF CleaningRecords, PruneFits, LabelFits
<1> QED
  BY <1>2, <1>6, <1>10, LookingKeeps

LEMMA StutterKeeps == CleaningInv /\ UNCHANGED cleaningVars => CleaningInv'
<1> SUFFICES ASSUME CleaningInv, UNCHANGED cleaningVars PROVE CleaningInv'
  OBVIOUS
<1>1. UNCHANGED <<born, snapshots, now>> /\ cleaning' = cleaning /\ GraphIs'
  BY DEF cleaningVars, CleaningInv, GraphIs
<1>2. ASSUME NEW k \in Cleaners
      PROVE  \E s \in CleaningRecords : cleaning'[k] = s /\ PruneFits(s)' /\ LabelFits(s)'
  <2>1. PICK q \in CleaningRecords : q = cleaning[k] /\ PruneFits(q) /\ LabelFits(q)
    BY DEF CleaningInv
  <2> QED
    BY <1>1, <2>1, SameFits
<1>3. cleaning' = [k \in Cleaners |-> cleaning'[k]]
  BY <1>1 DEF CleaningInv
<1> QED
  BY <1>1, <1>2, <1>3, RequestsFit

LEMMA CleaningKeeps == CleaningInv /\ [CleaningNext]_cleaningVars => CleaningInv'
<1> SUFFICES ASSUME CleaningInv, [CleaningNext]_cleaningVars PROVE CleaningInv'
  OBVIOUS
<1>1. CASE UNCHANGED cleaningVars
  BY <1>1, StutterKeeps
<1>2. CASE (\E n \in Nodes : WriteNode(n)) \/ IngestSnapshot \/ DayPasses
  BY <1>2, OutsideKeeps
<1>3. ASSUME NEW c \in Cleaners,
             \/ \E asked \in Asked : CountNodes(c, asked)
             \/ SignPreview(c) \/ ApprovePrune(c) \/ DeleteBatch(c) \/ GiveUp(c)
             \/ PreviewLabels(c) \/ ConfirmCount(c) \/ TotalBefore(c) \/ SetLabels(c) \/ TotalAfter(c)
      PROVE  CleaningInv'
  BY <1>3, CountKeeps, SignKeeps, ApproveKeeps, BatchKeeps, GiveUpKeeps, PreviewLabelsKeeps, ConfirmKeeps,
     TotalBeforeKeeps, SetLabelsKeeps, TotalAfterKeeps
<1> QED
  BY <1>1, <1>2, <1>3 DEF CleaningNext, CleaningDone

-----------------------------------------------------------------------------
(* Only a batch deletes, and only a batch ends a prune.                     *)
LEMMA OthersDeleteNothing ==
    ASSUME CleaningInv, [CleaningNext]_cleaningVars, \A c \in Cleaners : ~DeleteBatch(c)
    PROVE  /\ Deleted = {}
           /\ \A c \in Cleaners : cleaning[c].at = "pruning" => cleaning'[c].at # "pruned"
<1>1. /\ born \in [Nodes -> Nat \cup {Gone}] /\ cleaning \in [Cleaners -> CleaningRecords]
  BY DEF CleaningInv, GraphIs
<1>2. CASE \E n \in Nodes : WriteNode(n)
  <2>1. PICK n \in Nodes : WriteNode(n)
    BY <1>2
  <2>2. Deleted = {}
    BY <1>1, <2>1 DEF WriteNode, Deleted, InGraph
  <2>3. \A c \in Cleaners : cleaning'[c].at = cleaning[c].at
    BY <1>1, <2>1, NoticedRecord DEF WriteNode, Noticed
  <2> QED
    BY <2>2, <2>3
<1>3. CASE IngestSnapshot \/ DayPasses
  <2>1. born' = born /\ cleaning' = Noticed
    BY <1>3 DEF IngestSnapshot, DayPasses
  <2>2. \A c \in Cleaners : cleaning'[c].at = cleaning[c].at
    BY <1>1, <2>1, NoticedRecord DEF Noticed
  <2> QED
    BY <2>1, <2>2 DEF Deleted, InGraph
<1>4. ASSUME NEW c \in Cleaners,
             \/ \E asked \in Asked : CountNodes(c, asked)
             \/ SignPreview(c) \/ ApprovePrune(c) \/ GiveUp(c)
             \/ PreviewLabels(c) \/ ConfirmCount(c) \/ TotalBefore(c) \/ SetLabels(c) \/ TotalAfter(c)
      PROVE  /\ born' = born
             /\ \A k \in Cleaners : cleaning[k].at = "pruning" => cleaning'[k].at # "pruned"
  <2>1. born' = born
    BY <1>4 DEF CountNodes, SignPreview, ApprovePrune, GiveUp, PreviewLabels, ConfirmCount, TotalBefore, SetLabels, TotalAfter
  <2>2. cleaning[c].at = "pruning" => GiveUp(c)
    BY <1>4 DEF CountNodes, SignPreview, ApprovePrune, PreviewLabels, ConfirmCount, TotalBefore, SetLabels, TotalAfter
  <2>3. \E r : cleaning' = [cleaning EXCEPT ![c] = r]
    BY <1>4 DEF Looks, CountNodes, SignPreview, ApprovePrune, GiveUp, PreviewLabels, ConfirmCount, TotalBefore, SetLabels, TotalAfter
  <2>4. GiveUp(c) => cleaning'[c].at = "over"
    BY <1>1 DEF GiveUp, Looks, Closed
  <2> QED
    BY <1>1, <2>1, <2>2, <2>3, <2>4
<1>5. CASE UNCHANGED cleaningVars
  BY <1>5 DEF cleaningVars, Deleted, InGraph
<1> QED
  BY <1>2, <1>3, <1>4, <1>5 DEF CleaningNext, CleaningDone, Deleted, InGraph

LEMMA BatchAsCounted ==
    ASSUME CleaningInv, NEW c \in Cleaners, DeleteBatch(c)
    PROVE  KeepsWhatMatters /\ DoesWhatItCounted
<1>1. PICK p \in BeingPruned, found \in SUBSET InGraph, batch \in SUBSET InGraph, next \in CleaningRecords :
             /\ p = cleaning[c] /\ PruneFits(p) /\ found = Prunable(p.labels, p.cutoff) /\ batch \in SUBSET found
             /\ Cardinality(batch) = IF BatchSize <= Cardinality(found) THEN BatchSize ELSE Cardinality(found)
             /\ Cardinality(found) \in Nat
             /\ born' = [n \in Nodes |-> IF n \in batch THEN Gone ELSE born[n]] /\ UNCHANGED <<snapshots, now>>
             /\ \/ Ends(p, Cardinality(batch)) /\ next \in Pruned
                \/ ~Ends(p, Cardinality(batch)) /\ next = [p EXCEPT !.deleted = p.deleted + Cardinality(batch)]
             /\ IF batch = {} THEN Looks(c, next) ELSE Acts(c, next)
  BY BatchDoes
<1>2. PICK labels, cutoff : labels = p.labels /\ cutoff = p.cutoff
  OBVIOUS
<1>3. GraphIs /\ cleaning \in [Cleaners -> CleaningRecords]
  BY DEF CleaningInv
<1>4. Deleted = batch /\ Cardinality(batch) \in Nat /\ Total' = Total - Cardinality(batch) /\ Total \in Nat
  BY <1>1, <1>2, <1>3, BatchIsDeleted, GraphIsCounted
<1>5. /\ p.at = "pruning" /\ p.deleted \in Nat /\ p.promised \in Nat /\ p.would \in Nat /\ p.cutoff \in Int
      /\ p.remaining \in Nat /\ now \in Nat
  BY <1>3 DEF BeingPruned, GraphIs
<1>6. /\ p.cutoff <= now - Retention /\ (p.deleted = 0 \/ p.deleted < p.promised)
      /\ p.quiet => /\ p.would = p.promised /\ p.deleted + Cardinality(found) = p.would
                    /\ Total - Cardinality(found) = p.remaining
  BY <1>1, <1>5 DEF PruneFits
<1>7. KeepsWhatMatters
  <2> SUFFICES ASSUME NEW n \in batch
               PROVE  /\ LabelsOf[n] \cap ProductionCritical = {} /\ n \notin Beside
                      /\ LabelsOf[n] \cap Undated # {} \/ born[n] < now - Retention
    BY <1>4 DEF KeepsWhatMatters
  <2>1. /\ LabelsOf[n] \cap ProductionCritical = {} /\ n \notin Beside
        /\ LabelsOf[n] \cap Undated # {} \/ born[n] < p.cutoff
    BY <1>1 DEF Prunable, OldEnough
  <2>2. born[n] \in Nat
    BY <1>1, <1>3 DEF InGraph, GraphIs
  <2> QED
    BY <1>5, <1>6, <2>1, <2>2
<1>8. ASSUME NEW k \in Cleaners, cleaning[k].at = "pruning", cleaning'[k].at = "pruned"
      PROVE  k = c /\ Ends(p, Cardinality(batch))
  <2>1. k = c
    <3>1. k # c => cleaning'[k].at = cleaning[k].at
      BY <1>1, <1>3, NoticedRecord DEF Looks, Acts, Noticed
    <3> QED
      BY <1>8, <3>1
  <2>2. cleaning'[c] = next
    BY <1>1, <1>3 DEF Looks, Acts, Noticed
  <2>3. next = [p EXCEPT !.deleted = p.deleted + Cardinality(batch)] => next.at = "pruning"
    BY <1>5 DEF BeingPruned
  <2> QED
    BY <1>1, <1>8, <2>1, <2>2, <2>3
<1>9. ASSUME Ends(p, Cardinality(batch))
      PROVE  /\ p.deleted + Cardinality(batch) < Max({p.promised, 1}) + BatchSize
             /\ p.deleted + Cardinality(batch) < p.promised => found = {}
             /\ p.quiet => p.deleted + Cardinality(batch) = p.would /\ Total' = p.remaining
  <2>1. Max({p.promised, 1}) = IF p.promised >= 1 THEN p.promised ELSE 1
    BY <1>5, LargerOf
  <2>2. p.deleted + Cardinality(batch) < Max({p.promised, 1}) + BatchSize
    BY <1>1, <1>4, <1>5, <1>6, <2>1
  <2>3. IsFiniteSet(found)
    BY <1>3, GraphIsCounted, FS_Subset
  <2>4. p.deleted + Cardinality(batch) < p.promised => found = {}
    <3>1. p.deleted + Cardinality(batch) < p.promised => Cardinality(batch) = 0
      BY <1>4, <1>5, <1>9 DEF Ends
    <3>2. Cardinality(batch) = 0 => Cardinality(found) = 0
      BY <1>1
    <3> QED
      BY <2>3, <3>1, <3>2, FS_EmptySet
  <2>5. p.quiet => Cardinality(batch) = Cardinality(found)
    BY <1>1, <1>4, <1>5, <1>6, <1>9 DEF Ends
  <2>6. p.quiet => p.deleted + Cardinality(batch) = p.would /\ Total' = p.remaining
    BY <1>4, <1>6, <2>5
  <2> QED
    BY <2>2, <2>4, <2>6
<1>10. DoesWhatItCounted
  BY <1>1, <1>4, <1>8, <1>9 DEF DoesWhatItCounted
<1> QED
  BY <1>7, <1>10

LEMMA LabelsFit == CleaningInv => LabelsAsConfirmed
BY DEF CleaningInv, LabelFits, LabelsAsConfirmed

(* Cleaning the graph does what the operator was shown and approved, for    *)
(* any nodes and labels, any retention and size of a batch, and any number  *)
(* of requests beside each other and beside the writes of the program: no   *)
(* prune deletes a production node, a node beside one or a young one; it    *)
(* takes what its own count promised and, undisturbed, what was previewed;  *)
(* labels go to the snapshots that were confirmed.                          *)
THEOREM CleaningIsAsApproved == CleaningSpec => CleansWhatWasShown
<1>1. CleaningInit => CleaningInv
  BY CleaningStarts
<1>2. CleaningInv /\ [CleaningNext]_cleaningVars => CleaningInv'
  BY CleaningKeeps
<1>3. CleaningInv /\ CleaningInv' /\ [CleaningNext]_cleaningVars
        => [KeepsWhatMatters /\ DoesWhatItCounted /\ LabelsAsConfirmed']_cleaningVars
  <2> SUFFICES ASSUME CleaningInv, CleaningInv', [CleaningNext]_cleaningVars
               PROVE  KeepsWhatMatters /\ DoesWhatItCounted /\ LabelsAsConfirmed'
    OBVIOUS
  <2>1. LabelsAsConfirmed'
    BY LabelsFit, PTL
  <2>2. CASE \E c \in Cleaners : DeleteBatch(c)
    BY <2>1, <2>2, BatchAsCounted
  <2>3. CASE \A c \in Cleaners : ~DeleteBatch(c)
    BY <2>1, <2>3, OthersDeleteNothing DEF KeepsWhatMatters, DoesWhatItCounted
  <2> QED
    BY <2>2, <2>3
<1> QED
  BY <1>1, <1>2, <1>3, PTL DEF CleaningSpec, CleansWhatWasShown
=============================================================================
