------------------------- MODULE CallManagerProofs -------------------------
(***************************************************************************)
(* Proofs about CallManager, for any sets of agents, calls, refIds and     *)
(* channels: whatever sequence of its methods is run, the store keeps its  *)
(* type, its indexes never lead to a stale call, and its stamps are there  *)
(* when they are needed and only grow.                                     *)
(*                                                                         *)
(* None of the properties is inductive.  An index entry must not lead to   *)
(* the uuid the next CreateCall draws, so uuids not drawn yet are in no    *)
(* map (UnusedClean).  The rank of an end is at most one above the rank of *)
(* the start (RanksTight), which keeps the ranks in their ranges and makes *)
(* the overwriting of EndedAt by CleanupCallsForAgent a move forward.      *)
(***************************************************************************)
EXTENDS CallManager, TLAPS

UnusedClean ==
  \A c \in CallIDs : call[c].state = "UNUSED" => c \notin calls /\ call[c] = NoCall

RanksTight == \A c \in CallIDs : call[c].endedAt <= call[c].startedAt + 1

CMInv == CMTypeOK /\ IndexSound /\ StampsSound /\ UnusedClean /\ RanksTight

\* An object that StampsSound, RanksTight and its type hold for.
SoundObject(obj) ==
  /\ obj \in CallRecord
  /\ obj.endedAt <= obj.startedAt + 1
  /\ obj.state = "IN_PROGRESS" => obj.startedAt # 0
  /\ obj.state \in TerminalStates => obj.endedAt # 0
  /\ obj.state = "UNUSED" => obj = NoCall

\* UpdateCallState leaves a sound object sound, in the state it was told,
\* with its identity and its channel, and without moving a stamp back.
LEMMA UpdatedSound ==
  ASSUME NEW obj, SoundObject(obj), NEW s \in CallStates
  PROVE  /\ SoundObject(Updated(obj, s))
         /\ Updated(obj, s).state = s
         /\ Updated(obj, s).agentID = obj.agentID
         /\ Updated(obj, s).refID = obj.refID
         /\ Updated(obj, s).channel = obj.channel
         /\ obj.startedAt # 0 => Updated(obj, s).startedAt = obj.startedAt
         /\ Updated(obj, s).endedAt >= obj.endedAt
  <1> DEFINE new == Updated(obj, s)
  <1>1. /\ obj.startedAt \in 0..2 /\ obj.endedAt \in 0..3
        /\ obj.endedAt <= obj.startedAt + 1
    BY DEF SoundObject, CallRecord
  <1>2. /\ new.state = s
        /\ new.agentID = obj.agentID
        /\ new.refID = obj.refID
        /\ new.channel = obj.channel
        /\ new.startedAt = IF s = "IN_PROGRESS" /\ obj.startedAt = 0
                           THEN obj.endedAt + 1 ELSE obj.startedAt
        /\ new.endedAt = IF s \in TerminalStates /\ obj.endedAt = 0
                         THEN obj.startedAt + 1 ELSE obj.endedAt
    BY DEF Updated, SoundObject, CallRecord
  <1>3. s # "UNUSED" /\ ~(s = "IN_PROGRESS" /\ s \in TerminalStates)
    BY DEF CallStates, TerminalStates
  <1>4. /\ new.startedAt \in 0..2
        /\ new.endedAt \in 0..3
        /\ new.endedAt <= new.startedAt + 1
        /\ s = "IN_PROGRESS" => new.startedAt # 0
        /\ s \in TerminalStates => new.endedAt # 0
        /\ obj.startedAt # 0 => new.startedAt = obj.startedAt
        /\ new.endedAt >= obj.endedAt
    BY <1>1, <1>2, <1>3
  <1>5. new \in CallRecord
    BY <1>2, <1>4 DEF Updated, SoundObject, CallRecord
  <1> QED
    BY <1>2, <1>3, <1>4, <1>5 DEF SoundObject

\* The invariant, told object by object.
LEMMA SoundObjects ==
  ASSUME CMInv
  PROVE  \A c \in CallIDs : SoundObject(call[c])
  BY DEF CMInv, CMTypeOK, StampsSound, UnusedClean, RanksTight, SoundObject

\* An empty store satisfies the invariant.
LEMMA InitInv == CMInit => CMInv
  BY NoneIsFresh
  DEF CMInit, CMInv, CMTypeOK, IndexSound, StampsSound, UnusedClean, RanksTight,
      NoCall, CallRecord, CallStates, TerminalStates

\* A new object is sound.
LEMMA NewCallSound ==
  ASSUME NEW a \in AgentIDs, NEW r \in RefIDs \cup {None}
  PROVE  /\ SoundObject(NewCall(a, r))
         /\ NewCall(a, r).agentID = a
         /\ NewCall(a, r).refID = r
         /\ NewCall(a, r).channel = None
         /\ NewCall(a, r).state = "CREATED"
  <1>1. NoCall \in CallRecord
    BY DEF NoCall, CallRecord
  <1>2. /\ NewCall(a, r).agentID = a
        /\ NewCall(a, r).refID = r
        /\ NewCall(a, r).channel = None
        /\ NewCall(a, r).state = "CREATED"
        /\ NewCall(a, r).startedAt = 0
        /\ NewCall(a, r).endedAt = 0
    BY DEF NewCall, NoCall
  <1>3. NewCall(a, r) \in CallRecord
    BY <1>1 DEF NewCall, CallRecord, CallStates
  <1> QED
    BY <1>2, <1>3 DEF SoundObject, TerminalStates

\* What the invariant says of the objects follows from their soundness.
LEMMA ObjectsGiveInv ==
  ASSUME call' \in [CallIDs -> CallRecord],
         \A c \in CallIDs : SoundObject(call'[c])
  PROVE  StampsSound' /\ RanksTight' /\ (\A c \in CallIDs : call'[c].state = "UNUSED" => call'[c] = NoCall)
  BY DEF SoundObject, StampsSound, RanksTight

\* The stamps of every object stay or move forward: StampsOnlyGrow, of a step.
Grown ==
  \A c \in CallIDs : /\ call[c].startedAt # 0 => call'[c].startedAt = call[c].startedAt
                     /\ call'[c].endedAt >= call[c].endedAt

\* CreateCall keeps the invariant: the uuid it draws was in no map before, so
\* the three entries it writes lead to a call that carries their keys.
LEMMA CreateCallStep ==
  ASSUME CMInv, NEW c \in CallIDs, NEW a \in AgentIDs, NEW r \in RefIDs \cup {None},
         CreateCall(c, a, r)
  PROVE  CMInv' /\ Grown
  <1>1. /\ CMTypeOK /\ IndexSound /\ UnusedClean
        /\ \A d \in CallIDs : SoundObject(call[d])
    BY SoundObjects DEF CMInv
  <1>2. c \notin calls /\ call[c] = NoCall
    BY <1>1 DEF CreateCall, UnusedClean
  <1>3. /\ call' = [call EXCEPT ![c] = NewCall(a, r)]
        /\ calls' = calls \cup {c}
        /\ callsByRefID' = [callsByRefID EXCEPT ![r] = c]
        /\ callsByAgent' = [callsByAgent EXCEPT ![a] = c]
        /\ callsByChannel' = callsByChannel
    BY DEF CreateCall
  <1>4. \A d \in CallIDs : SoundObject(call'[d])
    BY <1>1, <1>3, NewCallSound DEF CMTypeOK
  <1>5. CMTypeOK'
    BY <1>1, <1>3, <1>4 DEF CMTypeOK, SoundObject
  <1>6. IndexSound'
    BY <1>1, <1>2, <1>3, NewCallSound, NoneIsFresh DEF CMTypeOK, IndexSound
  <1>7. UnusedClean'
    BY <1>1, <1>3, <1>4, NewCallSound DEF CMTypeOK, UnusedClean
  <1>8. StampsSound' /\ RanksTight'
    BY <1>4, <1>5, ObjectsGiveInv DEF CMTypeOK
  <1>9. Grown
    <2>1. call[c].startedAt = 0 /\ call[c].endedAt = 0
      BY <1>2 DEF NoCall
    <2>2. NewCall(a, r).endedAt \in 0..3
      BY NewCallSound DEF SoundObject, CallRecord
    <2>3. \A d \in CallIDs : call[d].endedAt \in 0..3
      BY <1>1 DEF SoundObject, CallRecord
    <2> QED
      BY <1>1, <1>3, <2>1, <2>2, <2>3 DEF Grown, CMTypeOK
  <1> QED
    BY <1>5, <1>6, <1>7, <1>8, <1>9 DEF CMInv

\* UpdateCallState keeps the invariant: it changes no key of the object.
LEMMA UpdateCallStateStep ==
  ASSUME CMInv, NEW c \in CallIDs, NEW s \in CallStates, UpdateCallState(c, s)
  PROVE  CMInv' /\ Grown
  <1>1. /\ CMTypeOK /\ IndexSound /\ UnusedClean
        /\ \A d \in CallIDs : SoundObject(call[d])
    BY SoundObjects DEF CMInv
  <1>2. /\ c \in calls
        /\ call' = [call EXCEPT ![c] = Updated(call[c], s)]
        /\ UNCHANGED <<calls, callsByRefID, callsByAgent, callsByChannel>>
    BY DEF UpdateCallState
  <1>3. \A d \in CallIDs : SoundObject(call'[d])
    BY <1>1, <1>2, UpdatedSound DEF CMTypeOK
  <1>4. \A d \in CallIDs : /\ call'[d].agentID = call[d].agentID
                           /\ call'[d].refID = call[d].refID
                           /\ call'[d].channel = call[d].channel
    BY <1>1, <1>2, UpdatedSound DEF CMTypeOK
  <1>5. CMTypeOK'
    BY <1>1, <1>2, <1>3 DEF CMTypeOK, SoundObject
  <1>6. IndexSound'
    BY <1>1, <1>2, <1>4 DEF CMTypeOK, IndexSound
  <1>7. UnusedClean'
    <2>1. Updated(call[c], s).state # "UNUSED"
      BY <1>1, UpdatedSound DEF CallStates
    <2> QED
      BY <1>1, <1>2, <2>1 DEF CMTypeOK, UnusedClean
  <1>8. StampsSound' /\ RanksTight'
    BY <1>3, <1>5, ObjectsGiveInv DEF CMTypeOK
  <1>9. Grown
    <2>1. \A d \in CallIDs : call[d].endedAt \in 0..3
      BY <1>1 DEF SoundObject, CallRecord
    <2> QED
      BY <1>1, <1>2, <2>1, UpdatedSound DEF Grown, CMTypeOK
  <1> QED
    BY <1>5, <1>6, <1>7, <1>8, <1>9 DEF CMInv

\* SetCallChannel keeps the invariant: the entry of the old channel goes, so
\* none is left that leads to a call bound to another channel.
LEMMA SetCallChannelStep ==
  ASSUME CMInv, NEW c \in CallIDs, NEW ch \in Channels \cup {None}, SetCallChannel(c, ch)
  PROVE  CMInv' /\ Grown
  <1>1. /\ CMTypeOK /\ IndexSound /\ UnusedClean
        /\ \A d \in CallIDs : SoundObject(call[d])
    BY SoundObjects DEF CMInv
  <1>2. /\ c \in calls
        /\ call' = [call EXCEPT ![c].channel = ch]
        /\ callsByChannel' = [x \in Channels |-> IF x = ch THEN c
                                                ELSE IF x = call[c].channel THEN None
                                                ELSE callsByChannel[x]]
        /\ UNCHANGED <<calls, callsByRefID, callsByAgent>>
    BY DEF SetCallChannel
  <1>3. /\ call' \in [CallIDs -> CallRecord]
        /\ call'[c].channel = ch
        /\ \A d \in CallIDs : d # c => call'[d] = call[d]
        /\ \A d \in CallIDs :
             /\ call'[d].agentID = call[d].agentID
             /\ call'[d].refID = call[d].refID
             /\ call'[d].state = call[d].state
             /\ call'[d].startedAt = call[d].startedAt
             /\ call'[d].endedAt = call[d].endedAt
    BY <1>1, <1>2 DEF CMTypeOK, CallRecord
  <1>4. call[c].state # "UNUSED"
    BY <1>1, <1>2 DEF UnusedClean
  <1>5. CMTypeOK'
    BY <1>1, <1>2, <1>3 DEF CMTypeOK
  <1>6. IndexSound'
    <2>1. \A r \in RefIDs \cup {None} :
            callsByRefID'[r] # None => /\ callsByRefID'[r] \in calls'
                                       /\ call'[callsByRefID'[r]].refID = r
      BY <1>1, <1>2, <1>3 DEF CMTypeOK, IndexSound
    <2>2. \A a \in AgentIDs :
            callsByAgent'[a] # None => /\ callsByAgent'[a] \in calls'
                                       /\ call'[callsByAgent'[a]].agentID = a
      BY <1>1, <1>2, <1>3 DEF CMTypeOK, IndexSound
    <2>3. \A x \in Channels :
            callsByChannel'[x] # None => /\ callsByChannel'[x] \in calls'
                                         /\ call'[callsByChannel'[x]].channel = x
      BY <1>1, <1>2, <1>3 DEF CMTypeOK, IndexSound
    <2> QED
      BY <2>1, <2>2, <2>3 DEF IndexSound
  <1>7. UnusedClean'
    BY <1>1, <1>2, <1>3, <1>4 DEF CMTypeOK, UnusedClean
  <1>8. StampsSound' /\ RanksTight'
    BY <1>3 DEF CMInv, StampsSound, RanksTight
  <1>9. Grown
    <2>1. \A d \in CallIDs : call[d].endedAt \in 0..3
      BY <1>1 DEF SoundObject, CallRecord
    <2> QED
      BY <1>3, <2>1 DEF Grown
  <1> QED
    BY <1>5, <1>6, <1>7, <1>8, <1>9 DEF CMInv

\* RemoveCall keeps the invariant: it may delete an entry of another call, but
\* leaves none that leads to the removed one.
LEMMA RemoveCallStep ==
  ASSUME CMInv, NEW c \in CallIDs, RemoveCall(c)
  PROVE  CMInv' /\ Grown
  <1>1. CMTypeOK /\ IndexSound /\ UnusedClean
    BY DEF CMInv
  <1>2. /\ calls' = calls \ {c}
        /\ callsByRefID' = [callsByRefID EXCEPT ![call[c].refID] = None]
        /\ callsByAgent' = [callsByAgent EXCEPT ![call[c].agentID] = None]
        /\ callsByChannel' = [x \in Channels |-> IF x = call[c].channel THEN None
                                                ELSE callsByChannel[x]]
        /\ call' = call
    BY DEF RemoveCall
  <1>3. CMTypeOK'
    BY <1>1, <1>2 DEF CMTypeOK
  <1>4. IndexSound'
    BY <1>1, <1>2 DEF CMTypeOK, IndexSound
  <1>5. UnusedClean' /\ StampsSound' /\ RanksTight'
    BY <1>2 DEF CMInv, UnusedClean, StampsSound, RanksTight
  <1>6. Grown
    <2>1. \A d \in CallIDs : call[d].endedAt \in 0..3
      BY <1>1 DEF CMTypeOK, CallRecord
    <2> QED
      BY <1>2, <2>1 DEF Grown
  <1> QED
    BY <1>3, <1>4, <1>5, <1>6 DEF CMInv

\* The overwritten EndedAt is later than the one it replaces.
LEMMA CleanedSound ==
  ASSUME NEW obj, SoundObject(obj), obj.state # "UNUSED"
  PROVE  LET new == [obj EXCEPT !.state = "ENDED", !.endedAt = obj.startedAt + 1]
         IN  SoundObject(new) /\ new.endedAt >= obj.endedAt /\ new.state # "UNUSED"
  <1> DEFINE new == [obj EXCEPT !.state = "ENDED", !.endedAt = obj.startedAt + 1]
  <1>1. obj \in CallRecord /\ obj.endedAt <= obj.startedAt + 1
    BY DEF SoundObject
  <1>2. /\ new.state = "ENDED"
        /\ new.startedAt = obj.startedAt
        /\ new.endedAt = obj.startedAt + 1
    BY <1>1 DEF CallRecord
  <1>3. obj.startedAt \in 0..2 /\ obj.endedAt \in 0..3
    BY <1>1 DEF CallRecord
  <1>4. new \in CallRecord
    <2>1. obj.startedAt + 1 \in 0..3 /\ "ENDED" \in CallStates
      BY <1>3 DEF CallStates
    <2> QED
      BY <1>1, <2>1 DEF CallRecord
  <1> HIDE DEF new
  <1>5. SoundObject(new) /\ new.endedAt >= obj.endedAt
    BY <1>1, <1>2, <1>3, <1>4 DEF SoundObject
  <1> QED
    BY <1>2, <1>5 DEF new

\* CleanupCallsForAgent keeps the invariant: every call of the agent, ended
\* before or not, gets a state and an EndedAt that fit together.
LEMMA CleanupCallsForAgentStep ==
  ASSUME CMInv, NEW a \in AgentIDs, CleanupCallsForAgent(a)
  PROVE  CMInv' /\ Grown
  <1> DEFINE Cleaned(d) == [call[d] EXCEPT !.state = "ENDED", !.endedAt = call[d].startedAt + 1]
  <1>1. /\ CMTypeOK /\ IndexSound /\ UnusedClean
        /\ \A d \in CallIDs : SoundObject(call[d])
    BY SoundObjects DEF CMInv
  <1>2. /\ call' = [d \in CallIDs |-> IF d \in calls /\ call[d].agentID = a
                                     THEN Cleaned(d) ELSE call[d]]
        /\ UNCHANGED <<calls, callsByRefID, callsByAgent, callsByChannel>>
    BY DEF CleanupCallsForAgent
  <1>3. \A d \in calls : d \in CallIDs /\ call[d].state # "UNUSED"
    BY <1>1 DEF CMTypeOK, UnusedClean
  <1>4. \A d \in calls : SoundObject(Cleaned(d)) /\ Cleaned(d).endedAt >= call[d].endedAt
                         /\ Cleaned(d).state # "UNUSED"
    BY <1>1, <1>3, CleanedSound
  <1>5. \A d \in calls : /\ Cleaned(d).agentID = call[d].agentID
                         /\ Cleaned(d).refID = call[d].refID
                         /\ Cleaned(d).channel = call[d].channel
                         /\ Cleaned(d).startedAt = call[d].startedAt
    BY <1>1, <1>3 DEF SoundObject, CallRecord
  <1> HIDE DEF Cleaned
  <1>6. \A d \in CallIDs : SoundObject(call'[d])
    BY <1>1, <1>2, <1>4
  <1>7. \A d \in CallIDs : /\ call'[d].agentID = call[d].agentID
                           /\ call'[d].refID = call[d].refID
                           /\ call'[d].channel = call[d].channel
                           /\ call'[d].startedAt = call[d].startedAt
    BY <1>2, <1>5
  <1>8. CMTypeOK'
    BY <1>1, <1>2, <1>6 DEF CMTypeOK, SoundObject
  <1>9. IndexSound'
    BY <1>1, <1>2, <1>7 DEF CMTypeOK, IndexSound
  <1>10. UnusedClean'
    BY <1>1, <1>2, <1>4 DEF UnusedClean
  <1>11. StampsSound' /\ RanksTight'
    BY <1>6, <1>8, ObjectsGiveInv DEF CMTypeOK
  <1>12. Grown
    <2>1. \A d \in CallIDs : call[d].endedAt \in 0..3
      BY <1>1 DEF SoundObject, CallRecord
    <2> QED
      BY <1>2, <1>4, <1>7, <2>1 DEF Grown
  <1> QED
    BY <1>8, <1>9, <1>10, <1>11, <1>12 DEF CMInv

\* Every method keeps the invariant and moves no stamp back.
LEMMA NextInv ==
  ASSUME CMInv, [CMNext]_cmVars
  PROVE  CMInv' /\ Grown
  <1>1. CASE UNCHANGED cmVars
    <2>1. CMInv'
      BY <1>1 DEF cmVars, CMInv, CMTypeOK, IndexSound, StampsSound, UnusedClean, RanksTight
    <2>2. \A d \in CallIDs : call[d].endedAt \in 0..3
      BY DEF CMInv, CMTypeOK, CallRecord
    <2> QED
      BY <1>1, <2>1, <2>2 DEF cmVars, Grown
  <1>2. ASSUME NEW c \in CallIDs, NEW a \in AgentIDs, NEW r \in RefIDs \cup {None},
               CreateCall(c, a, r)
        PROVE  CMInv' /\ Grown
    BY <1>2, CreateCallStep
  <1>3. ASSUME NEW c \in CallIDs, NEW s \in CallStates, UpdateCallState(c, s)
        PROVE  CMInv' /\ Grown
    BY <1>3, UpdateCallStateStep
  <1>4. ASSUME NEW c \in CallIDs, NEW ch \in Channels \cup {None}, SetCallChannel(c, ch)
        PROVE  CMInv' /\ Grown
    BY <1>4, SetCallChannelStep
  <1>5. ASSUME NEW c \in CallIDs, RemoveCall(c)
        PROVE  CMInv' /\ Grown
    BY <1>5, RemoveCallStep
  <1>6. ASSUME NEW a \in AgentIDs, CleanupCallsForAgent(a)
        PROVE  CMInv' /\ Grown
    BY <1>6, CleanupCallsForAgentStep
  <1> QED
    BY <1>1, <1>2, <1>3, <1>4, <1>5, <1>6 DEF CMNext

\* The invariant holds in every state of the store, whatever its users do.
THEOREM CMInvariance == CMSpec => []CMInv
  <1>1. CMInv /\ [CMNext]_cmVars => CMInv'
    BY NextInv
  <1> QED
    BY InitInv, <1>1, PTL DEF CMSpec

\* The store of calls never leaves its type.
THEOREM TypeCorrect == CMSpec => []CMTypeOK
  <1>1. CMInv => CMTypeOK
    BY DEF CMInv
  <1> QED
    BY CMInvariance, <1>1, PTL

\* No lookup by refId, agent or channel ever hands out a call that was removed
\* or that no longer carries the key.
THEOREM IndexesSound == CMSpec => []IndexSound
  <1>1. CMInv => IndexSound
    BY DEF CMInv
  <1> QED
    BY CMInvariance, <1>1, PTL

\* The stamps a duration is computed from are there when they are needed.
THEOREM StampsAreSound == CMSpec => []StampsSound
  <1>1. CMInv => StampsSound
    BY DEF CMInv
  <1> QED
    BY CMInvariance, <1>1, PTL

\* No method clears a stamp, rewrites a start, or moves an end back.
THEOREM StampsGrow == CMSpec => StampsOnlyGrow
  <1>1. CMInv /\ [CMNext]_cmVars =>
          [\A c \in CallIDs :
             /\ call[c].startedAt # 0 => call'[c].startedAt = call[c].startedAt
             /\ call'[c].endedAt >= call[c].endedAt]_cmVars
    BY NextInv DEF Grown
  <1> QED
    BY CMInvariance, <1>1, PTL DEF CMSpec, StampsOnlyGrow
=============================================================================
