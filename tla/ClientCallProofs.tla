-------------------------- MODULE ClientCallProofs --------------------------
(***************************************************************************)
(* Proofs about ClientCall: type correctness and the safety properties of  *)
(* the calls, for any number of calls and any limits.                      *)
(***************************************************************************)
EXTENDS ClientCall, FiniteSetTheorems, TLAPS

(* The types of what a step of a call changes. *)
CallTypes ==
    /\ pc \in [Calls -> Places]
    /\ result \in [Calls -> Results]
    /\ stream \in [Calls -> Streams]
    /\ registered \subseteq Calls /\ open \subseteq Calls
    /\ woken \subseteq Calls

LEMMA BlankType ==
    /\ Blank \in Streams
    /\ \A b \in BOOLEAN : [Blank EXCEPT !.timer = b] \in Streams
<1>1. Blank \in Streams
    BY DEF Blank, Streams, Errors
<1>2. \A s \in Streams, b \in BOOLEAN : [s EXCEPT !.timer = b] \in Streams
    BY DEF Streams
<1>3. QED
    BY <1>1, <1>2

LEMMA FieldTypes ==
    ASSUME NEW s \in Streams
    PROVE  /\ \A n \in 0 .. 2 : [s EXCEPT !.got = n] \in Streams
           /\ [s EXCEPT !.sent = TRUE] \in Streams
           /\ [s EXCEPT !.reset = TRUE] \in Streams
           /\ \A kind \in {"plain", "http", "type"} :
                 [s EXCEPT !.headers = kind] \in Streams
           /\ \A what \in {"some", "end"} : [s EXCEPT !.read = what] \in Streams
           /\ \A st \in {"OK", "BAD", "absent"} :
                 /\ [s EXCEPT !.status = st] \in Streams
                 /\ [s EXCEPT !.headers = "final", !.status = st] \in Streams
BY DEF Streams, Errors

LEMMA HoldType ==
    ASSUME TypeOK, NEW p \in Calls, NEW s \in Streams, Hold(p, s)
    PROVE  stream' \in [Calls -> Streams] /\ open' \subseteq Calls
BY DEF TypeOK, Hold

LEMMA GotoType ==
    ASSUME TypeOK, NEW p \in Calls, NEW place \in Places, NEW s \in Streams,
           Goto(p, place, s)
    PROVE  CallTypes'
BY HoldType DEF TypeOK, Goto, CallTypes

LEMMA AbortType ==
    ASSUME TypeOK, NEW p \in Calls, NEW error \in Results, Abort(p, error)
    PROVE  CallTypes'
BY BlankType DEF TypeOK, Abort, CallTypes, Places

LEMMA FinishType ==
    ASSUME TypeOK, NEW p \in Calls, NEW error \in Results, Finish(p, error)
    PROVE  CallTypes'
<1>1. Outcome(p, error) \in Results
    BY DEF Outcome, Results
<1>2. pc' \in [Calls -> Places] /\ registered' \subseteq Calls
    BY DEF TypeOK, Finish, Release, Places, Opening
<1>3. open' \subseteq Calls
    BY DEF TypeOK, Finish, CloseStream
<1>4. QED
    BY <1>1, <1>2, <1>3, BlankType DEF TypeOK, Finish, CallTypes

LEMMA EnterType ==
    ASSUME TypeOK, NEW p \in Calls, NEW place \in Places, NEW s \in Streams,
           Enter(p, place, s)
    PROVE  CallTypes'
<1>1. s.error \in Results
    BY DEF Streams, Results
<1>2. QED
    BY <1>1, GotoType, FinishType DEF Enter

LEMMA WrapperCancelType ==
    ASSUME TypeOK, NEW S \in SUBSET Calls, NEW error \in Errors,
           NEW timers \in BOOLEAN, WrapperCancel(S, error, timers)
    PROVE  stream' \in [Calls -> Streams] /\ cancelReq' \subseteq Calls
<1>1. \A s \in Streams :
          [s EXCEPT !.error = error, !.timer = @ /\ ~timers] \in Streams
    BY DEF Streams
<1>2. QED
    BY <1>1 DEF TypeOK, WrapperCancel

LEMMA InitTypeOK == Init => TypeOK
BY CallAssumption, BlankType DEF Init, TypeOK, Places, Results, Errors

(* Every step keeps each variable in its type. *)
LEMMA NextTypeOK == TypeOK /\ [Next]_vars => TypeOK'
<1> SUFFICES ASSUME TypeOK, [Next]_vars PROVE TypeOK'
    OBVIOUS
<1>0. ASSUME CallTypes', UNCHANGED connVars,
             cancelReq' = cancelReq \/ cancelReq' \subseteq cancelReq
      PROVE  TypeOK'
    BY <1>0 DEF TypeOK, CallTypes, connVars
<1>a. /\ Active \cup Opening \subseteq Places /\ "done" \in Places
      /\ Errors \cup {"ok", "status", "cancelled", "failed"} \subseteq Results
    BY DEF Active, Opening, Places, Results
<1>1. CASE LimitChanged
    BY <1>1 DEF LimitChanged, callVars, TypeOK
<1>2. CASE ConnectionTerminated
    BY <1>2, WrapperCancelType DEF ConnectionTerminated, TypeOK, Errors
<1>3. CASE ConnectionLost
    BY <1>3, WrapperCancelType DEF ConnectionLost, TypeOK, Errors
<1>4. CASE KeepaliveTimeout
    BY <1>4 DEF KeepaliveTimeout, callVars, TypeOK
<1>5. CASE PauseWriting
    BY <1>5 DEF PauseWriting, callVars, TypeOK
<1>6. CASE ResumeWriting
    BY <1>6 DEF ResumeWriting, callVars, TypeOK
<1>7. ASSUME NEW p \in Calls,
             TaskStep(p) \/ UserStep(p) \/ PeerStep(p) \/ DeadlineExpired(p)
      PROVE  TypeOK'
    <2>0. stream[p] \in Streams /\ \A n \in 0 .. 2 : Got(p, n) \in Streams
        BY FieldTypes DEF TypeOK, Got
    <2>1. CASE SendRequest(p)
        <3>1. CASE OpenStream(p)
            <4>1. \A end \in BOOLEAN : [stream[p] EXCEPT !.sent = end] \in Streams
                BY <2>0 DEF Streams
            <4>2. stream' \in [Calls -> Streams]
                <5>1. CASE link = "open"
                    <6>1. PICK end \in BOOLEAN :
                              stream' = [stream EXCEPT ![p].sent = end]
                        BY <3>1, <5>1 DEF OpenStream
                    <6>2. [stream[p] EXCEPT !.sent = end] \in Streams
                        BY <4>1
                    <6>3. QED
                        BY <6>1, <6>2 DEF TypeOK
                <5>2. CASE link # "open"
                    BY <3>1, <5>2, BlankType DEF OpenStream, TypeOK
                <5>3. QED
                    BY <5>1, <5>2
            <4>3. QED
                BY <1>0, <1>a, <2>1, <3>1, <4>2
                DEF SendRequest, OpenStream, CallTypes, TypeOK, Active
        <3>2. CASE Goto(p, "noslot", stream[p])
            BY <1>0, <1>a, <2>0, <2>1, <3>2, GotoType DEF SendRequest, Opening
        <3>3. CASE Abort(p, "failed")
            BY <1>0, <1>a, <2>1, <3>3, AbortType DEF SendRequest
        <3>4. QED
            BY <2>1, <3>1, <3>2, <3>3 DEF SendRequest
    <2>2. CASE Written(p)
        BY <1>0, <1>a, <2>0, <2>2, GotoType, FinishType, FieldTypes
        DEF Written, Return, Active
    <2>3. CASE HeadersReceived(p)
        <3>1. /\ stream[p] \in Streams /\ Got(p, 1) \in Streams
              /\ "status" \in Results /\ "ok" \in Results /\ "failed" \in Results
              /\ "body" \in Places /\ "exitTrailers" \in Places
            BY <1>a, <2>0 DEF Active, Places
        <3>2. CASE Finish(p, "status") \/ Finish(p, "failed") \/ Finish(p, "ok")
            BY <1>0, <2>3, <3>1, <3>2, FinishType DEF HeadersReceived
        <3>3. CASE Return(p, Got(p, 1))
            BY <1>0, <2>3, <3>1, <3>3, GotoType DEF HeadersReceived, Return
        <3>4. CASE Enter(p, "exitTrailers", Got(p, 1))
            BY <1>0, <2>3, <3>1, <3>4, EnterType DEF HeadersReceived
        <3>5. QED
            BY <2>3, <3>2, <3>3, <3>4 DEF HeadersReceived, ExitTrailers
    <2>4. CASE TrailersReceived(p)
        BY <1>0, <1>a, <2>0, <2>4, GotoType, FinishType
        DEF TrailersReceived, Return, Active
    <2>41. CASE NoMoreMessages(p)
        BY <1>0, <1>a, <2>0, <2>41, GotoType, FieldTypes
        DEF NoMoreMessages, Read, Return, Active
    <2>42. CASE ReceiveMessage(p)
        BY <1>0, <1>a, <2>0, <2>42, EnterType DEF ReceiveMessage, Active
    <2>43. CASE MessageReceived(p)
        BY <1>0, <1>a, <2>0, <2>43, GotoType, FinishType, FieldTypes
        DEF MessageReceived, Read, Return, Active
    <2>5. CASE Exit(p)
        BY <1>0, <1>a, <2>0, <2>5, FinishType, EnterType
        DEF Exit, ExitTrailers, Active
    <2>6. CASE Cancelled(p)
        <3>1. stream[p].error \in Results /\ "cancelled" \in Results
            BY <1>a, <2>0 DEF Streams
        <3>2. QED
            BY <1>0, <2>6, <3>1, AbortType, FinishType DEF Cancelled, TypeOK
    <2>7. CASE Begin(p)
        BY <1>0, <1>a, <2>7, GotoType, AbortType, BlankType
        DEF Begin, Opening, Errors
    <2>8. CASE SendMessage(p) \/ EndRequest(p) \/ CancelCall(p)
        BY <1>0, <1>a, <2>0, <2>8, GotoType, EnterType
        DEF SendMessage, EndRequest, CancelCall, Active
    <2>9. CASE Receive(p)
        <3>1. CASE Enter(p, "headers", stream[p])
            BY <1>0, <1>a, <2>0, <2>9, <3>1, EnterType DEF Receive, Active
        <3>2. CASE Enter(p, "trailers", stream[p])
            BY <1>0, <1>a, <2>0, <2>9, <3>2, EnterType DEF Receive, Active
        <3>3. CASE Goto(p, "body", Got(p, 2))
            BY <1>0, <1>a, <2>0, <2>9, <3>3, GotoType DEF Receive, Active
        <3>4. QED
            BY <2>9, <3>1, <3>2, <3>3 DEF Receive, Return
    <2>10. CASE Raise(p)
        BY <1>0, <1>a, <2>10, FinishType DEF Raise
    <2>11. CASE UserCancel(p)
        BY <2>11 DEF UserCancel, TypeOK, connVars
    <2>12. CASE ResponseReceived(p)
        BY <2>0, <2>12, HoldType, FieldTypes DEF ResponseReceived, TypeOK, connVars
    <2>13. CASE TrailersEnd(p)
        BY <2>0, <2>13, HoldType, FieldTypes DEF TrailersEnd, TypeOK, connVars
    <2>14. CASE StreamReset(p)
        BY <2>14, WrapperCancelType DEF StreamReset, TypeOK, Errors, connVars
    <2>15. CASE DeadlineExpired(p)
        BY <2>15, WrapperCancelType DEF DeadlineExpired, TypeOK, Errors, connVars
    <2>16. QED
        BY <1>7, <2>1, <2>2, <2>3, <2>4, <2>41, <2>42, <2>43, <2>5, <2>6, <2>7,
           <2>8, <2>9, <2>10, <2>11, <2>12, <2>13, <2>14, <2>15
        DEF TaskStep, UserStep, PeerStep
<1>8. CASE UNCHANGED vars
    BY <1>8 DEF vars, callVars, connVars, TypeOK
<1>9. QED
    BY <1>1, <1>2, <1>3, <1>4, <1>5, <1>6, <1>7, <1>8 DEF Next, ConnectionStep

(* Type correctness of the model, for all constants. *)
THEOREM TypeCorrect == Spec => []TypeOK
BY InitTypeOK, NextTypeOK, PTL DEF Spec

-----------------------------------------------------------------------------
(* The inductive invariant CallInv, one lemma for each piece of a step.     *)

LEMMA InitCallInv == Init => CallInv
BY DEF Init, CallInv, ActiveAreRegistered, ClosedByGoaway, StatusOfActive,
       SlotsFreed, SlotIsComing, CloseCancelsCalls, Active, Blank

LEMMA FieldErrors ==
    ASSUME NEW s \in Streams
    PROVE  /\ \A n \in 0 .. 2 : [s EXCEPT !.got = n].error = s.error
           /\ [s EXCEPT !.sent = TRUE].error = s.error
           /\ [s EXCEPT !.reset = TRUE].error = s.error
           /\ \A what : [s EXCEPT !.read = what].error = s.error
           /\ \A st : /\ [s EXCEPT !.headers = st].error = s.error
                      /\ [s EXCEPT !.status = st].error = s.error
                      /\ [s EXCEPT !.headers = "final", !.status = st].error = s.error
BY DEF Streams

(* A limit that is reached is reached by an open stream. *)
LEMMA LimitMeansOpen ==
    ASSUME TypeOK, 0 \notin Limits, Cardinality(open) >= limit
    PROVE  open # {}
<1>1. limit \in Nat /\ limit # 0
    BY CallAssumption DEF TypeOK
<1>2. Cardinality({}) = 0
    BY FS_EmptySet
<1>3. QED
    BY <1>1, <1>2

LEMMA FinishInv ==
    ASSUME TypeOK, CallInv, NEW p \in Calls, pc[p] \in Active, NEW error,
           Finish(p, error), UNCHANGED connVars,
           cancelReq' = cancelReq \/ cancelReq' = cancelReq \ {p}
    PROVE  CallInv'
<1> USE DEF CallInv, TypeOK, Finish, connVars
<1>0. /\ \A q \in Calls : pc'[q] = IF q = p THEN "done"
                                    ELSE IF pc[q] = "noslot" THEN "top" ELSE pc[q]
      /\ registered' = registered \ {p}
      /\ \A q \in Calls : q # p => stream'[q] = stream[q]
      /\ stream'[p] = Blank
    BY DEF Release
<1>1. ActiveAreRegistered' /\ ClosedByGoaway'
    BY <1>0 DEF ActiveAreRegistered, ClosedByGoaway, Active
<1>2. StatusOfActive'
    BY <1>0 DEF StatusOfActive, Active, Blank
<1>3. SlotsFreed'
    BY <1>0 DEF SlotsFreed, CloseStream, ClosedByGoaway
<1>4. SlotIsComing'
    BY <1>0 DEF SlotIsComing
<1>5. CloseCancelsCalls'
    BY <1>0 DEF CloseCancelsCalls, InWrapper, Places, ActiveAreRegistered, Active
<1>6. QED
    BY <1>1, <1>2, <1>3, <1>4, <1>5

LEMMA GotoInv ==
    ASSUME TypeOK, CallInv, NEW p \in Calls, pc[p] \in Active,
           NEW place \in Active, NEW s \in Streams,
           s.error = stream[p].error,
           s.error = "none" \/ place \in {"body", "ending"},
           Goto(p, place, s), UNCHANGED <<cancelReq, connVars>>
    PROVE  CallInv'
<1> USE DEF CallInv, TypeOK, Goto, Hold, connVars
<1>1. ActiveAreRegistered' /\ ClosedByGoaway'
    BY DEF ActiveAreRegistered, ClosedByGoaway, Active
<1>2. StatusOfActive'
    BY DEF StatusOfActive, Active
<1>3. SlotsFreed' /\ SlotIsComing'
    BY DEF SlotsFreed, SlotIsComing, Active
<1>4. CloseCancelsCalls'
    BY DEF CloseCancelsCalls, InWrapper, Active, ActiveAreRegistered
<1>5. QED
    BY <1>1, <1>2, <1>3, <1>4

LEMMA EnterInv ==
    ASSUME TypeOK, CallInv, NEW p \in Calls, pc[p] \in Active,
           NEW place \in Active, NEW s \in Streams,
           s.error = stream[p].error,
           Enter(p, place, s), UNCHANGED <<cancelReq, connVars>>
    PROVE  CallInv'
<1>1. CASE s.error = "none" /\ Goto(p, place, s)
    BY <1>1, GotoInv
<1>2. CASE s.error # "none" /\ Finish(p, s.error)
    BY <1>2, FinishInv
<1>3. QED
    BY <1>1, <1>2 DEF Enter

LEMMA AbortInv ==
    ASSUME TypeOK, CallInv, NEW p \in Calls, pc[p] \in Opening \cup {"new"},
           NEW error, Abort(p, error), UNCHANGED connVars,
           cancelReq' = cancelReq \/ cancelReq' = cancelReq \ {p}
    PROVE  CallInv'
<1> USE DEF CallInv, TypeOK, Abort, connVars, Opening
<1>1. ActiveAreRegistered' /\ ClosedByGoaway'
    BY DEF ActiveAreRegistered, ClosedByGoaway, Active
<1>2. StatusOfActive'
    BY DEF StatusOfActive, Active, Blank
<1>3. SlotsFreed' /\ SlotIsComing'
    BY DEF SlotsFreed, SlotIsComing
<1>4. CloseCancelsCalls'
    BY DEF CloseCancelsCalls, InWrapper, ActiveAreRegistered, Active
<1>5. QED
    BY <1>1, <1>2, <1>3, <1>4

(* Wrapper.cancel() of registered calls.  When it is the whole connection that
   closes, it is of all of them. *)
LEMMA WrapperCancelInv ==
    ASSUME TypeOK, CallInv, NEW S \in SUBSET Calls, NEW error \in Errors \ {"none"},
           NEW timers \in BOOLEAN, WrapperCancel(S, error, timers),
           UNCHANGED <<pc, registered>>, open' \subseteq open,
           link' = link \/ (link' \in {"closed", "lost"} /\ S = registered),
           goaway' => goaway \/ link' # "open",
           link' = "open" => link = "open"
    PROVE  CallInv'
<1> USE DEF CallInv, TypeOK
<1>0. \A q \in Calls : /\ stream'[q].status = stream[q].status
                       /\ stream'[q].headers = stream[q].headers
                       /\ stream'[q].error = IF q \in S THEN error
                                             ELSE stream[q].error
    BY DEF WrapperCancel, Streams
<1>1. ActiveAreRegistered' /\ ClosedByGoaway'
    BY DEF ActiveAreRegistered, ClosedByGoaway
<1>2. StatusOfActive'
    BY <1>0 DEF StatusOfActive
<1>3. SlotsFreed' /\ SlotIsComing'
    BY DEF SlotsFreed, SlotIsComing
<1>4. CloseCancelsCalls'
    BY <1>0 DEF CloseCancelsCalls, InWrapper, WrapperCancel
<1>5. QED
    BY <1>1, <1>2, <1>3, <1>4

(* The server's answer to a call. *)
LEMMA HoldInv ==
    ASSUME TypeOK, CallInv, NEW p \in registered, link = "open",
           NEW s \in Streams, s.error = stream[p].error,
           Hold(p, s), UNCHANGED <<pc, cancelReq, registered, connVars>>
    PROVE  CallInv'
BY DEF CallInv, TypeOK, Hold, connVars, ActiveAreRegistered, ClosedByGoaway,
       StatusOfActive, SlotsFreed, SlotIsComing, CloseCancelsCalls

LEMMA NextCallInv == TypeOK /\ CallInv /\ [Next]_vars => CallInv'
<1> SUFFICES ASSUME TypeOK, CallInv, [Next]_vars PROVE CallInv'
    OBVIOUS
<1>0. ASSUME UNCHANGED <<pc, stream, registered, open>>, goaway' = goaway,
             link' = link \/ (link = "open" /\ link' = "silent"),
             cancelReq \subseteq cancelReq'
      PROVE  CallInv'
    BY <1>0 DEF CallInv, ActiveAreRegistered, ClosedByGoaway, StatusOfActive,
                SlotsFreed, SlotIsComing, CloseCancelsCalls, InWrapper
<1>1. CASE LimitChanged
    BY <1>0, <1>1 DEF LimitChanged, callVars
<1>2. CASE ConnectionTerminated
    BY <1>2, WrapperCancelInv DEF ConnectionTerminated, TypeOK, Errors
<1>3. CASE ConnectionLost
    BY <1>3, WrapperCancelInv DEF ConnectionLost, TypeOK, Errors
<1>4. CASE KeepaliveTimeout
    BY <1>0, <1>4 DEF KeepaliveTimeout, callVars
<1>5. CASE PauseWriting
    BY <1>0, <1>5 DEF PauseWriting, callVars
<1>6. CASE ResumeWriting
    BY <1>0, <1>6 DEF ResumeWriting, callVars
<1>7. ASSUME NEW p \in Calls,
             TaskStep(p) \/ UserStep(p) \/ PeerStep(p) \/ DeadlineExpired(p)
      PROVE  CallInv'
    <2>0. /\ stream[p] \in Streams
          /\ \A n \in 0 .. 2 : /\ Got(p, n) \in Streams
                               /\ Got(p, n).error = stream[p].error
        BY FieldTypes, FieldErrors DEF TypeOK, Got
    <2>a. ASSUME pc[p] \in Active, NEW error, Finish(p, error),
                 UNCHANGED <<cancelReq, connVars>>
          PROVE  CallInv'
        BY <2>a, FinishInv
    <2>b. ASSUME pc[p] \in Active, NEW s \in Streams, s.error = stream[p].error,
                 Return(p, s), UNCHANGED <<cancelReq, connVars>>
          PROVE  CallInv'
        BY <2>b, GotoInv DEF Return, Active
    <2>1. CASE SendRequest(p)
        <3>1. CASE OpenStream(p)
            <4> USE <2>1, <3>1
                DEF SendRequest, OpenStream, Runs, CallInv, TypeOK, connVars
            <4>0. /\ \A q \in Calls : q # p => stream'[q] = stream[q]
                  /\ stream'[p] = Blank \/ stream'[p].error = stream[p].error
                BY DEF Streams
            <4>1. ActiveAreRegistered' /\ ClosedByGoaway'
                BY DEF ActiveAreRegistered, ClosedByGoaway, Active
            <4>2. StatusOfActive'
                BY <4>0 DEF StatusOfActive, Active, Blank
            <4>3. SlotsFreed' /\ SlotIsComing'
                BY DEF SlotsFreed, SlotIsComing
            <4>4. CloseCancelsCalls'
                BY DEF CloseCancelsCalls, InWrapper
            <4>5. QED
                BY <4>1, <4>2, <4>3, <4>4
        <3>2. CASE Cardinality(open) >= limit /\ Goto(p, "noslot", stream[p])
            <4> USE <2>1, <3>2
                DEF SendRequest, Runs, Goto, Hold, CallInv, TypeOK, connVars
            <4>1. ActiveAreRegistered' /\ ClosedByGoaway'
                BY DEF ActiveAreRegistered, ClosedByGoaway, Active
            <4>2. StatusOfActive' /\ SlotsFreed'
                BY DEF StatusOfActive, SlotsFreed, Active
            <4>3. SlotIsComing'
                BY LimitMeansOpen DEF SlotsFreed, SlotIsComing
            <4>4. CloseCancelsCalls'
                BY DEF CloseCancelsCalls, InWrapper, ActiveAreRegistered, Active
            <4>5. QED
                BY <4>1, <4>2, <4>3, <4>4
        <3>3. CASE Abort(p, "failed")
            BY <2>1, <3>3, AbortInv DEF SendRequest, Runs, Opening
        <3>4. QED
            BY <2>1, <3>1, <3>2, <3>3 DEF SendRequest
    <2>2. CASE Written(p)
        <3>1. /\ [stream[p] EXCEPT !.sent = TRUE] \in Streams
              /\ [stream[p] EXCEPT !.reset = TRUE] \in Streams
              /\ [stream[p] EXCEPT !.sent = TRUE].error = stream[p].error
              /\ [stream[p] EXCEPT !.reset = TRUE].error = stream[p].error
            BY <2>0, FieldTypes, FieldErrors
        <3>2. pc[p] \in Active
            BY <2>2 DEF Written, Runs, Active
        <3>3. QED
            BY <2>0, <2>a, <2>b, <2>2, <3>1, <3>2 DEF Written
    <2>c. ASSUME pc[p] \in Active, ExitTrailers(p), UNCHANGED <<cancelReq, connVars>>
          PROVE  CallInv'
        BY <2>0, <2>a, <2>c, EnterInv DEF ExitTrailers, Active
    <2>3. CASE HeadersReceived(p)
        <3>1. pc[p] \in Active
            BY <2>3 DEF HeadersReceived, Runs, Active
        <3>2. CASE Finish(p, "status")
            BY <2>a, <2>3, <3>1, <3>2 DEF HeadersReceived
        <3>3. CASE Return(p, Got(p, 1))
            BY <2>0, <2>b, <2>3, <3>1, <3>3 DEF HeadersReceived
        <3>4. CASE ExitTrailers(p)
            BY <2>c, <2>3, <3>1, <3>4 DEF HeadersReceived
        <3>5. QED
            BY <2>3, <3>2, <3>3, <3>4 DEF HeadersReceived
    <2>4. CASE TrailersReceived(p)
        BY <2>0, <2>a, <2>b, <2>4 DEF TrailersReceived, Runs, Active
    <2>d. \A what \in {"some", "end"} :
              Read(p, what) \in Streams /\ Read(p, what).error = stream[p].error
        BY <2>0, FieldTypes, FieldErrors DEF Read
    <2>41. CASE NoMoreMessages(p)
        BY <2>b, <2>d, <2>41 DEF NoMoreMessages, Runs, Active
    <2>42. CASE ReceiveMessage(p)
        BY <2>0, <2>42, EnterInv DEF ReceiveMessage, Runs, Active
    <2>43. CASE MessageReceived(p)
        BY <2>a, <2>b, <2>d, <2>43 DEF MessageReceived, Runs, Active
    <2>5. CASE Exit(p)
        <3>1. pc[p] \in Active /\ "exitHeaders" \in Active
            BY <2>5 DEF Exit, Runs, Active
        <3>2. QED
            BY <2>0, <2>a, <2>c, <2>5, <3>1, EnterInv DEF Exit
    <2>6. CASE Cancelled(p)
        BY <2>6, AbortInv, FinishInv DEF Cancelled
    <2>7. CASE Begin(p)
        <3>1. ASSUME NEW timer \in BOOLEAN, link = "open",
                     Goto(p, "top", [Blank EXCEPT !.timer = timer])
              PROVE  CallInv'
            <4> USE <2>7, <3>1 DEF Begin, Goto, Hold, CallInv, TypeOK, connVars
            <4>0. /\ [Blank EXCEPT !.timer = timer].status = "none"
                  /\ [Blank EXCEPT !.timer = timer].headers = "none"
                BY DEF Blank
            <4>1. ActiveAreRegistered' /\ ClosedByGoaway'
                BY DEF ActiveAreRegistered, ClosedByGoaway, Active
            <4>2. StatusOfActive' /\ SlotsFreed' /\ SlotIsComing'
                BY <4>0 DEF StatusOfActive, SlotsFreed, SlotIsComing, Active
            <4>3. CloseCancelsCalls'
                BY DEF CloseCancelsCalls
            <4>4. QED
                BY <4>1, <4>2, <4>3
        <3>2. QED
            BY <2>7, <3>1, AbortInv DEF Begin
    <2>8. CASE SendMessage(p) \/ EndRequest(p) \/ CancelCall(p)
        <3>1. pc[p] \in Active /\ {"sending", "resetting", "ending"} \subseteq Active
            BY <2>8 DEF SendMessage, EndRequest, CancelCall, Runs, Active
        <3>2. QED
            BY <2>0, <2>8, <3>1, EnterInv, GotoInv DEF SendMessage, EndRequest, CancelCall
    <2>9. CASE Receive(p)
        <3>1. pc[p] \in Active /\ {"headers", "trailers"} \subseteq Active
            BY <2>9 DEF Receive, Runs, Active
        <3>2. CASE Enter(p, "headers", stream[p])
            BY <2>0, <2>9, <3>1, <3>2, EnterInv DEF Receive
        <3>3. CASE Enter(p, "trailers", stream[p])
            BY <2>0, <2>9, <3>1, <3>3, EnterInv DEF Receive
        <3>4. CASE Return(p, Got(p, 2))
            BY <2>0, <2>b, <2>9, <3>1, <3>4 DEF Receive
        <3>5. QED
            BY <2>9, <3>2, <3>3, <3>4 DEF Receive
    <2>10. CASE Raise(p)
        BY <2>a, <2>10 DEF Raise, Runs, Active
    <2>11. CASE UserCancel(p)
        BY <1>0, <2>11 DEF UserCancel, connVars
    <2>12. CASE ResponseReceived(p)
        BY <2>0, <2>12, HoldInv, FieldTypes, FieldErrors DEF ResponseReceived
    <2>13. CASE TrailersEnd(p)
        BY <2>0, <2>13, HoldInv, FieldTypes, FieldErrors DEF TrailersEnd
    <2>14. CASE StreamReset(p)
        BY <2>14, WrapperCancelInv DEF StreamReset, Errors, connVars
    <2>15. CASE DeadlineExpired(p)
        BY <2>15, WrapperCancelInv DEF DeadlineExpired, Errors, connVars
    <2>16. QED
        BY <1>7, <2>1, <2>2, <2>3, <2>4, <2>41, <2>42, <2>43, <2>5, <2>6, <2>7,
           <2>8, <2>9, <2>10, <2>11, <2>12, <2>13, <2>14, <2>15
        DEF TaskStep, UserStep, PeerStep
<1>8. CASE UNCHANGED vars
    BY <1>0, <1>8 DEF vars, callVars, connVars
<1>9. QED
    BY <1>1, <1>2, <1>3, <1>4, <1>5, <1>6, <1>7, <1>8 DEF Next, ConnectionStep

LEMMA CallInvHolds == Spec => [](TypeOK /\ CallInv)
BY InitTypeOK, NextTypeOK, InitCallInv, NextCallInv, PTL DEF Spec

(* While the connection lives, exactly the calls between their request and their
   exit are registered. *)
THEOREM StreamsAreReleased == Spec => []StreamsReleased
<1>1. TypeOK /\ CallInv => StreamsReleased
    BY DEF TypeOK, CallInv, ActiveAreRegistered, StreamsReleased, Active
<1>2. QED
    BY <1>1, CallInvHolds, PTL

(* No call leaves an open stream behind it on a living connection. *)
THEOREM SlotsAreFreed == Spec => []SlotsFreed
<1>1. CallInv => SlotsFreed
    BY DEF CallInv
<1>2. QED
    BY <1>1, CallInvHolds, PTL

(* A call that waits for a stream has a running call to wake it, whatever the
   limits, if none is 0. *)
THEOREM WaiterIsWoken == Spec => []SlotIsComing
<1>1. CallInv => SlotIsComing
    BY DEF CallInv
<1>2. QED
    BY <1>1, CallInvHolds, PTL

(* Closing the processor cancels every registered call. *)
THEOREM CloseCancels == Spec => []CloseCancelsCalls
<1>1. CallInv => CloseCancelsCalls
    BY DEF CallInv
<1>2. QED
    BY <1>1, CallInvHolds, PTL

-----------------------------------------------------------------------------
(* What a call has read of its answer, see AnswerRead and LeftWhenRead.    *)

Answered(s) ==
    /\ s.headers = "none" => s.got = 0 /\ s.status = "none"
    /\ s.headers = "final" => s.status \in {"OK", "BAD"}
    /\ s.got > 0 /\ s.headers = "final" => s.status = "OK"
    /\ s.got = 2 => s.status = "OK"

Exits == {"exitHeaders", "exitTrailers"}

HasRead(p, s) ==
    p \in Generated => s.read = "end" \/ (p \notin Replying /\ s.read = "some")

ReadInv == AnswerRead /\ LeftWhenRead

(* It is enough to look at the calls one by one. *)
LEMMA ReadOneByOne ==
    ASSUME \A q \in Calls : /\ Answered(stream'[q])
                            /\ pc'[q] \in Exits => HasRead(q, stream'[q])
    PROVE  ReadInv'
BY DEF Answered, HasRead, Exits, ReadInv, AnswerRead, LeftWhenRead, MayLeave

LEMMA ReadOfAll ==
    ASSUME ReadInv
    PROVE  \A q \in Calls : /\ Answered(stream[q])
                            /\ pc[q] \in Exits => HasRead(q, stream[q])
BY DEF Answered, HasRead, Exits, ReadInv, AnswerRead, LeftWhenRead, MayLeave

LEMMA BlankAnswered == Answered(Blank)
BY DEF Answered, Blank

(* What a step writes to its own call is enough. *)
LEMMA ReadStep ==
    ASSUME TypeOK, ReadInv, NEW p \in Calls, NEW place, NEW s,
           stream' = [stream EXCEPT ![p] = s], pc' = [pc EXCEPT ![p] = place],
           Answered(s), place \in Exits => HasRead(p, s)
    PROVE  ReadInv'
BY ReadOneByOne, ReadOfAll DEF TypeOK

LEMMA FinishRead ==
    ASSUME TypeOK, ReadInv, NEW p \in Calls, NEW error, Finish(p, error)
    PROVE  ReadInv'
<1>1. \A q \in Calls : stream'[q] = IF q = p THEN Blank ELSE stream[q]
    BY DEF Finish, TypeOK
<1>2. \A q \in Calls : pc'[q] \in Exits => pc[q] \in Exits /\ q # p
    BY DEF Finish, Release, Exits
<1>3. QED
    BY <1>1, <1>2, ReadOneByOne, ReadOfAll, BlankAnswered

LEMMA AbortRead ==
    ASSUME TypeOK, ReadInv, NEW p \in Calls, NEW error, Abort(p, error)
    PROVE  ReadInv'
BY ReadStep, BlankAnswered DEF Abort, Exits

LEMMA GotoRead ==
    ASSUME TypeOK, ReadInv, NEW p \in Calls, NEW place, NEW s, Goto(p, place, s),
           Answered(s), place \in Exits => HasRead(p, s)
    PROVE  ReadInv'
BY ReadStep DEF Goto, Hold

LEMMA EnterRead ==
    ASSUME TypeOK, ReadInv, NEW p \in Calls, NEW place, NEW s, Enter(p, place, s),
           Answered(s), place \in Exits => HasRead(p, s)
    PROVE  ReadInv'
BY GotoRead, FinishRead DEF Enter

LEMMA HoldRead ==
    ASSUME TypeOK, ReadInv, NEW p \in Calls, NEW s, Hold(p, s), UNCHANGED pc,
           Answered(s), s.read = stream[p].read
    PROVE  ReadInv'
<1>1. pc[p] \in Exits => HasRead(p, s)
    BY ReadOfAll DEF HasRead
<1>2. QED
    BY <1>1, ReadOneByOne, ReadOfAll DEF Hold, TypeOK

LEMMA WrapperCancelRead ==
    ASSUME TypeOK, ReadInv, NEW S, NEW error, NEW timers,
           WrapperCancel(S, error, timers), UNCHANGED pc
    PROVE  ReadInv'
<1>1. \A q \in Calls : /\ stream'[q].headers = stream[q].headers
                       /\ stream'[q].status = stream[q].status
                       /\ stream'[q].got = stream[q].got
                       /\ stream'[q].read = stream[q].read
    BY DEF WrapperCancel, TypeOK, Streams
<1>2. QED
    BY <1>1, ReadOneByOne, ReadOfAll DEF Answered, HasRead

(* What the steps write keeps an answer what it is. *)
LEMMA FieldsAnswered ==
    ASSUME NEW s \in Streams, Answered(s)
    PROVE  /\ \A b \in BOOLEAN : Answered([s EXCEPT !.sent = b])
           /\ Answered([s EXCEPT !.reset = TRUE])
           /\ \A what : Answered([s EXCEPT !.read = what])
           /\ s.headers = "final" => s.status # "none"
           /\ s.headers # "none" /\ s.status # "BAD" => Answered([s EXCEPT !.got = 1])
           /\ s.status = "OK" => Answered([s EXCEPT !.got = 2])
           /\ s.got = 1 /\ s.headers = "final" => Answered([s EXCEPT !.got = 2])
           /\ s.headers # "none" /\ s.status = "none" => \A st \in {"OK", "BAD", "absent"} :
                  Answered([s EXCEPT !.status = st])
           /\ s.headers = "none" =>
                  /\ \A kind \in {"plain", "http", "type"} :
                        Answered([s EXCEPT !.headers = kind])
                  /\ \A st \in {"OK", "BAD"} :
                        Answered([s EXCEPT !.headers = "final", !.status = st])
BY DEF Streams, Answered

(* What the server sends is not what was read. *)
LEMMA FieldsUnread ==
    ASSUME NEW s \in Streams
    PROVE  \A v : /\ [s EXCEPT !.headers = v].read = s.read
                 /\ [s EXCEPT !.status = v].read = s.read
                 /\ [s EXCEPT !.headers = "final", !.status = v].read = s.read
BY DEF Streams

LEMMA NextRead == TypeOK /\ CallInv /\ ReadInv /\ [Next]_vars => ReadInv'
<1> SUFFICES ASSUME TypeOK, CallInv, ReadInv, [Next]_vars PROVE ReadInv'
    OBVIOUS
<1>0. ASSUME UNCHANGED <<pc, stream>> PROVE ReadInv'
    BY <1>0, ReadOneByOne, ReadOfAll
<1>1. CASE ConnectionStep
    <2>1. CASE ConnectionTerminated \/ ConnectionLost
        BY <2>1, WrapperCancelRead DEF ConnectionTerminated, ConnectionLost
    <2>2. QED
        BY <1>0, <1>1, <2>1 DEF ConnectionStep, LimitChanged, KeepaliveTimeout,
            PauseWriting, ResumeWriting, callVars
<1>2. ASSUME NEW p \in Calls,
             TaskStep(p) \/ UserStep(p) \/ PeerStep(p) \/ DeadlineExpired(p)
      PROVE  ReadInv'
    <2>0. stream[p] \in Streams /\ Answered(stream[p])
        BY ReadOfAll DEF TypeOK
    <2> USE <2>0, GotoRead, EnterRead, FinishRead, AbortRead, FieldsAnswered
    <2> DEFINE mine == stream[p]
    <2>1. CASE SendRequest(p)
        <3>1. CASE OpenStream(p)
            <4>1. CASE link = "open"
                <5>1. PICK end \in BOOLEAN : stream' = [stream EXCEPT ![p].sent = end]
                    BY <3>1, <4>1 DEF OpenStream
                <5>2. stream' = [stream EXCEPT ![p] = [mine EXCEPT !.sent = end]]
                    BY <5>1 DEF TypeOK
                <5>3. Answered([mine EXCEPT !.sent = end])
                    OBVIOUS
                <5>4. QED
                    BY <3>1, <4>1, <5>2, <5>3, ReadStep DEF OpenStream, Exits
            <4>2. CASE link # "open"
                BY <3>1, <4>2, ReadStep, BlankAnswered DEF OpenStream, Exits
            <4>3. QED
                BY <4>1, <4>2
        <3>2. QED
            BY <2>1, <3>1 DEF SendRequest, Exits
    <2>2. CASE Written(p)
        BY <2>2 DEF Written, Return, Exits
    <2>3. ASSUME ExitTrailers(p), HasRead(p, mine), Answered(Got(p, 1)) PROVE ReadInv'
        <3>1. HasRead(p, Got(p, 1))
            BY <2>3 DEF HasRead, Got, Streams
        <3>2. QED
            BY <2>3, <3>1 DEF ExitTrailers
    <2>4. CASE HeadersReceived(p)
        <3>1. CASE Finish(p, "status")
            BY <3>1
        <3>2. CASE ~(mine.headers = "final" /\ BadStatus(p))
            <4>1. Answered(Got(p, 1))
                BY <2>4, <3>2 DEF HeadersReceived, HasHeaders, BadStatus, Got, Answered, Streams
            <4>2. pc[p] = "exitHeaders" => HasRead(p, mine)
                BY ReadOfAll DEF Exits
            <4>3. QED
                BY <2>3, <2>4, <3>1, <4>1, <4>2 DEF HeadersReceived, Return, Exits
        <3>3. QED
            BY <2>4, <3>1, <3>2 DEF HeadersReceived
    <2>5. CASE TrailersReceived(p)
        BY <2>5 DEF TrailersReceived, Return, Exits, Got
    <2>6. CASE NoMoreMessages(p)
        BY <2>6 DEF NoMoreMessages, Return, Exits, Read
    <2>7. CASE Exit(p)
        <3>1. HasRead(p, mine)
            BY <2>7 DEF Exit, MayLeave, HasRead
        <3>2. mine.got = 1 => Answered(Got(p, 1))
            BY DEF Got, Answered, Streams
        <3>3. QED
            BY <2>3, <2>7, <3>1, <3>2 DEF Exit
    <2>8. CASE Cancelled(p)
        BY <2>8 DEF Cancelled
    <2>9. CASE Begin(p)
        <3>1. \A timer \in BOOLEAN : Answered([Blank EXCEPT !.timer = timer])
            BY DEF Blank, Answered
        <3>2. QED
            BY <2>9, <3>1 DEF Begin, Exits
    <2>10. CASE SendMessage(p) \/ EndRequest(p) \/ CancelCall(p)
        BY <2>10 DEF SendMessage, EndRequest, CancelCall, Exits
    <2>11. CASE Receive(p)
        BY <2>11 DEF Receive, Return, Exits, Got
    <2>12. CASE ReceiveMessage(p)
        BY <2>12 DEF ReceiveMessage, Exits
    <2>13. CASE Raise(p) \/ UserCancel(p)
        BY <1>0, <2>13 DEF Raise, UserCancel
    <2>14. CASE ResponseReceived(p)
        BY <2>14, HoldRead, FieldsUnread DEF ResponseReceived
    <2>15. CASE MessageReceived(p)
        BY <2>15 DEF MessageReceived, Return, Exits, Read
    <2>16. CASE TrailersEnd(p)
        BY <2>16, HoldRead, FieldsUnread DEF TrailersEnd
    <2>17. CASE StreamReset(p) \/ DeadlineExpired(p)
        BY <2>17, WrapperCancelRead DEF StreamReset, DeadlineExpired
    <2>18. QED
        BY <1>2, <2>1, <2>2, <2>4, <2>5, <2>6, <2>7, <2>8, <2>9, <2>10, <2>11,
           <2>12, <2>13, <2>14, <2>15, <2>16, <2>17
        DEF TaskStep, UserStep, PeerStep
<1>3. CASE UNCHANGED vars
    BY <1>0, <1>3 DEF vars, callVars
<1>4. QED
    BY <1>1, <1>2, <1>3 DEF Next

LEMMA InitRead == Init => ReadInv
BY DEF Init, ReadInv, AnswerRead, LeftWhenRead, Blank

LEMMA ReadInvHolds == Spec => []ReadInv
<1>1. Init => ReadInv
    BY InitRead
<1>2. QED
    BY <1>1, NextRead, CallInvHolds, PTL DEF Spec

-----------------------------------------------------------------------------
(* Where cancellations come from and what becomes of them, see WrapperInv. *)

(* What WrapperInv says of a call at a place, with what its objects hold and
   with a CancelledError on its way or not. *)
Inside(place) == place \in Places \ {"new", "done", "body", "ending"}

Running(place) == place \notin {"new", "done"}

Wrapped(p, place, s, cancelled) ==
    /\ Inside(place) /\ s.error # "none" => cancelled
    /\ cancelled /\ p \notin Cancelling => Inside(place) /\ s.error # "none"
    /\ s.timer \/ s.error = "timeout" => p \in Timed
    /\ s.timer => Running(place)

SameWrapper(s, t) == s.error = t.error /\ s.timer = t.timer

LEMMA WrappedOneByOne ==
    ASSUME cancelReq' \subseteq Calls,
           \A q \in Calls : Wrapped(q, pc'[q], stream'[q], q \in cancelReq')
    PROVE  WrapperInv'
BY DEF Wrapped, Inside, Running, WrapperInv, WrapperIsHeeded, OnlyUsersCancel,
       TimersOfTimed, InWrapper

LEMMA WrappedOfAll ==
    ASSUME WrapperInv, NEW q \in Calls
    PROVE  Wrapped(q, pc[q], stream[q], q \in cancelReq)
BY DEF Wrapped, Inside, Running, WrapperInv, WrapperIsHeeded, OnlyUsersCancel,
       TimersOfTimed, InWrapper

(* What a step writes to its own call is enough. *)
LEMMA WrappedStep ==
    ASSUME TypeOK, WrapperInv, NEW p \in Calls, NEW place, NEW s,
           stream' = [stream EXCEPT ![p] = s], pc' = [pc EXCEPT ![p] = place],
           UNCHANGED cancelReq, Wrapped(p, place, s, p \in cancelReq)
    PROVE  WrapperInv'
<1>1. \A q \in Calls : Wrapped(q, pc'[q], stream'[q], q \in cancelReq')
    BY WrappedOfAll DEF TypeOK
<1> QED
    BY <1>1, WrappedOneByOne DEF TypeOK

LEMMA BlankWrapped ==
    ASSUME NEW p, NEW place, NEW cancelled, cancelled => p \in Cancelling
    PROVE  /\ Wrapped(p, place, Blank, cancelled)
           /\ \A timer \in BOOLEAN : (timer => p \in Timed /\ Running(place)) =>
                 Wrapped(p, place, [Blank EXCEPT !.timer = timer], cancelled)
BY DEF Wrapped, Blank

(* A call that ends takes its CancelledError with it. *)
LEMMA EndWrapped ==
    ASSUME TypeOK, WrapperInv, NEW p \in Calls,
           cancelReq' \subseteq cancelReq \ {p}, cancelReq \ {p} \subseteq cancelReq',
           stream' = [stream EXCEPT ![p] = Blank], pc'[p] = "done",
           \A q \in Calls \ {p} : /\ Inside(pc'[q]) <=> Inside(pc[q])
                                  /\ Running(pc[q]) => Running(pc'[q])
    PROVE  WrapperInv'
<1>1. Wrapped(p, pc'[p], stream'[p], p \in cancelReq')
    BY BlankWrapped DEF TypeOK, Wrapped, Inside, Blank
<1>2. ASSUME NEW q \in Calls, q # p
      PROVE  Wrapped(q, pc'[q], stream'[q], q \in cancelReq')
    <2>1. stream'[q] = stream[q] /\ (q \in cancelReq' <=> q \in cancelReq)
        BY <1>2 DEF TypeOK
    <2>2. Inside(pc'[q]) <=> Inside(pc[q])
        BY <1>2
    <2>3. Running(pc[q]) => Running(pc'[q])
        BY <1>2
    <2> QED
        BY <2>1, <2>2, <2>3, WrappedOfAll DEF Wrapped
<1> QED
    BY <1>1, <1>2, WrappedOneByOne DEF TypeOK

LEMMA FinishWrapped ==
    ASSUME TypeOK, WrapperInv, NEW p \in Calls, NEW error, Finish(p, error),
           cancelReq' \subseteq cancelReq \ {p}, cancelReq \ {p} \subseteq cancelReq'
    PROVE  WrapperInv'
<1>1. /\ stream' = [stream EXCEPT ![p] = Blank] /\ pc'[p] = "done"
      /\ \A q \in Calls \ {p} : pc'[q] = IF pc[q] = "noslot" THEN "top" ELSE pc[q]
    BY DEF Finish, Release
<1>2. Inside("top") /\ Inside("noslot") /\ Running("top")
    BY DEF Inside, Running, Places, Opening
<1> QED
    BY <1>1, <1>2, EndWrapped

LEMMA AbortWrapped ==
    ASSUME TypeOK, WrapperInv, NEW p \in Calls, NEW error, Abort(p, error),
           cancelReq' \subseteq cancelReq \ {p}, cancelReq \ {p} \subseteq cancelReq'
    PROVE  WrapperInv'
BY EndWrapped DEF Abort, TypeOK

LEMMA GotoWrapped ==
    ASSUME TypeOK, WrapperInv, NEW p \in Calls, p \notin cancelReq, NEW place, NEW s,
           Goto(p, place, s), UNCHANGED cancelReq,
           SameWrapper(s, stream[p]),
           Running(place), Inside(place) => s.error = "none"
    PROVE  WrapperInv'
<1>1. Wrapped(p, pc[p], stream[p], p \in cancelReq)
    BY WrappedOfAll
<1>2. Wrapped(p, place, s, p \in cancelReq)
    BY <1>1 DEF Wrapped, SameWrapper
<1> QED
    BY <1>2, WrappedStep DEF Goto, Hold

LEMMA EnterWrapped ==
    ASSUME TypeOK, WrapperInv, NEW p \in Calls, p \notin cancelReq, NEW place, NEW s,
           Enter(p, place, s), UNCHANGED cancelReq,
           SameWrapper(s, stream[p]), Running(place)
    PROVE  WrapperInv'
BY GotoWrapped, FinishWrapped DEF Enter

LEMMA WrapperCancelWrapped ==
    ASSUME TypeOK, WrapperInv, NEW S \in SUBSET Calls, NEW error \in Errors \ {"none"},
           NEW timers \in BOOLEAN, WrapperCancel(S, error, timers), UNCHANGED pc,
           error = "timeout" => S \subseteq Timed
    PROVE  WrapperInv'
<1>1. ASSUME NEW q \in Calls PROVE Wrapped(q, pc'[q], stream'[q], q \in cancelReq')
    <2>0. stream[q] \in Streams
        BY DEF TypeOK
    <2>a. Wrapped(q, pc[q], stream[q], q \in cancelReq)
        BY WrappedOfAll
    <2>b. pc'[q] = pc[q]
        OBVIOUS
    <2>1. CASE q \in S
        <3>1. stream'[q] = [stream[q] EXCEPT !.error = error, !.timer = @ /\ ~timers]
            BY <2>1 DEF WrapperCancel
        <3>2. stream'[q].error = error
            BY <2>0, <3>1 DEF Streams
        <3>3. stream'[q].timer => stream[q].timer
            BY <2>0, <3>1 DEF Streams
        <3>4. q \in cancelReq' <=> q \in cancelReq \/ Inside(pc[q])
            BY <2>1 DEF WrapperCancel, InWrapper, Inside
        <3> QED
            BY <2>1, <2>a, <2>b, <3>2, <3>3, <3>4 DEF Wrapped
    <2>2. CASE q \notin S
        <3>1. stream'[q] = stream[q]
            BY <2>2 DEF WrapperCancel
        <3>2. q \in cancelReq' <=> q \in cancelReq
            BY <2>2 DEF WrapperCancel
        <3> QED
            BY <2>a, <2>b, <3>1, <3>2 DEF Wrapped
    <2> QED
        BY <2>1, <2>2
<1>2. cancelReq' \subseteq Calls
    BY DEF WrapperCancel, TypeOK
<1> QED
    BY <1>1, <1>2, WrappedOneByOne

LEMMA HoldWrapped ==
    ASSUME TypeOK, WrapperInv, NEW p \in Calls, NEW s, Hold(p, s),
           UNCHANGED <<pc, cancelReq>>,
           SameWrapper(s, stream[p])
    PROVE  WrapperInv'
<1>1. Wrapped(p, pc[p], s, p \in cancelReq)
    BY WrappedOfAll DEF Wrapped, SameWrapper
<1>2. pc' = [pc EXCEPT ![p] = pc[p]]
    BY DEF TypeOK
<1> QED
    BY <1>1, <1>2, WrappedStep DEF Hold

(* The answers, what was read and what was sent leave error and timer alone. *)
LEMMA FieldsOfWrapper ==
    ASSUME NEW s \in Streams
    PROVE  \A v : /\ SameWrapper([s EXCEPT !.got = v], s)
                 /\ SameWrapper([s EXCEPT !.sent = v], s)
                 /\ SameWrapper([s EXCEPT !.reset = v], s)
                 /\ SameWrapper([s EXCEPT !.read = v], s)
                 /\ SameWrapper([s EXCEPT !.headers = v], s)
                 /\ SameWrapper([s EXCEPT !.status = v], s)
                 /\ SameWrapper([s EXCEPT !.headers = "final", !.status = v], s)
BY DEF Streams, SameWrapper

LEMMA InitWrapperInv == Init => WrapperInv
BY DEF Init, WrapperInv, WrapperIsHeeded, OnlyUsersCancel, TimersOfTimed, InWrapper, Blank

LEMMA NextWrapperInv == TypeOK /\ WrapperInv /\ [Next]_vars => WrapperInv'
<1> SUFFICES ASSUME TypeOK, WrapperInv, [Next]_vars PROVE WrapperInv'
    OBVIOUS
<1>0. ASSUME UNCHANGED <<pc, stream, cancelReq>> PROVE WrapperInv'
    BY <1>0 DEF WrapperInv, WrapperIsHeeded, OnlyUsersCancel, TimersOfTimed, InWrapper
<1>1. CASE ConnectionStep
    <2>1. CASE ConnectionTerminated \/ ConnectionLost
        <3>1. registered \in SUBSET Calls /\ "terminated" \in Errors \ {"none"}
            BY DEF TypeOK, Errors
        <3>2. WrapperCancel(registered, "terminated", FALSE) /\ UNCHANGED pc
            BY <2>1 DEF ConnectionTerminated, ConnectionLost
        <3> QED
            BY <3>1, <3>2, WrapperCancelWrapped
    <2>2. QED
        BY <1>0, <1>1, <2>1 DEF ConnectionStep, LimitChanged, KeepaliveTimeout,
            PauseWriting, ResumeWriting, callVars
<1>2. ASSUME NEW p \in Calls,
             TaskStep(p) \/ UserStep(p) \/ PeerStep(p) \/ DeadlineExpired(p)
      PROVE  WrapperInv'
    <2> DEFINE mine == stream[p]
    <2>0. mine \in Streams /\ Wrapped(p, pc[p], mine, p \in cancelReq)
        BY WrappedOfAll DEF TypeOK
    <2>a. \A v : /\ SameWrapper([mine EXCEPT !.got = v], mine)
                 /\ SameWrapper([mine EXCEPT !.sent = v], mine)
                 /\ SameWrapper([mine EXCEPT !.reset = v], mine)
                 /\ SameWrapper([mine EXCEPT !.read = v], mine)
        BY <2>0, FieldsOfWrapper
    <2>b. SameWrapper(mine, mine) /\ ~Inside("body") /\ ~Inside("ending") /\ ~Inside("done")
        BY DEF SameWrapper, Inside
    <2>r. \A place \in Active \cup Opening : Running(place)
        BY DEF Running, Active, Opening
    <2>c. ASSUME p \notin cancelReq, UNCHANGED cancelReq
          PROVE  /\ \A error : Finish(p, error) => WrapperInv'
                 /\ \A error : Abort(p, error) => WrapperInv'
                 /\ \A s : SameWrapper(s, mine) /\ Return(p, s) => WrapperInv'
                 /\ \A place \in Active : \A s :
                       SameWrapper(s, mine) /\ Enter(p, place, s) => WrapperInv'
        <3>1. cancelReq' \subseteq cancelReq \ {p} /\ cancelReq \ {p} \subseteq cancelReq'
            BY <2>c
        <3> QED
            BY <2>b, <2>c, <2>r, <3>1, FinishWrapped, AbortWrapped, GotoWrapped, EnterWrapped
            DEF Return, Active
    <2>1. CASE SendRequest(p)
        <3>1. p \notin cancelReq /\ UNCHANGED cancelReq /\ pc[p] = "top"
            BY <2>1 DEF SendRequest, Runs
        <3>2. CASE Goto(p, "noslot", mine)
            <4>1. mine.error = "none"
                BY <2>0, <3>1 DEF Wrapped, Inside, Places, Opening
            <4> QED
                BY <2>b, <2>r, <3>1, <3>2, <4>1, GotoWrapped DEF Opening
        <3>3. CASE Abort(p, "failed")
            BY <2>c, <3>1, <3>3
        <3>4. CASE OpenStream(p)
            <4>1. CASE link = "open"
                <5>1. PICK end \in BOOLEAN : stream' = [stream EXCEPT ![p].sent = end]
                    BY <3>4, <4>1 DEF OpenStream
                <5>2. stream' = [stream EXCEPT ![p] = [mine EXCEPT !.sent = end]]
                    BY <5>1 DEF TypeOK
                <5>3. Wrapped(p, "body", [mine EXCEPT !.sent = end], p \in cancelReq)
                    BY <2>0, <2>a, <2>b, <2>r, <3>1 DEF Wrapped, SameWrapper, Active
                <5> QED
                    BY <3>1, <3>4, <4>1, <5>2, <5>3, WrappedStep DEF OpenStream
            <4>2. CASE link # "open"
                <5>1. Wrapped(p, "done", Blank, p \in cancelReq)
                    BY <3>1, BlankWrapped
                <5> QED
                    BY <3>1, <3>4, <4>2, <5>1, WrappedStep DEF OpenStream
            <4> QED
                BY <4>1, <4>2
        <3> QED
            BY <2>1, <3>2, <3>3, <3>4 DEF SendRequest
    <2>2. CASE Written(p)
        BY <2>2, <2>a, <2>b, <2>c DEF Written, Runs
    <2>d. ASSUME ExitTrailers(p), p \notin cancelReq, UNCHANGED cancelReq PROVE WrapperInv'
        BY <2>a, <2>c, <2>d DEF ExitTrailers, Got, Active
    <2>3. CASE HeadersReceived(p)
        BY <2>3, <2>a, <2>c, <2>d DEF HeadersReceived, Runs, Got
    <2>4. CASE TrailersReceived(p)
        BY <2>4, <2>a, <2>c DEF TrailersReceived, Runs, Got
    <2>5. CASE NoMoreMessages(p) \/ MessageReceived(p)
        BY <2>5, <2>a, <2>b, <2>c DEF NoMoreMessages, MessageReceived, Runs, Read
    <2>6. CASE Exit(p)
        BY <2>6, <2>b, <2>c, <2>d DEF Exit, Runs, Active
    <2>7. CASE Cancelled(p)
        <3>1. cancelReq' \subseteq cancelReq \ {p} /\ cancelReq \ {p} \subseteq cancelReq'
            BY <2>7 DEF Cancelled
        <3> QED
            BY <2>7, <3>1, FinishWrapped, AbortWrapped DEF Cancelled
    <2>8. CASE Begin(p)
        <3>1. UNCHANGED cancelReq /\ pc[p] = "new"
            BY <2>8 DEF Begin
        <3>2. p \in cancelReq => p \in Cancelling
            BY <2>0, <3>1 DEF Wrapped, Inside
        <3>3. ASSUME NEW error, Abort(p, error) PROVE WrapperInv'
            <4>1. Wrapped(p, "done", Blank, p \in cancelReq)
                BY <3>2, BlankWrapped
            <4> QED
                BY <3>1, <3>3, <4>1, WrappedStep DEF Abort
        <3>4. ASSUME NEW timer \in BOOLEAN, timer => p \in Timed,
                     Goto(p, "top", [Blank EXCEPT !.timer = timer])
              PROVE  WrapperInv'
            <4>1. Wrapped(p, "top", [Blank EXCEPT !.timer = timer], p \in cancelReq)
                BY <2>r, <3>2, <3>4, BlankWrapped DEF Opening
            <4> QED
                BY <3>1, <3>4, <4>1, WrappedStep DEF Goto, Hold
        <3> QED
            BY <2>8, <3>3, <3>4 DEF Begin
    <2>9. CASE SendMessage(p) \/ CancelCall(p) \/ ReceiveMessage(p) \/ Raise(p)
        BY <2>9, <2>b, <2>c DEF SendMessage, CancelCall, ReceiveMessage, Raise, Runs,
            Active
    <2>10. CASE EndRequest(p)
        BY <2>10, <2>b, <2>r, GotoWrapped DEF EndRequest, Runs, Active
    <2>11. CASE Receive(p)
        BY <2>11, <2>a, <2>b, <2>c DEF Receive, Runs, Got, Active
    <2>12. CASE UserCancel(p)
        BY <2>12 DEF UserCancel, WrapperInv, WrapperIsHeeded, OnlyUsersCancel,
            TimersOfTimed, InWrapper
    <2>13. CASE ResponseReceived(p) \/ TrailersEnd(p)
        BY <2>0, <2>13, FieldsOfWrapper, HoldWrapped DEF ResponseReceived, TrailersEnd
    <2>14. CASE StreamReset(p)
        <3>1. {p} \cap registered \in SUBSET Calls /\ "terminated" \in Errors \ {"none"}
            BY DEF Errors
        <3>2. WrapperCancel({p} \cap registered, "terminated", FALSE) /\ UNCHANGED pc
            BY <2>14 DEF StreamReset
        <3> QED
            BY <3>1, <3>2, WrapperCancelWrapped
    <2>15. CASE DeadlineExpired(p)
        <3>1. {p} \in SUBSET Calls /\ "timeout" \in Errors \ {"none"}
            BY DEF Errors
        <3>2. WrapperCancel({p}, "timeout", TRUE) /\ UNCHANGED pc
            BY <2>15 DEF DeadlineExpired
        <3>3. {p} \subseteq Timed
            BY <2>0, <2>15 DEF DeadlineExpired, Wrapped
        <3> QED
            BY <3>1, <3>2, <3>3, WrapperCancelWrapped
    <2>16. QED
        BY <1>2, <2>1, <2>2, <2>3, <2>4, <2>5, <2>6, <2>7, <2>8, <2>9, <2>10,
           <2>11, <2>12, <2>13, <2>14, <2>15
        DEF TaskStep, UserStep, PeerStep
<1>3. CASE UNCHANGED vars
    BY <1>0, <1>3 DEF vars, callVars
<1>4. QED
    BY <1>1, <1>2, <1>3 DEF Next

LEMMA WrapperInvHolds == Spec => []WrapperInv
<1>1. QED
    BY InitWrapperInv, NextWrapperInv, TypeCorrect, PTL DEF Spec

(* No call stays in a wait of its wrapper after its wrapper was cancelled,
   wherever it was when the deadline, the reset or the loss came. *)
THEOREM WrappersAreHeeded == Spec => []WrapperIsHeeded
<1>1. WrapperInv => WrapperIsHeeded
    BY DEF WrapperInv
<1>2. QED
    BY <1>1, WrapperInvHolds, PTL

-----------------------------------------------------------------------------
(* h2 refuses no write of a call that is not to be cancelled, unless the call
   has closed its stream itself, see KnownInv.                              *)

Awaiting == {"trailers", "exitTrailers"}

Known(place, s, isOpen) ==
    /\ place \in Active /\ s.error = "none" =>
           isOpen \/ s.reset \/ (s.sent /\ s.status # "none")
    /\ place \in Awaiting => s.headers = "plain"

(* It is enough to look at the calls one by one. *)
LEMMA KnownOneByOne ==
    ASSUME goaway' => link' \in {"closed", "lost"},
           \A q \in Calls : Known(pc'[q], stream'[q], q \in open')
    PROVE  KnownInv'
BY DEF KnownInv, RefusalsAreKnown, TrailersAwaited, Over, Known, Awaiting

LEMMA KnownOfAll ==
    ASSUME KnownInv
    PROVE  /\ goaway => link \in {"closed", "lost"}
           /\ \A q \in Calls : Known(pc[q], stream[q], q \in open)
BY DEF KnownInv, RefusalsAreKnown, TrailersAwaited, Over, Known, Awaiting

(* What a call holds after a step that changes nothing in its Wrapper. *)
Keeps(s, t) ==
    /\ t.error = s.error
    /\ s.reset => t.reset
    /\ s.sent => t.sent
    /\ s.status # "none" => t.status # "none"
    /\ s.headers = "plain" => t.headers = "plain"

LEMMA FieldsKept ==
    ASSUME NEW s \in Streams
    PROVE  /\ Keeps(s, s)
           /\ \A n \in 0 .. 2 : Keeps(s, [s EXCEPT !.got = n])
           /\ Keeps(s, [s EXCEPT !.sent = TRUE])
           /\ Keeps(s, [s EXCEPT !.reset = TRUE])
           /\ \A what : Keeps(s, [s EXCEPT !.read = what])
           /\ \A st \in {"OK", "BAD", "absent"} : Keeps(s, [s EXCEPT !.status = st])
           /\ s.headers = "none" =>
                  /\ \A kind : Keeps(s, [s EXCEPT !.headers = kind])
                  /\ \A st \in {"OK", "BAD"} :
                        Keeps(s, [s EXCEPT !.headers = "final", !.status = st])
BY DEF Streams, Keeps

LEMMA FinishKnown ==
    ASSUME TypeOK, KnownInv, NEW p \in Calls, NEW error, Finish(p, error),
           UNCHANGED connVars
    PROVE  KnownInv'
<1>1. \A q \in Calls : /\ pc'[q] \in Active => pc[q] = pc'[q] /\ q # p
                       /\ q # p => stream'[q] = stream[q]
    BY DEF Finish, Release, TypeOK, Active
<1>2. \A q \in Calls : q # p /\ q \in open => q \in open'
    BY DEF Finish, CloseStream
<1>3. \A q \in Calls : Known(pc'[q], stream'[q], q \in open')
    BY <1>1, <1>2, KnownOfAll DEF Known, Awaiting, Active
<1>4. QED
    BY <1>3, KnownOfAll, KnownOneByOne DEF connVars

LEMMA AbortKnown ==
    ASSUME TypeOK, KnownInv, NEW p \in Calls, NEW error, Abort(p, error),
           UNCHANGED connVars
    PROVE  KnownInv'
<1>1. \A q \in Calls : /\ pc'[q] = IF q = p THEN "done" ELSE pc[q]
                       /\ q # p => stream'[q] = stream[q]
    BY DEF Abort, TypeOK
<1>2. \A q \in Calls : Known(pc'[q], stream'[q], q \in open')
    BY <1>1, KnownOfAll DEF Known, Awaiting, Active, Abort
<1>3. QED
    BY <1>2, KnownOfAll, KnownOneByOne DEF connVars

(* h2 closes the stream of a call only when the call is over. *)
LEMMA HoldKnown ==
    ASSUME TypeOK, KnownInv, NEW p \in Calls, NEW place, NEW s, Hold(p, s),
           pc' = [pc EXCEPT ![p] = place],
           place \in Active => pc[p] \in Active /\ Keeps(stream[p], s),
           place \in Awaiting => s.headers = "plain",
           UNCHANGED connVars
    PROVE  KnownInv'
<1>1. \A q \in Calls : /\ pc'[q] = IF q = p THEN place ELSE pc[q]
                       /\ stream'[q] = IF q = p THEN s ELSE stream[q]
    BY DEF Hold, TypeOK
<1>2. \A q \in Calls : q # p /\ q \in open => q \in open'
    BY DEF Hold
<1>3. Known(place, s, p \in open')
    BY KnownOfAll DEF Known, Keeps, Hold
<1>4. \A q \in Calls : Known(pc'[q], stream'[q], q \in open')
    BY <1>1, <1>2, <1>3, KnownOfAll DEF Known
<1>5. QED
    BY <1>4, KnownOfAll, KnownOneByOne DEF connVars

LEMMA GotoKnown ==
    ASSUME TypeOK, KnownInv, NEW p \in Calls, NEW place, NEW s, Goto(p, place, s),
           place \in Active => pc[p] \in Active /\ Keeps(stream[p], s),
           place \in Awaiting => s.headers = "plain",
           UNCHANGED connVars
    PROVE  KnownInv'
BY HoldKnown DEF Goto

LEMMA EnterKnown ==
    ASSUME TypeOK, KnownInv, NEW p \in Calls, NEW place, NEW s, Enter(p, place, s),
           place \in Active => pc[p] \in Active /\ Keeps(stream[p], s),
           place \in Awaiting => s.headers = "plain",
           UNCHANGED connVars
    PROVE  KnownInv'
BY GotoKnown, FinishKnown DEF Enter

(* Whoever is not to be cancelled keeps its stream. *)
LEMMA WrapperCancelKnown ==
    ASSUME TypeOK, KnownInv, NEW S, NEW error \in Errors \ {"none"}, NEW timers,
           WrapperCancel(S, error, timers), UNCHANGED pc,
           \A q \in open \ S : pc[q] \in Active => q \in open',
           goaway' => link' \in {"closed", "lost"}
    PROVE  KnownInv'
<1>1. \A q \in Calls : /\ stream'[q].headers = stream[q].headers
                       /\ stream'[q].status = stream[q].status
                       /\ stream'[q].sent = stream[q].sent
                       /\ stream'[q].reset = stream[q].reset
                       /\ stream'[q].error = IF q \in S THEN error ELSE stream[q].error
    BY DEF WrapperCancel, TypeOK, Streams
<1>2. \A q \in Calls : Known(pc'[q], stream'[q], q \in open')
    BY <1>1, KnownOfAll DEF Known
<1>3. QED
    BY <1>2, KnownOneByOne

LEMMA NextKnown == TypeOK /\ CallInv /\ KnownInv /\ [Next]_vars => KnownInv'
<1> SUFFICES ASSUME TypeOK, CallInv, KnownInv, [Next]_vars PROVE KnownInv'
    OBVIOUS
<1>0. ASSUME UNCHANGED <<pc, stream, open>>, goaway' => link' \in {"closed", "lost"}
      PROVE  KnownInv'
    BY <1>0, KnownOfAll, KnownOneByOne
<1>1. CASE ConnectionStep
    <2>1. CASE ConnectionTerminated \/ ConnectionLost
        BY <2>1, WrapperCancelKnown DEF ConnectionTerminated, ConnectionLost, Errors
    <2>2. QED
        BY <1>0, <1>1, <2>1, KnownOfAll DEF ConnectionStep, LimitChanged,
            KeepaliveTimeout, PauseWriting, ResumeWriting, callVars, ClosedByGoaway,
            CallInv
<1>2. ASSUME NEW p \in Calls,
             TaskStep(p) \/ UserStep(p) \/ PeerStep(p) \/ DeadlineExpired(p)
      PROVE  KnownInv'
    <2>0. stream[p] \in Streams
        BY DEF TypeOK
    <2> USE <2>0, FieldsKept, GotoKnown, EnterKnown, FinishKnown, AbortKnown
    <2>1. CASE SendRequest(p)
        <3>1. CASE OpenStream(p)
            <4>1. \A q \in Calls \ {p} : pc'[q] = pc[q] /\ stream'[q] = stream[q]
                BY <3>1 DEF OpenStream, TypeOK
            <4>2. open' = open \cup {p} /\ pc'[p] \in {"body", "done"}
                BY <3>1 DEF OpenStream, TypeOK
            <4>3. \A q \in Calls : Known(pc'[q], stream'[q], q \in open')
                BY <4>1, <4>2, KnownOfAll DEF Known, Awaiting
            <4>4. QED
                BY <2>1, <4>3, KnownOfAll, KnownOneByOne DEF SendRequest, connVars
        <3>2. QED
            BY <2>1, <3>1 DEF SendRequest, Active, Awaiting
    <2>2. CASE Written(p)
        BY <2>2 DEF Written, Return, Runs, Active, Awaiting
    <2>3. ASSUME ExitTrailers(p), pc[p] \in Active, UNCHANGED connVars PROVE KnownInv'
        <3>1. Keeps(stream[p], Got(p, 1))
            BY DEF Keeps, Got, Streams
        <3>2. Got(p, 1).headers = stream[p].headers
            BY DEF Got, Streams
        <3>3. QED
            BY <2>3, <3>1, <3>2 DEF ExitTrailers
    <2>4. CASE HeadersReceived(p)
        <3>1. Keeps(stream[p], Got(p, 1))
            BY DEF Keeps, Got, Streams
        <3>2. QED
            BY <2>3, <2>4, <3>1 DEF HeadersReceived, Return, Runs, Active, Awaiting
    <2>5. CASE TrailersReceived(p)
        <3>1. Keeps(stream[p], Got(p, 2))
            BY DEF Keeps, Got, Streams
        <3>2. QED
            BY <2>5, <3>1 DEF TrailersReceived, Return, Runs, Active, Awaiting
    <2>6. CASE NoMoreMessages(p) \/ MessageReceived(p)
        <3>1. \A what : Keeps(stream[p], Read(p, what))
            BY DEF Read
        <3>2. QED
            BY <2>6, <3>1 DEF NoMoreMessages, MessageReceived, Return, Runs, Active,
                Awaiting
    <2>7. CASE Exit(p)
        BY <2>3, <2>7 DEF Exit, Runs, Active, Awaiting
    <2>8. CASE Cancelled(p) \/ Raise(p)
        BY <2>8 DEF Cancelled, Raise
    <2>9. CASE Begin(p)
        BY <2>9 DEF Begin, Active, Awaiting
    <2>10. CASE SendMessage(p) \/ EndRequest(p) \/ CancelCall(p) \/ ReceiveMessage(p)
        BY <2>10 DEF SendMessage, EndRequest, CancelCall, ReceiveMessage, Runs, Active,
            Awaiting
    <2>11. CASE Receive(p)
        <3>1. Keeps(stream[p], Got(p, 2))
            BY DEF Keeps, Got, Streams
        <3>2. QED
            BY <2>11, <3>1 DEF Receive, Return, Runs, Active, Awaiting
    <2>12. CASE ResponseReceived(p) \/ TrailersEnd(p)
        <3>1. PICK s : Hold(p, s) /\ Keeps(stream[p], s)
            BY <2>12 DEF ResponseReceived, TrailersEnd
        <3>2. /\ pc' = [pc EXCEPT ![p] = pc[p]]
              /\ pc[p] \in Active \/ pc[p] = "done"
              /\ UNCHANGED connVars
            BY <2>12 DEF ResponseReceived, TrailersEnd, TypeOK, CallInv, ActiveAreRegistered
        <3>3. pc[p] \in Awaiting => s.headers = "plain"
            BY <3>1, KnownOfAll DEF Known, Keeps
        <3>4. QED
            BY <3>1, <3>2, <3>3, HoldKnown DEF Active
    <2>13. CASE StreamReset(p)
        BY <2>13, WrapperCancelKnown, KnownOfAll
        DEF StreamReset, CallInv, ActiveAreRegistered, Errors, connVars
    <2>14. CASE DeadlineExpired(p)
        BY <2>14, WrapperCancelKnown, KnownOfAll DEF DeadlineExpired, Errors, connVars
    <2>15. CASE UserCancel(p)
        BY <1>0, <2>15, KnownOfAll DEF UserCancel, connVars
    <2>16. QED
        BY <1>2, <2>1, <2>2, <2>4, <2>5, <2>6, <2>7, <2>8, <2>9, <2>10, <2>11,
           <2>12, <2>13, <2>14, <2>15
        DEF TaskStep, UserStep, PeerStep
<1>3. CASE UNCHANGED vars
    BY <1>0, <1>3, KnownOfAll DEF vars, callVars, connVars
<1>4. QED
    BY <1>1, <1>2, <1>3 DEF Next

LEMMA InitKnown == Init => KnownInv
BY DEF Init, KnownInv, RefusalsAreKnown, TrailersAwaited, Active

LEMMA KnownInvHolds == Spec => []KnownInv
<1>1. Init => KnownInv
    BY InitKnown
<1>2. QED
    BY <1>1, NextKnown, CallInvHolds, PTL DEF Spec

-----------------------------------------------------------------------------
(* OutcomeIsServers: only Finish and Abort give a call its result.         *)

OutcomeStep == \A p \in Calls : OutcomeOf(p)

(* What a call may have found when it ends well. *)
MaySucceed(p) ==
    /\ stream[p].status = "OK" \/ stream[p].reset \/ link # "open"
    /\ HasRead(p, stream[p])

(* What there must be for a call to end with an error, or with "ok". *)
Justified(p, error) ==
    /\ error = "ok" => MaySucceed(p)
    /\ error \in {"ok", "failed"} /\ (BadHttp(p) \/ BadStatus(p)) => FailsFirst(p)
    /\ error = "cancelled" => p \in Cancelling
    /\ error = "timeout" => p \in Timed

LEMMA FinishOutcome ==
    ASSUME TypeOK, NEW p \in Calls, NEW error, Finish(p, error), Justified(p, error)
    PROVE  OutcomeStep
<1>1. \A q \in Calls \ {p} : result'[q] = result[q]
    BY DEF TypeOK, Finish
<1>2. result'[p] = Outcome(p, error)
    BY DEF TypeOK, Finish
<1>3. OutcomeOf(p)
    BY <1>2 DEF OutcomeOf, Outcome, NoReply, MaySucceed, HasRead, Justified
<1>4. QED
    BY <1>1, <1>3 DEF OutcomeStep, OutcomeOf

LEMMA AbortOutcome ==
    ASSUME TypeOK, CallInv, NEW p \in Calls, pc[p] \notin Active, NEW error,
           Abort(p, error), error # "ok",
           error = "cancelled" => p \in Cancelling,
           error = "timeout" => p \in Timed
    PROVE  OutcomeStep
<1>1. \A q \in Calls \ {p} : result'[q] = result[q]
    BY DEF TypeOK, Abort
<1>2. result'[p] = error
    BY DEF TypeOK, Abort
<1>3. ~BadHttp(p) /\ ~BadStatus(p)
    BY DEF CallInv, StatusOfActive, BadHttp, BadStatus
<1>4. QED
    BY <1>1, <1>2, <1>3 DEF OutcomeStep, OutcomeOf

LEMMA EnterOutcome ==
    ASSUME TypeOK, NEW p \in Calls, NEW place, NEW s \in Streams, Enter(p, place, s),
           s.error = "timeout" => p \in Timed
    PROVE  OutcomeStep
<1>1. Justified(p, s.error)
    BY DEF Streams, Errors, Justified
<1>2. QED
    BY <1>1, FinishOutcome DEF Enter, Goto, OutcomeStep, OutcomeOf

LEMMA NextOutcome ==
    TypeOK /\ CallInv /\ ReadInv /\ KnownInv /\ WrapperInv /\ [Next]_vars =>
        [OutcomeStep]_vars
<1> SUFFICES ASSUME TypeOK, CallInv, ReadInv, KnownInv, WrapperInv, [Next]_vars
             PROVE  OutcomeStep
    OBVIOUS
<1>0. ASSUME UNCHANGED result PROVE OutcomeStep
    BY <1>0 DEF OutcomeStep, OutcomeOf
<1>1. CASE ConnectionStep
    BY <1>0, <1>1 DEF ConnectionStep, LimitChanged, ConnectionTerminated,
        ConnectionLost, KeepaliveTimeout, PauseWriting, ResumeWriting, callVars
<1>2. ASSUME NEW p \in Calls,
             TaskStep(p) \/ UserStep(p) \/ PeerStep(p) \/ DeadlineExpired(p)
      PROVE  OutcomeStep
    <2>0. stream[p] \in Streams /\ \A n \in 0 .. 2 : Got(p, n) \in Streams
        BY FieldTypes DEF TypeOK, Got
    <2>t. /\ stream[p].error = "timeout" => p \in Timed
          /\ \A n : Got(p, n).error = "timeout" => p \in Timed
        BY <2>0, FieldsOfWrapper DEF WrapperInv, TimersOfTimed, Got, SameWrapper
    <2>a. /\ Answered(stream[p])
          /\ pc[p] \in Exits => HasRead(p, stream[p])
        BY ReadOfAll
    <2> USE <1>0, <2>0, <2>a, <2>t, FinishOutcome, AbortOutcome, EnterOutcome
        DEF Goto, Return, Justified
    <2>1. CASE SendRequest(p)
        <3>1. CASE OpenStream(p)
            <4>1. ~BadHttp(p) /\ ~BadStatus(p)
                BY <2>1 DEF SendRequest, Runs, Active, CallInv, StatusOfActive,
                    BadHttp, BadStatus
            <4>2. \A q \in Calls : \/ result'[q] = result[q]
                                   \/ q = p /\ result'[q] = "failed"
                BY <3>1 DEF OpenStream, TypeOK
            <4>3. QED
                BY <4>1, <4>2 DEF OutcomeStep, OutcomeOf
        <3>2. QED
            BY <2>1, <3>1 DEF SendRequest, Runs, Active
    <2>2. CASE Written(p)
        <3>1. ASSUME ~(p \in open /\ ~goaway) PROVE FailsFirst(p)
            <4>1. SUFFICES ASSUME pc[p] \in {"sending", "resetting"} PROVE Over(p)
                BY <2>2 DEF Written, Runs, FailsFirst
            <4>2. stream[p].error = "none"
                BY <2>2, <4>1 DEF Written, Runs, WrapperInv, WrapperIsHeeded, InWrapper,
                    Places, Active
            <4>3. p \in registered
                BY <4>1 DEF CallInv, ActiveAreRegistered, Active
            <4>4. ~goaway
                BY <4>1, <4>2, <4>3 DEF KnownInv, RefusalsAreKnown, CallInv,
                    CloseCancelsCalls
            <4>5. QED
                BY <3>1, <4>1, <4>2, <4>4 DEF KnownInv, RefusalsAreKnown, Active
        <3>2. QED
            BY <2>2, <3>1 DEF Written
    <2>b. ASSUME ExitTrailers(p), HasRead(p, stream[p]), pc[p] \in {"body", "exitHeaders"},
                 stream[p].headers = "final" => stream[p].status = "OK"
          PROVE  OutcomeStep
        BY <2>b DEF ExitTrailers, MaySucceed, FailsFirst, BadHttp, BadStatus
    <2>3. CASE HeadersReceived(p)
        <3>1. CASE Finish(p, "status") \/ Return(p, Got(p, 1))
            BY <3>1
        <3>2. CASE pc[p] = "exitHeaders" /\ ExitTrailers(p)
            BY <2>3, <2>b, <3>1, <3>2 DEF HeadersReceived, Answered, BadStatus, Exits
        <3>3. QED
            BY <2>3, <3>1, <3>2 DEF HeadersReceived
    <2>4. CASE TrailersReceived(p)
        <3>1. ~BadHttp(p)
            BY <2>4 DEF TrailersReceived, Runs, KnownInv, TrailersAwaited, BadHttp
        <3>2. QED
            BY <2>4, <3>1 DEF TrailersReceived, MaySucceed, Exits, BadStatus
    <2>5. CASE NoMoreMessages(p) \/ MessageReceived(p) \/ ReceiveMessage(p)
        BY <2>5 DEF NoMoreMessages, MessageReceived, ReceiveMessage, Runs, FailsFirst
    <2>6. CASE Exit(p)
        <3>1. HasRead(p, stream[p])
            BY <2>6 DEF Exit, MayLeave, HasRead
        <3>2. CASE ExitTrailers(p) /\ stream[p].got = 1
            BY <2>6, <2>b, <3>1, <3>2 DEF Answered, Exit, Runs
        <3>3. CASE Finish(p, "ok") /\ (\/ stream[p].reset \/ link # "open"
                                       \/ stream[p].got = 2)
            BY <2>6, <3>1, <3>3 DEF Answered, MaySucceed, Exit, Runs, FailsFirst
        <3>4. QED
            BY <2>6, <3>2, <3>3 DEF Exit
    <2>7. CASE Cancelled(p)
        <3>1. stream[p].error \in Errors
            BY DEF Streams
        <3>2. (InWrapper(p) /\ stream[p].error # "none") \/ p \in Cancelling
            BY <2>7 DEF Cancelled, WrapperInv, OnlyUsersCancel
        <3>3. QED
            BY <2>7, <3>1, <3>2 DEF Cancelled, Opening, Active, Errors
    <2>8. CASE \/ Begin(p) \/ SendMessage(p) \/ EndRequest(p) \/ CancelCall(p)
              \/ Receive(p) \/ Raise(p) \/ UserCancel(p)
        BY <2>8 DEF Begin, SendMessage, EndRequest, CancelCall, Receive, Raise,
            UserCancel, Active, Runs, FailsFirst
    <2>9. CASE ResponseReceived(p) \/ TrailersEnd(p) \/ StreamReset(p)
               \/ DeadlineExpired(p)
        BY <2>9 DEF ResponseReceived, TrailersEnd, StreamReset, DeadlineExpired
    <2>10. QED
        BY <1>2, <2>1, <2>2, <2>3, <2>4, <2>5, <2>6, <2>7, <2>8, <2>9
        DEF TaskStep, UserStep, PeerStep
<1>3. CASE UNCHANGED vars
    BY <1>0, <1>3 DEF vars, callVars
<1>4. QED
    BY <1>1, <1>2, <1>3 DEF Next

(* A call ends with StreamTerminatedError only if no error of the server is known,
   and with a failure of its own that hides one only where FailsFirst says.  It ends
   well only with the server's OK, or cancelled, or on a transport that closes; a
   generated method returns only what it has read.  Only a user who cancels sees a
   CancelledError, and a timeout only who has set a deadline. *)
THEOREM OutcomeIsTheServers == Spec => OutcomeIsServers
<1>1. OutcomeIsServers <=> [][OutcomeStep]_vars
    BY PTL DEF OutcomeIsServers, OutcomeStep
<1>2. QED
    BY <1>1, NextOutcome, CallInvHolds, ReadInvHolds, KnownInvHolds, WrapperInvHolds,
       PTL DEF Spec

-----------------------------------------------------------------------------
(* DeadlineIsKept: only the timer itself and the end of its call stop it.  *)

DeadlineStep ==
    \A p \in Calls :
        stream[p].timer /\ ~stream'[p].timer =>
            stream'[p].error = "timeout" \/ pc'[p] = "done"

LEMMA TimerOfStep ==
    ASSUME TypeOK, NEW p \in Calls, NEW s, stream' = [stream EXCEPT ![p] = s],
           stream[p].timer => s.timer \/ pc'[p] = "done"
    PROVE  DeadlineStep
BY DEF DeadlineStep, TypeOK

LEMMA TimerOfEnd ==
    ASSUME TypeOK, NEW p \in Calls, NEW error, Finish(p, error) \/ Abort(p, error)
    PROVE  DeadlineStep
<1>1. pc'[p] = "done" /\ stream' = [stream EXCEPT ![p] = Blank]
    BY DEF Finish, Release, Abort, TypeOK
<1> QED
    BY <1>1, TimerOfStep

LEMMA TimerOfGoto ==
    ASSUME TypeOK, NEW p \in Calls, NEW place, NEW s, SameWrapper(s, stream[p]),
           Goto(p, place, s) \/ Hold(p, s) \/ Enter(p, place, s)
    PROVE  DeadlineStep
<1>1. CASE Hold(p, s)
    BY <1>1, TimerOfStep DEF Hold, SameWrapper
<1> QED
    BY <1>1, TimerOfEnd DEF Goto, Enter

LEMMA TimerOfWrapperCancel ==
    ASSUME TypeOK, NEW S \in SUBSET Calls, NEW error, NEW timers \in BOOLEAN,
           WrapperCancel(S, error, timers), timers => error = "timeout"
    PROVE  DeadlineStep
<1>1. ASSUME NEW q \in Calls, stream[q].timer, ~stream'[q].timer
      PROVE  stream'[q].error = "timeout"
    <2>0. stream[q] \in Streams
        BY DEF TypeOK
    <2>1. CASE q \in S
        <3>1. stream'[q] = [stream[q] EXCEPT !.error = error, !.timer = @ /\ ~timers]
            BY <2>1 DEF WrapperCancel
        <3>2. stream'[q].error = error
            BY <2>0, <3>1 DEF Streams
        <3>3. stream'[q].timer <=> stream[q].timer /\ ~timers
            BY <2>0, <3>1 DEF Streams
        <3> QED
            BY <1>1, <3>2, <3>3
    <2>2. CASE q \notin S
        BY <1>1, <2>2 DEF WrapperCancel
    <2> QED
        BY <2>1, <2>2
<1> QED
    BY <1>1 DEF DeadlineStep

LEMMA NextDeadline == TypeOK /\ WrapperInv /\ [Next]_vars => [DeadlineStep]_vars
<1> SUFFICES ASSUME TypeOK, WrapperInv, [Next]_vars PROVE DeadlineStep
    OBVIOUS
<1>0. ASSUME UNCHANGED stream PROVE DeadlineStep
    BY <1>0 DEF DeadlineStep
<1>1. CASE ConnectionStep
    <2>1. CASE ConnectionTerminated \/ ConnectionLost
        <3>1. registered \in SUBSET Calls
            BY DEF TypeOK
        <3> QED
            BY <2>1, <3>1, TimerOfWrapperCancel DEF ConnectionTerminated, ConnectionLost
    <2>2. QED
        BY <1>0, <1>1, <2>1 DEF ConnectionStep, LimitChanged, KeepaliveTimeout,
            PauseWriting, ResumeWriting, callVars
<1>2. ASSUME NEW p \in Calls,
             TaskStep(p) \/ UserStep(p) \/ PeerStep(p) \/ DeadlineExpired(p)
      PROVE  DeadlineStep
    <2> DEFINE mine == stream[p]
    <2>0. mine \in Streams
        BY DEF TypeOK
    <2>a. \A v : /\ SameWrapper([mine EXCEPT !.got = v], mine)
                 /\ SameWrapper([mine EXCEPT !.sent = v], mine)
                 /\ SameWrapper([mine EXCEPT !.reset = v], mine)
                 /\ SameWrapper([mine EXCEPT !.read = v], mine)
        BY <2>0, FieldsOfWrapper
    <2>b. SameWrapper(mine, mine)
        BY DEF SameWrapper
    <2> USE <1>0, <2>a, <2>b, TimerOfEnd, TimerOfGoto DEF Got, Return
    <2>1. CASE SendRequest(p)
        <3>1. CASE OpenStream(p)
            <4>1. CASE link = "open"
                <5>1. PICK end \in BOOLEAN : stream' = [stream EXCEPT ![p].sent = end]
                    BY <3>1, <4>1 DEF OpenStream
                <5>2. stream' = [stream EXCEPT ![p] = [mine EXCEPT !.sent = end]]
                    BY <5>1 DEF TypeOK
                <5> QED
                    BY <5>2, TimerOfStep DEF SameWrapper
            <4>2. CASE link # "open"
                BY <3>1, <4>2, TimerOfStep DEF OpenStream, TypeOK
            <4> QED
                BY <4>1, <4>2
        <3> QED
            BY <2>1, <3>1 DEF SendRequest
    <2>2. CASE Written(p)
        BY <2>2 DEF Written
    <2>c. ASSUME ExitTrailers(p) PROVE DeadlineStep
        BY <2>c DEF ExitTrailers
    <2>3. CASE HeadersReceived(p) \/ TrailersReceived(p)
        BY <2>3, <2>c DEF HeadersReceived, TrailersReceived
    <2>4. CASE NoMoreMessages(p) \/ MessageReceived(p)
        BY <2>4 DEF NoMoreMessages, MessageReceived, Read
    <2>5. CASE Exit(p)
        BY <2>5, <2>c DEF Exit
    <2>6. CASE Cancelled(p)
        BY <2>6 DEF Cancelled
    <2>7. CASE Begin(p)
        <3>1. pc[p] = "new"
            BY <2>7 DEF Begin
        <3>2. ~mine.timer
            BY <3>1 DEF WrapperInv, TimersOfTimed
        <3>3. ASSUME NEW s, Goto(p, "top", s) PROVE DeadlineStep
            BY <3>2, <3>3, TimerOfStep DEF Goto, Hold
        <3> QED
            BY <2>7, <3>3 DEF Begin
    <2>8. CASE \/ SendMessage(p) \/ CancelCall(p) \/ ReceiveMessage(p)
              \/ Raise(p) \/ EndRequest(p) \/ Receive(p) \/ UserCancel(p)
        BY <2>8 DEF SendMessage, CancelCall, ReceiveMessage, Raise, EndRequest,
            Receive, UserCancel
    <2>9. CASE ResponseReceived(p) \/ TrailersEnd(p)
        BY <2>0, <2>9, FieldsOfWrapper DEF ResponseReceived, TrailersEnd
    <2>10. CASE StreamReset(p)
        <3>1. {p} \cap registered \in SUBSET Calls
            OBVIOUS
        <3> QED
            BY <2>10, <3>1, TimerOfWrapperCancel DEF StreamReset
    <2>11. CASE DeadlineExpired(p)
        <3>1. {p} \in SUBSET Calls
            OBVIOUS
        <3> QED
            BY <2>11, <3>1, TimerOfWrapperCancel DEF DeadlineExpired
    <2>12. QED
        BY <1>2, <2>1, <2>2, <2>3, <2>4, <2>5, <2>6, <2>7, <2>8, <2>9, <2>10, <2>11
        DEF TaskStep, UserStep, PeerStep
<1>3. CASE UNCHANGED vars
    BY <1>0, <1>3 DEF vars, callVars
<1>4. QED
    BY <1>1, <1>2, <1>3 DEF Next

(* A deadline stays set until it fires or its call is over. *)
THEOREM DeadlinesAreKept == Spec => DeadlineIsKept
<1>1. DeadlineIsKept <=> [][DeadlineStep]_vars
    BY PTL DEF DeadlineIsKept, DeadlineStep
<1>2. QED
    BY <1>1, NextDeadline, TypeCorrect, WrapperInvHolds, PTL DEF Spec
=============================================================================
