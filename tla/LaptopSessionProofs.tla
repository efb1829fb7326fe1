------------------------ MODULE LaptopSessionProofs ------------------------
(* Theorems about the laptop's sessions, for every set of phones and of       *)
(* connections and every limit of pairing attempts.                           *)
EXTENDS LaptopSession, TLAPS

-----------------------------------------------------------------------------
(* Sessions and statuses are told apart by their kind.                        *)

\* The session OpenSession mints is a session, and is the one of its phone and of
\* its connection.
LEMMA ActiveSession ==
  ASSUME NEW p \in Phones, NEW c \in Conns,
         NEW s, s = [kind |-> "active", phone |-> p, by |-> c]
  PROVE  s \in Sessions /\ s # NoSession /\ s.phone = p /\ s.by = c
<1>1. s.kind # NoSession.kind
  BY DEF NoSession
<1>2. QED
  BY <1>1 DEF Sessions

\* A session that exists has a phone and the connection that opened it.
LEMMA SessionFields ==
  ASSUME session \in Sessions \cup {NoSession}, session # NoSession
  PROVE  session.phone \in Phones /\ session.by \in Conns
  BY DEF Sessions

\* clear_session_if leaves a session or none.
LEMMA ClearedType ==
  ASSUME session \in Sessions \cup {NoSession}, NEW p
  PROVE  Cleared(p) \in Sessions \cup {NoSession}
  BY DEF Cleared

-----------------------------------------------------------------------------
(* Type correctness *)

\* The shared state and the handlers keep their types, and no connection gets more
\* rounds of complete_pairing than MAX_PAIR_ATTEMPTS.
THEOREM TypeCorrect == Spec => []TypeOK
<1>1. Init => TypeOK
  <2> SUFFICES ASSUME Init PROVE TypeOK
    OBVIOUS
  <2>1. codeValid \in BOOLEAN
    BY Zenon DEF Init
  <2>2. QED
    BY <2>1, SessionAssumption DEF Init, TypeOK, Steps
<1>2. TypeOK /\ [Next]_vars => TypeOK'
  <2> SUFFICES ASSUME TypeOK, [Next]_vars PROVE TypeOK'
    OBVIOUS
  <2>1. ASSUME NEW c \in Conns, NEW p \in Phones, Hello(c, p) PROVE TypeOK'
    BY <2>1, SessionAssumption DEF TypeOK, Hello, Goto, Steps, window
  <2>2. ASSUME NEW c \in Conns, PairByCode(c) PROVE TypeOK'
    BY <2>2 DEF TypeOK, PairByCode, Goto, Steps, window
  <2>3. ASSUME NEW c \in Conns, Repair(c) PROVE TypeOK'
    BY <2>3 DEF TypeOK, Repair, Goto, Steps, window
  <2>4. ASSUME NEW c \in Conns, Refuse(c) PROVE TypeOK'
    BY <2>4, SessionAssumption DEF TypeOK, Refuse, Goto, Steps, window
  <2>5. ASSUME NEW c \in Conns, Abandon(c) PROVE TypeOK'
    BY <2>5 DEF TypeOK, Abandon, Goto, Steps, window
  <2>6. ASSUME NEW c \in Conns, OpenSession(c) PROVE TypeOK'
    <3>1. session' \in Sessions
      BY <2>6, ActiveSession DEF OpenSession, TypeOK
    <3>2. QED
      BY <2>6, <3>1 DEF TypeOK, OpenSession, Goto, Steps, window
  <2>7. ASSUME NEW c \in Conns, ShowStreaming(c) PROVE TypeOK'
    BY <2>7 DEF TypeOK, ShowStreaming, Goto, Steps, window
  <2>8. ASSUME NEW c \in Conns, TickRevoked(c) \/ LoopEnds(c) PROVE TypeOK'
    BY <2>8 DEF TypeOK, TickRevoked, LoopEnds, Goto, Steps, window
  <2>9. ASSUME NEW c \in Conns, ClearSession(c) PROVE TypeOK'
    <3>1. session' \in Sessions \cup {NoSession}
      BY <2>9, ClearedType DEF ClearSession, TypeOK
    <3>2. QED
      BY <2>9, <3>1 DEF TypeOK, ClearSession, Goto, Steps, window
  <2>10. ASSUME NEW c \in Conns, ShowDisconnected(c) PROVE TypeOK'
    BY <2>10 DEF TypeOK, ShowDisconnected, Goto, Steps, window
  <2>11. ASSUME ShowCode \/ CodeExpires PROVE TypeOK'
    <3>1. codeValid' \in BOOLEAN
      BY <2>11, Zenon DEF ShowCode, CodeExpires
    <3>2. UNCHANGED <<paired, session, status, handlers, window>>
      BY <2>11, Zenon DEF ShowCode, CodeExpires
    <3>3. QED
      BY <3>1, <3>2 DEF TypeOK, handlers, window
  <2>12. ASSUME NEW S \in SUBSET paired, ForgetKeys(S) PROVE TypeOK'
    BY <2>12 DEF TypeOK, ForgetKeys, handlers
  <2>13. ASSUME NEW p \in Phones, ForgetSession(p) PROVE TypeOK'
    <3>1. session' \in Sessions \cup {NoSession}
      BY <2>13, ClearedType DEF ForgetSession, TypeOK
    <3>2. toShow' \in SUBSET Phones
      BY <2>13 DEF ForgetSession
    <3>3. QED
      BY <2>13, <3>1, <3>2 DEF TypeOK, ForgetSession, handlers
  <2>14. ASSUME NEW p \in Phones, ForgetStatus(p) PROVE TypeOK'
    BY <2>14 DEF TypeOK, ForgetStatus, handlers
  <2>15. CASE UNCHANGED vars
    BY <2>15 DEF TypeOK, vars, handlers, window
  <2>16. QED
    BY <2>1, <2>2, <2>3, <2>4, <2>5, <2>6, <2>7, <2>8, <2>9, <2>10, <2>11, <2>12,
       <2>13, <2>14, <2>15
    DEF Next, Handler, Window
<1>3. QED
  BY <1>1, <1>2, PTL DEF Spec

-----------------------------------------------------------------------------
(* No session is orphaned.  The invariant is inductive: the handler that opened  *)
(* the session clears it before it can end, because the phone of a connection    *)
(* does not change while it is served.                                           *)

Serving == {"opened", "beating", "closing"}

\* A step that leaves session, and the handler it belongs to, in place.
LEMMA SessionKept ==
  ASSUME TypeOK, SessionHasHandler, session' = session,
         NEW c \in Conns, phone' = phone,
         NEW step, pc' = [pc EXCEPT ![c] = step],
         pc[c] \in Serving => step \in Serving
  PROVE  SessionHasHandler'
<1> SUFFICES ASSUME session # NoSession
             PROVE  pc'[session.by] \in Serving /\ phone[session.by] = session.phone
  BY DEF SessionHasHandler, Serving
<1>1. session.by \in Conns
  BY SessionFields DEF TypeOK
<1>2. QED
  BY <1>1 DEF SessionHasHandler, TypeOK, Serving

\* Whatever the phones and the window do, the active session has its own handler,
\* which has yet to reach clear_session_if.
THEOREM SessionServed == Spec => []SessionHasHandler
<1>1. Init => SessionHasHandler
  BY DEF Init, SessionHasHandler
<1>2. TypeOK /\ SessionHasHandler /\ [Next]_vars => SessionHasHandler'
  <2> SUFFICES ASSUME TypeOK, SessionHasHandler, [Next]_vars PROVE SessionHasHandler'
    OBVIOUS
  <2>0. session # NoSession => session.phone \in Phones /\ session.by \in Conns
    BY SessionFields DEF TypeOK
  <2>1. ASSUME NEW c \in Conns, NEW p \in Phones, Hello(c, p) PROVE SessionHasHandler'
    BY <2>0, <2>1 DEF TypeOK, Hello, Goto, SessionHasHandler
  <2>2. ASSUME NEW c \in Conns, PairByCode(c) \/ Repair(c) PROVE SessionHasHandler'
    BY <2>2, SessionKept DEF PairByCode, Repair, Goto, Serving
  <2>3. ASSUME NEW c \in Conns, Refuse(c) PROVE SessionHasHandler'
    <3>1. CASE UNCHANGED pc
      BY <2>3, <3>1 DEF Refuse, SessionHasHandler
    <3>2. CASE Goto(c, "free")
      BY <2>3, <3>2, SessionKept DEF Refuse, Goto, Serving
    <3>3. QED
      BY <2>3, <3>1, <3>2 DEF Refuse
  <2>4. ASSUME NEW c \in Conns, Abandon(c) PROVE SessionHasHandler'
    BY <2>4, SessionKept DEF Abandon, Goto, Serving
  <2>5. ASSUME NEW c \in Conns, OpenSession(c) PROVE SessionHasHandler'
    <3>1. session'.phone = phone[c] /\ session'.by = c
      BY <2>5, ActiveSession DEF OpenSession, TypeOK
    <3>2. pc'[c] = "opened" /\ phone'[c] = phone[c]
      BY <2>5 DEF OpenSession, Goto, TypeOK
    <3>3. QED
      BY <3>1, <3>2 DEF SessionHasHandler
  <2>6. ASSUME NEW c \in Conns, ShowStreaming(c) \/ TickRevoked(c) \/ LoopEnds(c)
        PROVE  SessionHasHandler'
    BY <2>6, SessionKept DEF ShowStreaming, TickRevoked, LoopEnds, Goto, Serving
  <2>7. ASSUME NEW c \in Conns, ClearSession(c) PROVE SessionHasHandler'
    <3>1. CASE HasSession(phone[c])
      BY <2>7, <3>1 DEF ClearSession, Cleared, SessionHasHandler
    <3>2. CASE ~HasSession(phone[c])
      <4>1. session' = session
        BY <2>7, <3>2 DEF ClearSession, Cleared
      <4>2. session # NoSession => session.by # c
        BY <3>2 DEF SessionHasHandler, HasSession
      <4>3. QED
        BY <2>0, <2>7, <4>1, <4>2 DEF ClearSession, Goto, TypeOK, SessionHasHandler
    <3>3. QED
      BY <3>1, <3>2
  <2>8. ASSUME NEW c \in Conns, ShowDisconnected(c) PROVE SessionHasHandler'
    BY <2>8, SessionKept DEF ShowDisconnected, Goto, Serving
  <2>9. ASSUME NEW p \in Phones, ForgetSession(p) PROVE SessionHasHandler'
    BY <2>9 DEF ForgetSession, Cleared, SessionHasHandler, handlers
  <2>10. CASE UNCHANGED <<session, handlers>>
    BY <2>10 DEF SessionHasHandler, handlers
  <2>11. ASSUME ShowCode \/ CodeExpires \/ (\E S \in SUBSET paired : ForgetKeys(S))
                \/ (\E p \in Phones : ForgetStatus(p)) \/ UNCHANGED vars
         PROVE  UNCHANGED <<session, handlers>>
    BY <2>11, Zenon DEF ShowCode, CodeExpires, ForgetKeys, ForgetStatus, vars
  <2>12. QED
    BY <2>1, <2>2, <2>3, <2>4, <2>5, <2>6, <2>7, <2>8, <2>9, <2>10, <2>11
    DEF Next, Handler, Window
<1>3. QED
  BY <1>1, <1>2, TypeCorrect, PTL DEF Spec

-----------------------------------------------------------------------------
(* "Streaming" on the screen always has a handler behind it, which will take it  *)
(* back: every handler that ends sets "Disconnected" last, so the one that set   *)
(* "Streaming" cannot be gone.                                                   *)

Behind(c) == pc[c] \in {"beating", "closing", "cleared"} /\ phone[c] = status.phone

\* A step that leaves the status, and every handler that may be behind it, alone.
LEMMA StreamingKept ==
  ASSUME StreamingHasHandler, UNCHANGED status,
         \A c \in Conns : Behind(c) => Behind(c)'
  PROVE  StreamingHasHandler'
  BY DEF StreamingHasHandler, Behind

\* The statuses are told apart by their kind, and name the phone they were set for.
LEMMA StatusKinds ==
  ASSUME NEW p
  PROVE  /\ Streaming(p).phone = p
         /\ Disconnected(p).kind # "Streaming"
         /\ Waiting.kind # "Streaming"
  BY DEF Streaming, Disconnected, Waiting

\* A handler of the phone the screen claims to stream to is still running, and sets
\* the status to Disconnected as its last step (handle_connection).
THEOREM StreamingAttended == Spec => []StreamingHasHandler
<1>1. Init => StreamingHasHandler
  BY StatusKinds DEF Init, StreamingHasHandler
<1>2. TypeOK /\ StreamingHasHandler /\ [Next]_vars => StreamingHasHandler'
  <2> SUFFICES ASSUME TypeOK, StreamingHasHandler, [Next]_vars
               PROVE  StreamingHasHandler'
    OBVIOUS
  <2>1. ASSUME NEW c \in Conns, NEW p \in Phones, Hello(c, p) PROVE StreamingHasHandler'
    <3>1. \A d \in Conns : Behind(d) => Behind(d)'
      BY <2>1 DEF Hello, Goto, Behind, TypeOK
    <3>2. QED
      BY <2>1, <3>1, StreamingKept DEF Hello
  <2>2. ASSUME NEW c \in Conns,
               PairByCode(c) \/ Repair(c) \/ Refuse(c) \/ Abandon(c) \/ OpenSession(c)
        PROVE  StreamingHasHandler'
    <3>1. UNCHANGED <<status, phone>> /\ (UNCHANGED pc \/ \E step \in Steps : Goto(c, step))
      BY <2>2 DEF PairByCode, Repair, Refuse, Abandon, OpenSession, Steps
    <3>2. pc[c] \notin {"beating", "closing", "cleared"}
      BY <2>2 DEF PairByCode, Repair, Refuse, Abandon, OpenSession
    <3>3. \A d \in Conns : Behind(d) => Behind(d)'
      BY <3>1, <3>2 DEF Goto, Behind, TypeOK
    <3>4. QED
      BY <3>1, <3>3, StreamingKept
  <2>3. ASSUME NEW c \in Conns, ShowStreaming(c) PROVE StreamingHasHandler'
    <3>1. Behind(c)'
      BY <2>3, StatusKinds DEF ShowStreaming, Goto, Behind, TypeOK
    <3>2. QED
      BY <3>1 DEF StreamingHasHandler, Behind
  <2>4. ASSUME NEW c \in Conns, TickRevoked(c) \/ LoopEnds(c) \/ ClearSession(c)
        PROVE  StreamingHasHandler'
    <3>1. UNCHANGED <<status, phone>> /\ (Goto(c, "closing") \/ Goto(c, "cleared"))
      BY <2>4 DEF TickRevoked, LoopEnds, ClearSession
    <3>2. \A d \in Conns : Behind(d) => Behind(d)'
      BY <3>1 DEF Goto, Behind, TypeOK
    <3>3. QED
      BY <3>1, <3>2, StreamingKept
  <2>5. ASSUME (\E c \in Conns : ShowDisconnected(c)) \/ (\E p \in Phones : ForgetStatus(p))
        PROVE  StreamingHasHandler'
    BY <2>5, StatusKinds DEF ShowDisconnected, ForgetStatus, StreamingHasHandler
  <2>6. CASE UNCHANGED <<status, handlers>>
    BY <2>6 DEF StreamingHasHandler, handlers
  <2>7. ASSUME ShowCode \/ CodeExpires \/ (\E S \in SUBSET paired : ForgetKeys(S))
               \/ (\E p \in Phones : ForgetSession(p)) \/ UNCHANGED vars
        PROVE  UNCHANGED <<status, handlers>>
    BY <2>7, Zenon DEF ShowCode, CodeExpires, ForgetKeys, ForgetSession, vars
  <2>8. QED
    BY <2>1, <2>2, <2>3, <2>4, <2>5, <2>6, <2>7 DEF Next, Handler, Window
<1>3. QED
  BY <1>1, <1>2, TypeCorrect, PTL DEF Spec

\* When nobody is about to act, the handler behind "Streaming" is beating with the
\* session of its phone.
THEOREM StreamingTrue == Spec => []StreamingMeansSession
<1>1. StreamingHasHandler => StreamingMeansSession
  BY DEF StreamingHasHandler, StreamingMeansSession, Settled, Revoked
<1>2. QED
  BY <1>1, StreamingAttended, PTL

-----------------------------------------------------------------------------
(* Who ends a session *)

\* clear_session_if compares device ids: a session is only ever cleared by the window,
\* for a phone it forgets, or by the teardown of a connection of the same phone.
THEOREM StrangersKeepOut == Spec => OnlyOwnPhoneEnds
<1> DEFINE Allowed == \/ session.phone \in toClear
                      \/ \E c \in Conns : pc[c] = "closing" /\ phone[c] = session.phone
<1>1. ASSUME TypeOK, [Next]_vars, session # NoSession, session' = NoSession
      PROVE  Allowed
  <2>1. ASSUME NEW c \in Conns, OpenSession(c) PROVE FALSE
    BY <1>1, <2>1, ActiveSession DEF OpenSession, TypeOK
  <2>2. ASSUME NEW c \in Conns, ClearSession(c) PROVE Allowed
    BY <1>1, <2>2 DEF ClearSession, Cleared, HasSession
  <2>3. ASSUME NEW p \in Phones, ForgetSession(p) PROVE Allowed
    BY <1>1, <2>3 DEF ForgetSession, Cleared, HasSession
  <2>4. \/ \E c \in Conns : OpenSession(c) \/ ClearSession(c)
        \/ \E p \in Phones : ForgetSession(p)
    BY <1>1, Zenon
    DEF Next, Handler, Window, Hello, PairByCode, Repair, Refuse, Abandon, ShowStreaming,
        TickRevoked, LoopEnds, ShowDisconnected, ShowCode, CodeExpires, ForgetKeys,
        ForgetStatus, vars
  <2>5. QED
    BY <2>1, <2>2, <2>3, <2>4
<1>2. TypeOK /\ [Next]_vars => [session # NoSession /\ session' = NoSession => Allowed]_vars
  BY <1>1
<1>3. QED
  BY <1>2, TypeCorrect, PTL DEF Spec, OnlyOwnPhoneEnds

-----------------------------------------------------------------------------
(* If a phone does not connect while its old connection is still served, only    *)
(* the handler of a session's own connection tears it down.                      *)

OneConnectionEach ==
  \A c, d \in Conns :
    pc[c] # "free" /\ pc[d] # "free" /\ phone[c] = phone[d] => c = d

\* Without overlap a phone has one connection that is being served.
LEMMA OneEach == ~Overlap => (Spec => []OneConnectionEach)
<1> SUFFICES ASSUME ~Overlap PROVE Spec => []OneConnectionEach
  OBVIOUS
<1>1. Init => OneConnectionEach
  BY DEF Init, OneConnectionEach
<1>2. TypeOK /\ OneConnectionEach /\ [Next]_vars => OneConnectionEach'
  <2> SUFFICES ASSUME TypeOK, OneConnectionEach, [Next]_vars PROVE OneConnectionEach'
    OBVIOUS
  <2>1. ASSUME NEW c \in Conns, NEW p \in Phones, Hello(c, p) PROVE OneConnectionEach'
    <3>1. \A d \in Conns : pc[d] # "free" => phone[d] # p
      BY <2>1, Zenon DEF Hello
    <3>2. QED
      BY <2>1, <3>1 DEF Hello, Goto, OneConnectionEach, TypeOK
  <2>2. ASSUME NEW c \in Conns, pc[c] # "free", UNCHANGED phone,
               UNCHANGED pc \/ \E step \in Steps : Goto(c, step)
        PROVE  OneConnectionEach'
    BY <2>2 DEF Goto, OneConnectionEach, TypeOK
  <2>3. ASSUME NEW c \in Conns,
               \/ PairByCode(c) \/ Repair(c) \/ Refuse(c) \/ Abandon(c)
               \/ OpenSession(c) \/ ShowStreaming(c) \/ TickRevoked(c) \/ LoopEnds(c)
               \/ ClearSession(c) \/ ShowDisconnected(c)
        PROVE  OneConnectionEach'
    <3>1. /\ pc[c] # "free"
          /\ UNCHANGED phone
          /\ UNCHANGED pc \/ \E step \in Steps : Goto(c, step)
      BY <2>3
      DEF PairByCode, Repair, Refuse, Abandon, OpenSession, ShowStreaming, TickRevoked,
          LoopEnds, ClearSession, ShowDisconnected, Steps
    <3>2. QED
      BY <2>2, <3>1
  <2>4. CASE UNCHANGED handlers
    BY <2>4 DEF OneConnectionEach, handlers
  <2>5. ASSUME Window \/ CodeExpires \/ UNCHANGED vars PROVE UNCHANGED handlers
    BY <2>5, Zenon
    DEF Window, ShowCode, CodeExpires, ForgetKeys, ForgetSession, ForgetStatus, vars
  <2>6. QED
    BY <2>1, <2>3, <2>4, <2>5 DEF Next, Handler
<1>3. QED
  BY <1>1, <1>2, TypeCorrect, PTL DEF Spec

\* Without overlap, comparing device ids in clear_session_if is as good as comparing
\* sessions: a session ends for a cause of its own.  With overlap it does not hold.
THEOREM SessionEnds == ~Overlap => (Spec => SessionEndsForCause)
<1> SUFFICES ASSUME ~Overlap PROVE Spec => SessionEndsForCause
  OBVIOUS
<1> DEFINE Cause == \/ pc[session.by] = "closing"
                    \/ session.phone \in toClear
                    \/ session' # NoSession
<1>1. ASSUME TypeOK, SessionHasHandler, OneConnectionEach, [Next]_vars,
             session # NoSession, session' # session
      PROVE  Cause
  <2>0. session.by \in Conns
    BY <1>1, SessionFields DEF TypeOK
  <2>1. ASSUME NEW c \in Conns, OpenSession(c) PROVE Cause
    BY <1>1, <2>1, ActiveSession DEF OpenSession, TypeOK
  <2>2. ASSUME NEW c \in Conns, ClearSession(c) PROVE Cause
    <3>1. HasSession(phone[c])
      BY <1>1, <2>2 DEF ClearSession, Cleared
    <3>2. session.by = c
      BY <1>1, <2>0, <2>2, <3>1
      DEF HasSession, SessionHasHandler, OneConnectionEach, ClearSession
    <3>3. QED
      BY <2>2, <3>2 DEF ClearSession
  <2>3. ASSUME NEW p \in Phones, ForgetSession(p) PROVE Cause
    BY <1>1, <2>3 DEF ForgetSession, Cleared, HasSession
  <2>4. \/ \E c \in Conns : OpenSession(c) \/ ClearSession(c)
        \/ \E p \in Phones : ForgetSession(p)
    BY <1>1, Zenon
    DEF Next, Handler, Window, Hello, PairByCode, Repair, Refuse, Abandon, ShowStreaming,
        TickRevoked, LoopEnds, ShowDisconnected, ShowCode, CodeExpires, ForgetKeys,
        ForgetStatus, vars
  <2>5. QED
    BY <2>1, <2>2, <2>3, <2>4
<1>2. TypeOK /\ SessionHasHandler /\ OneConnectionEach /\ [Next]_vars
        => [session # NoSession /\ session' # session => Cause]_vars
  BY <1>1
<1>3. Spec => [][Next]_vars
  BY PTL DEF Spec
<1>4. QED
  BY <1>2, <1>3, TypeCorrect, SessionServed, OneEach, PTL DEF SessionEndsForCause
=============================================================================
