--------------------------- MODULE LaptopSession ---------------------------
(***************************************************************************)
(* The laptop's shared state (state.rs, AppState) and everybody who        *)
(* changes it: one control-channel handler per connection                  *)
(* (network/control_channel.rs, tokio tasks on several threads) and the    *)
(* window's thread (ui/home.rs, ui/settings.rs).                           *)
(*                                                                         *)
(* Every mutex is held for one step only, so a step here is one critical   *)
(* section: setting the session and setting the status are two steps of a  *)
(* handler, erasing the key, clearing the session and setting the status   *)
(* are three steps of the window.                                          *)
(*                                                                         *)
(* The phone is the environment: it connects, proves that it knows the     *)
(* code or the stored key or fails to, and goes away at any time.  Keys    *)
(* and proofs are left to the model of the handshake.                      *)
(***************************************************************************)
EXTENDS Integers, FiniteSets

CONSTANTS
  Phones,          \* device ids of phones
  Conns,           \* control connections the laptop serves at the same time
  MaxPairAttempts, \* MAX_PAIR_ATTEMPTS
  Overlap          \* may a phone connect while its old connection is still served?

ASSUME SessionAssumption ==
  /\ MaxPairAttempts \in Nat \ {0}
  /\ Overlap \in BOOLEAN

NoSession == [kind |-> "none"]
Sessions  == [kind : {"active"}, phone : Phones, by : Conns]

Waiting         == [kind |-> "WaitingForConnection"]
Streaming(p)    == [kind |-> "Streaming", phone |-> p]
Disconnected(p) == [kind |-> "Disconnected", phone |-> p]

VARIABLES
  \* AppState
  paired,     \* keys of config.paired_devices
  codeValid,  \* is_current_valid() of the pairing code
  session,    \* the active session; by: the connection that minted its session_id
  status,     \* ConnectionStatus, shown on the home screen
  \* the handlers
  pc,         \* where each is in handle_connection
  phone,      \* hello.device_id of the connection
  attempts,   \* rounds of complete_pairing used up
  \* the window, inside a click on Forget
  toClear,    \* phones whose session is still to be cleared
  toShow      \* phones whose session was cleared and whose status is not set yet

handlers == <<pc, phone, attempts>>
window   == <<toClear, toShow>>
vars     == <<paired, codeValid, session, status, handlers, window>>

Steps == {"free", "pairing", "granted", "opened", "beating", "closing", "cleared"}

Init ==
  /\ paired \in SUBSET Phones
  /\ codeValid = FALSE
  /\ session = NoSession
  /\ status = Waiting
  /\ pc = [c \in Conns |-> "free"]
  /\ phone \in [Conns -> Phones]
  /\ attempts = [c \in Conns |-> 0]
  /\ toClear = {}
  /\ toShow = {}

HasSession(p) == session # NoSession /\ session.phone = p

Goto(c, step) == pc' = [pc EXCEPT ![c] = step]

-----------------------------------------------------------------------------
(* handle_connection, up to the session *)

\* HELLO is read and HELLO_ACK sent: nothing shared changes in between.
Hello(c, p) ==
  /\ pc[c] = "free"
  /\ Overlap \/ \A d \in Conns : pc[d] # "free" => phone[d] # p
  /\ Goto(c, "pairing")
  /\ phone' = [phone EXCEPT ![c] = p]
  /\ attempts' = [attempts EXCEPT ![c] = 0]
  /\ UNCHANGED <<paired, codeValid, session, status, window>>

\* PAIR_REQUEST with a proof of the displayed code; PAIR_OK and CAPABILITIES go out.
PairByCode(c) ==
  /\ pc[c] = "pairing"
  /\ codeValid
  /\ paired' = paired \cup {phone[c]}
  /\ Goto(c, "granted")
  /\ UNCHANGED <<codeValid, session, status, phone, attempts, window>>

\* REPAIR with a proof of the stored key.
Repair(c) ==
  /\ pc[c] = "pairing"
  /\ phone[c] \in paired
  /\ Goto(c, "granted")
  /\ UNCHANGED <<paired, codeValid, session, status, phone, attempts, window>>

\* Mutant: one answer more than there are attempts.
RefuseOneMore(c) ==
  /\ pc[c] = "pairing"
  /\ IF attempts[c] < MaxPairAttempts
     THEN attempts' = [attempts EXCEPT ![c] = @ + 1] /\ UNCHANGED pc
     ELSE Goto(c, "free") /\ UNCHANGED attempts
  /\ UNCHANGED <<paired, codeValid, session, status, phone, window>>

\* A proof that fails, or a line that is neither request: a round is used up.
Refuse(c) ==
  /\ pc[c] = "pairing"
  /\ IF attempts[c] + 1 < MaxPairAttempts
     THEN attempts' = [attempts EXCEPT ![c] = @ + 1] /\ UNCHANGED pc
     ELSE Goto(c, "free") /\ UNCHANGED attempts
  /\ UNCHANGED <<paired, codeValid, session, status, phone, window>>

\* The socket fails, or the phone hangs up while pairing: nothing to tear down.
Abandon(c) ==
  /\ pc[c] \in {"pairing", "granted"}
  /\ Goto(c, "free")
  /\ UNCHANGED <<paired, codeValid, session, status, phone, attempts, window>>

-----------------------------------------------------------------------------
(* handle_connection, from the session on *)

\* The phone's CAPABILITIES arrived, or the end of the stream: read_line returns
\* in both cases and the result is only logged.
OpenSession(c) ==
  /\ pc[c] = "granted"
  /\ session' = [kind |-> "active", phone |-> phone[c], by |-> c]
  /\ Goto(c, "opened")
  /\ UNCHANGED <<paired, codeValid, status, phone, attempts, window>>

ShowStreaming(c) ==
  /\ pc[c] = "opened"
  /\ status' = Streaming(phone[c])
  /\ Goto(c, "beating")
  /\ UNCHANGED <<paired, codeValid, session, phone, attempts, window>>

\* Mutant: only a session that is gone counts as revoked.
RevokedIfGone(c) == session = NoSession

\* session_revoked: there is no session, or it is another phone's.
Revoked(c) == ~HasSession(phone[c])

TickRevoked(c) ==
  /\ pc[c] = "beating"
  /\ Revoked(c)
  /\ Goto(c, "closing")
  /\ UNCHANGED <<paired, codeValid, session, status, phone, attempts, window>>

\* Three beats missed, BYE, end of stream, or an error on the socket.
LoopEnds(c) ==
  /\ pc[c] = "beating"
  /\ Goto(c, "closing")
  /\ UNCHANGED <<paired, codeValid, session, status, phone, attempts, window>>

Cleared(p) == IF HasSession(p) THEN NoSession ELSE session

\* Mutant: whatever session there is, it goes.
ClearAnySession(c) ==
  /\ pc[c] = "closing"
  /\ session' = NoSession
  /\ Goto(c, "cleared")
  /\ UNCHANGED <<paired, codeValid, status, phone, attempts, window>>

\* Mutant: the session is left to the next handler.
LeaveSession(c) ==
  /\ pc[c] = "closing"
  /\ Goto(c, "cleared")
  /\ UNCHANGED <<paired, codeValid, session, status, phone, attempts, window>>

ClearSession(c) ==
  /\ pc[c] = "closing"
  /\ session' = Cleared(phone[c])
  /\ Goto(c, "cleared")
  /\ UNCHANGED <<paired, codeValid, status, phone, attempts, window>>

ShowDisconnected(c) ==
  /\ pc[c] = "cleared"
  /\ status' = Disconnected(phone[c])
  /\ Goto(c, "free")
  /\ UNCHANGED <<paired, codeValid, session, phone, attempts, window>>

-----------------------------------------------------------------------------
(* The window's thread *)

WindowIdle == toClear = {} /\ toShow = {}

\* The pairing card asks for the current code, which makes a new one if need be.
ShowCode ==
  /\ WindowIdle
  /\ status.kind # "Streaming"
  /\ ~codeValid
  /\ codeValid' = TRUE
  /\ UNCHANGED <<paired, session, status, handlers, window>>

CodeExpires ==
  /\ codeValid
  /\ codeValid' = FALSE
  /\ UNCHANGED <<paired, session, status, handlers, window>>

\* Forget one phone, or all those that were listed when the frame was drawn.
ForgetKeys(S) ==
  /\ WindowIdle
  /\ S # {}
  /\ paired' = paired \ S
  /\ toClear' = S
  /\ UNCHANGED <<codeValid, session, status, handlers, toShow>>

ForgetSession(p) ==
  /\ p \in toClear /\ toShow = {}
  /\ session' = Cleared(p)
  /\ toShow' = IF HasSession(p) THEN {p} ELSE {}
  /\ toClear' = toClear \ {p}
  /\ UNCHANGED <<paired, codeValid, status, handlers>>

ForgetStatus(p) ==
  /\ p \in toShow
  /\ status' = Disconnected(p)
  /\ toShow' = {}
  /\ UNCHANGED <<paired, codeValid, session, handlers, toClear>>

-----------------------------------------------------------------------------
Handler(c) ==
  \/ \E p \in Phones : Hello(c, p)
  \/ PairByCode(c) \/ Repair(c) \/ Refuse(c) \/ Abandon(c)
  \/ OpenSession(c) \/ ShowStreaming(c)
  \/ TickRevoked(c) \/ LoopEnds(c)
  \/ ClearSession(c) \/ ShowDisconnected(c)

Window ==
  \/ ShowCode
  \/ \E S \in SUBSET paired : ForgetKeys(S)
  \/ \E p \in Phones : ForgetSession(p) \/ ForgetStatus(p)

Next == (\E c \in Conns : Handler(c)) \/ Window \/ CodeExpires

Spec == Init /\ [][Next]_vars

(***************************************************************************)
(* Fairness.  A handler's own steps and a click's own steps are taken by   *)
(* running threads, and the heartbeat ticker fires every second.  Nothing  *)
(* is assumed of the phone, nor of the user.                               *)
(***************************************************************************)
FairSpec ==
  /\ Spec
  /\ \A c \in Conns :
       /\ WF_vars(ShowStreaming(c)) /\ WF_vars(TickRevoked(c))
       /\ WF_vars(ClearSession(c)) /\ WF_vars(ShowDisconnected(c))
  /\ \A p \in Phones : WF_vars(ForgetSession(p)) /\ WF_vars(ForgetStatus(p))

-----------------------------------------------------------------------------
(* Properties *)

\* Every field holds a value of its type; no connection uses more rounds of
\* complete_pairing than it has.
TypeOK ==
  /\ paired \in SUBSET Phones
  /\ codeValid \in BOOLEAN
  /\ session \in Sessions \cup {NoSession}
  /\ status \in {Waiting} \cup {Streaming(p) : p \in Phones} \cup {Disconnected(p) : p \in Phones}
  /\ pc \in [Conns -> Steps]
  /\ phone \in [Conns -> Phones]
  /\ attempts \in [Conns -> 0..(MaxPairAttempts - 1)]
  /\ toClear \in SUBSET Phones
  /\ toShow \in SUBSET Phones

\* No session is orphaned: the connection that opened the session is still being
\* served, by a handler that has yet to tear the session of its phone down.
SessionHasHandler ==
  session # NoSession =>
    /\ pc[session.by] \in {"opened", "beating", "closing"}
    /\ phone[session.by] = session.phone

\* "Streaming" is never left on the screen by a handler that is gone: some handler
\* of that phone is still there, and will set the status before it ends.
StreamingHasHandler ==
  status.kind = "Streaming" =>
    \E c \in Conns : pc[c] \in {"beating", "closing", "cleared"} /\ phone[c] = status.phone

\* Whatever the order of forgetting, takeover and teardown, the screen does not
\* claim to stream to a phone that has no session for ever (while it does, there
\* is no pairing code to recover with).
ScreenRecovers ==
  []<>(status.kind = "Streaming" => HasSession(status.phone))

\* A session is never ended by another phone's connection: it ends when its phone is
\* being forgotten, or by the teardown of a connection of that phone.
OnlyOwnPhoneEnds ==
  [][session # NoSession /\ session' = NoSession
       => \/ session.phone \in toClear
          \/ \E c \in Conns : pc[c] = "closing" /\ phone[c] = session.phone]_vars

\* "3 consecutive missed PONGs => treat as disconnected": a session ends only for a
\* cause of its own. Its own connection ended, its phone is being forgotten, or a
\* phone that proved itself takes over.
SessionEndsForCause ==
  [][session # NoSession /\ session' # session
       => \/ pc[session.by] = "closing"
          \/ session.phone \in toClear
          \/ session' # NoSession]_vars

\* Nobody is about to touch the session or the status.
Settled ==
  /\ WindowIdle
  /\ \A c \in Conns : \/ pc[c] \in {"free", "pairing", "granted"}
                      \/ pc[c] = "beating" /\ ~Revoked(c)

\* Once everybody is done, a screen that says "Streaming" is right: the phone it
\* names has the session, however often it was forgotten or overtaken meanwhile.
StreamingMeansSession ==
  Settled /\ status.kind = "Streaming" => HasSession(status.phone)
=============================================================================
