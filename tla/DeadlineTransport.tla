---------------------------- MODULE DeadlineTransport ----------------------------
(*****************************************************************************)
(* One request to the control API: ControlApiClient._request and _status of  *)
(* control_client.py over the transport of _deadline_http.py, from the       *)
(* resolver child to the last byte of the body, under one absolute deadline. *)
(* A wait is armed with the time that remains and then ends by what the peer *)
(* does, if it does anything, or when the deadline comes; the peer may fail, *)
(* answer anything, answer byte by byte, or never.                           *)
(*****************************************************************************)
EXTENDS Integers, FiniteSets

CONSTANTS
  MaxAddresses,  \* addresses a name resolves to (at most 64)
  Cap            \* api_max_response_bytes, in chunks

NoLength == -1

VARIABLES
  expired,    \* the deadline has come
  stage,      \* what the call is waiting for; "ended": no call is under way
  armed,      \* the wait has begun, with a timeout
  child,      \* the resolver process
  addresses,  \* not tried yet
  sockets,    \* open sockets
  declared,   \* Content-Length, or NoLength
  received,   \* chunks of the body
  result      \* what the caller of _request and _status got

progress == <<declared, received>>
vars == <<expired, stage, armed, child, addresses, sockets, progress, result>>

Waits == {"resolve", "connect", "handshake", "send", "head", "body"}
Refusal == {"fatal", "not found", "conflict", "transient"}

TypeOK ==
  /\ expired \in BOOLEAN /\ armed \in BOOLEAN
  /\ stage \in Waits \cup {"ended"}
  /\ child \in {"none", "running", "exited", "reaped"}
  /\ addresses \in 0..MaxAddresses
  /\ sockets \in Nat
  /\ declared \in Nat \cup {NoLength}
  /\ received \in 0..Cap
  /\ result \in Refusal \cup {"none", "response"}
  /\ stage # "ended" => result = "none"
  /\ stage = "resolve" => (armed <=> child \in {"running", "exited"})

Init ==
  /\ expired = FALSE
  /\ stage = "ended"
  /\ armed = FALSE
  /\ child = "none"
  /\ addresses = 0 /\ sockets = 0
  /\ declared = NoLength /\ received = 0
  /\ result = "none"

\* A call under a deadline of its own or, if that is earlier, its caller's.  A
\* literal address needs no resolver.
Begin ==
  /\ stage = "ended"
  /\ expired' \in BOOLEAN
  /\ \/ stage' = "resolve" /\ sockets' = 0
     \/ stage' = "connect" /\ sockets' = 1
  /\ armed' = FALSE
  /\ child' = "none"
  /\ addresses' = 0
  /\ declared' = NoLength /\ received' = 0
  /\ result' = "none"

Expire ==
  /\ stage # "ended" /\ ~expired
  /\ expired' = TRUE
  /\ UNCHANGED <<stage, armed, child, addresses, sockets, progress, result>>

\* The call ends: _stop_resolver(), and the `with` blocks of _request close the
\* response, the client and its pool.
ReapNothing == UNCHANGED child
Reap == child' = IF child = "none" THEN "none" ELSE "reaped"
End(r) ==
  /\ stage' = "ended"
  /\ result' = r
  /\ armed' = FALSE
  /\ sockets' = IF stage = "resolve" THEN sockets ELSE sockets - 1
  /\ Reap
  /\ UNCHANGED <<addresses, progress>>

\* connect_tcp() closes the socket of an address that failed and opens one for
\* the next, if the system has one left.
ReplaceSocket == sockets' = sockets
NextAddress ==
  /\ stage = "connect" /\ addresses > 0
  /\ addresses' = addresses - 1
  /\ ReplaceSocket
  /\ armed' = FALSE
  /\ UNCHANGED <<stage, child, progress, result>>

Fail == NextAddress \/ End("transient")

Enter(s) ==
  /\ stage' = s /\ armed' = FALSE
  /\ UNCHANGED <<child, addresses, sockets, progress, result>>

-----------------------------------------------------------------------------
\* Deadline.remaining(): a wait begins with the time that is left, and never
\* after the deadline.  The resolver child is started with it, unless it cannot be.
Arm ==
  /\ stage \in Waits /\ ~armed
  /\ \/ (expired \/ stage = "resolve") /\ Fail
     \/ /\ ~expired
        /\ armed' = TRUE
        /\ child' = IF stage = "resolve" THEN "running" ELSE child
        /\ UNCHANGED <<stage, addresses, sockets, progress, result>>
  /\ UNCHANGED expired

\* The timeout of the wait.
WaitingUntimed == armed /\ stage # "connect"
Waiting == armed
TimesOut == Waiting /\ expired /\ Fail /\ UNCHANGED expired

\* The resolver child ends by itself; communicate() reaps it.
ChildExits ==
  /\ child = "running"
  /\ child' = "exited"
  /\ UNCHANGED <<expired, stage, armed, addresses, sockets, progress, result>>

\* The deadline is looked at again before its output is used.
Resolved ==
  /\ stage = "resolve" /\ child = "exited"
  /\ \/ /\ ~expired
        /\ \E n \in 1..MaxAddresses : addresses' = n - 1
        /\ child' = "reaped"
        /\ stage' = "connect" /\ armed' = FALSE
        /\ sockets' = sockets + 1
        /\ UNCHANGED <<progress, result>>
     \/ Fail
  /\ UNCHANGED expired

\* ... and again after connect().
Connected ==
  /\ stage = "connect" /\ armed
  /\ ~expired /\ (Enter("handshake") \/ Enter("send"))
  /\ UNCHANGED expired

\* One round of the TLS pump, one send() or recv(): done, or more to do.
Transferred ==
  /\ armed
  /\ \/ stage = "handshake" /\ (Enter("handshake") \/ Enter("send"))
     \/ stage = "send" /\ (Enter("send") \/ Enter("head"))
     \/ stage = "head" /\ Enter("head")
  /\ UNCHANGED expired

\* The peer refuses, resets, closes too early or sends what httpcore rejects.
PeerFails == armed /\ stage \notin {"resolve"} /\ Fail /\ UNCHANGED expired

\* The status line and the headers.  _status() maps what is not 200.
Headers ==
  /\ stage = "head" /\ armed
  /\ IF expired THEN Fail
     ELSE \/ \E r \in Refusal : End(r)
          \/ \E n \in {NoLength} \cup 0..Cap :
               /\ stage' = "body" /\ armed' = FALSE
               /\ declared' = n
               /\ UNCHANGED <<child, addresses, sockets, received, result>>
  /\ UNCHANGED expired

\* One more chunk of the body: refused past the cap.
FitsOneMore == received <= Cap
Fits == received < Cap
Chunk ==
  /\ stage = "body" /\ armed
  /\ IF ~expired /\ Fits
     THEN /\ received' = received + 1
          /\ armed' = FALSE
          /\ UNCHANGED <<stage, child, addresses, sockets, declared, result>>
     ELSE Fail
  /\ UNCHANGED expired

\* Its end: a body shorter or longer than declared is refused.
Whole == declared \in {NoLength, received}
EndOfBody ==
  /\ stage = "body" /\ armed
  /\ IF ~expired /\ Whole THEN End("response") ELSE Fail
  /\ UNCHANGED expired

Peer == \/ ChildExits \/ Connected \/ Transferred \/ PeerFails
        \/ Headers \/ Chunk \/ EndOfBody
Own == Arm \/ TimesOut \/ Resolved

Step == Expire \/ Peer \/ Own
Next == Begin \/ Step

Spec == Init /\ [][Next]_vars

-----------------------------------------------------------------------------
(* Properties. *)

\* A call that has ended, however it ended, leaves no socket open and no
\* resolver child running or unreaped; while it runs it holds one socket.
NothingLeaks ==
  /\ sockets <= 1
  /\ stage = "ended" => sockets = 0 /\ child \in {"none", "reaped"}

\* After the deadline nothing is begun: no child, no connection, no transfer.
NothingBegunLate ==
  [][expired => /\ armed' => armed
                /\ child' = "running" => child = "running"]_vars

\* A response that is used came whole, within the cap, before the deadline.
Used == stage # "ended" /\ result' = "response"
OnlyWholeResponses ==
  [][Used => ~expired /\ received <= Cap /\ declared \in {NoLength, received}]_vars

\* A call ends, whatever the peer does: also when it never answers, when it
\* answers byte by byte, or when the name resolves to many dead addresses.
CallEnds == stage # "ended" ~> stage = "ended"

=============================================================================
