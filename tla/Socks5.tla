------------------------------- MODULE Socks5 -------------------------------
(***************************************************************************)
(* What a SOCKS5 client may rely on, whatever the server does inside: the  *)
(* phases of a session and the message the server sends at each change of  *)
(* phase.  A session may be aborted without a message at any time.         *)
(***************************************************************************)
EXTENDS Sequences

CONSTANT AuthRequired

VARIABLES
    phase,   \* greeting, auth, request, pending, relay, refused, over
    sent,    \* messages the server has sent
    trusted  \* the client showed the right credentials

Init ==
    /\ phase = "greeting"
    /\ sent = <<>>
    /\ trusted = FALSE

Says(m) == sent' = Append(sent, m)

\* The server names the method it wants, or none, and then hangs up.
AnswerGreeting ==
    /\ phase = "greeting"
    /\ UNCHANGED trusted
    /\ \/ Says("method") /\ phase' = IF AuthRequired THEN "auth" ELSE "request"
       \/ Says("nomethod") /\ phase' = "over"

AnswerAuth ==
    /\ phase = "auth"
    /\ \/ Says("authok") /\ phase' = "request" /\ trusted' = TRUE
       \/ Says("authbad") /\ phase' = "over" /\ UNCHANGED trusted

\* The request is valid and is being worked on.
TakeRequest == phase = "request" /\ phase' = "pending" /\ UNCHANGED <<sent, trusted>>

Grant ==
    /\ phase \in {"request", "pending"}
    /\ Says("success")
    /\ phase' = "relay"
    /\ UNCHANGED trusted

\* A refused session is over at once, or only waits for the client to leave.
Refuse ==
    /\ phase \in {"request", "pending"}
    /\ \E why \in {"CommandNotSupported", "AddrTypeNotSupported",
                   "GeneralFailure", "Unreachable"} : Says(why)
    /\ phase' \in {"refused", "over"}
    /\ UNCHANGED trusted

Abort == phase # "over" /\ phase' = "over" /\ UNCHANGED <<sent, trusted>>

Next ==
    AnswerGreeting \/ AnswerAuth \/ TakeRequest \/ Grant \/ Refuse \/ Abort

Spec == Init /\ [][Next]_<<phase, sent, trusted>>
=============================================================================
