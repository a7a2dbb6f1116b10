------------------------------ MODULE Download ------------------------------
(***************************************************************************)
(* downloadBuffer of scripts/install-cli.mjs: one HTTPS request for a      *)
(* release document or a binary.  The handlers of the request, of the      *)
(* response and of the two timers run in any order in which their events   *)
(* can arise; the peer may declare what it likes, send what it likes, and  *)
(* stop wherever it likes.  The error says what happens next: after an     *)
(* UpdateNetworkError the cached release may be reused, after any other    *)
(* error the update fails.                                                 *)
(***************************************************************************)
EXTENDS Naturals, Sequences

CONSTANTS
  Maximum,  \* maximum, in pieces of the body
  Sizes     \* values of expectedSize; 0 when it is undefined

ASSUME DownloadAssumption == Maximum \in Nat \ {0} /\ Sizes \subseteq Nat

VARIABLES
  body,        \* what the peer has to send
  framing,     \* how the body ends: "length", "chunked", "close"
  declared,    \* the Content-Length header; 0 without one
  expected,    \* expectedSize
  total,       \* pieces that have come
  kept,        \* pieces in memory
  connection,  \* "connecting", "body", "ignored" (response.resume), "over"
  timer,       \* absoluteTimer: "armed", "off"
  outcome      \* "open", "bytes", "network" (UpdateNetworkError), "failed"

requestVars == <<body, framing, declared, expected>>
vars == <<requestVars, total, kept, connection, timer, outcome>>

\* The request has been sent.
Request(text) ==
  /\ body = text
  /\ framing \in {"length", "chunked", "close"}
  /\ declared \in IF framing = "length" THEN 0 .. Maximum + 1 ELSE {0}
  /\ expected \in Sizes
  /\ total = 0 /\ kept = 0
  /\ connection = "connecting" /\ timer = "armed" /\ outcome = "open"

Received == SubSeq(body, 1, total)

\* finish: only the first call counts.
Finish(how) ==
  /\ outcome' = IF outcome = "open" THEN how ELSE outcome
  /\ timer' = IF outcome = "open" THEN "off" ELSE timer

\* The response ends the connection before its listeners are there.
Refuse == connection' = "over" /\ Finish("failed") /\ UNCHANGED <<total, kept>>

\* The 'aborted' listener, which response.destroy() calls at once.
Abort == connection' = "over" /\ kept' = 0 /\ Finish("network")

\* request.on('error'): a connection that is refused, reset or not found is a
\* network error, one that fails TLS is not.  Within the body, 'aborted' follows.
OnError ==
  /\ connection \in {"connecting", "body"}
  /\ connection' = "over"
  /\ kept' = 0
  /\ \E how \in {"network", "failed"} : Finish(how)
  /\ UNCHANGED <<requestVars, total>>

\* The Content-Length header, if there is one.
LengthIsValid ==
  framing = "length" =>
    declared \in 1 .. Maximum /\ (expected # 0 => declared = expected)

\* Another status than 200: a transient one is a network error.
OnStatus ==
  /\ connection = "connecting"
  /\ connection' = "ignored"
  /\ \E how \in {"network", "failed"} : Finish(how)
  /\ UNCHANGED <<requestVars, total, kept>>

\* Mutant: with the response, the absolute timer is off.
OnResponseInTime ==
  /\ connection = "connecting"
  /\ \/ /\ LengthIsValid
        /\ connection' = "body" /\ timer' = "off"
        /\ UNCHANGED <<total, kept, outcome>>
     \/ ~LengthIsValid /\ Refuse
  /\ UNCHANGED requestVars

OnResponse ==
  /\ connection = "connecting"
  /\ \/ /\ LengthIsValid
        /\ connection' = "body"
        /\ UNCHANGED <<total, kept, timer, outcome>>
     \/ ~LengthIsValid /\ Refuse
  /\ UNCHANGED requestVars

\* Node's parser ends a body after its declared length.
Deliverable == IF framing = "length" /\ declared < Len(body) THEN declared ELSE Len(body)

\* What an 'end' event stands for.  A body that ends with its connection may be
\* cut anywhere.
Complete ==
  /\ framing = "length" => total = declared
  /\ framing = "chunked" => total = Len(body)

\* Mutant: the limit is off by one.
OnDataBeyond ==
  /\ connection = "body" /\ total < Deliverable
  /\ total' = total + 1
  /\ \/ /\ total > Maximum \/ (expected # 0 /\ total > expected)
        /\ Abort
     \/ /\ total <= Maximum /\ (expected # 0 => total <= expected)
        /\ kept' = kept + 1
        /\ UNCHANGED <<connection, timer, outcome>>
  /\ UNCHANGED requestVars

\* A piece too many destroys the response, whose 'aborted' listener settles the
\* download before the handler does.
OnData ==
  /\ connection = "body" /\ total < Deliverable
  /\ total' = total + 1
  /\ \/ /\ total' > Maximum \/ (expected # 0 /\ total' > expected)
        /\ Abort
     \/ /\ total' <= Maximum /\ (expected # 0 => total' <= expected)
        /\ kept' = kept + 1
        /\ UNCHANGED <<connection, timer, outcome>>
  /\ UNCHANGED requestVars

\* The connection ends within the body.
OnAborted ==
  /\ connection = "body"
  /\ framing # "close" => ~Complete
  /\ Abort
  /\ UNCHANGED <<requestVars, total>>

OnEnd ==
  /\ connection = "body" /\ Complete
  /\ connection' = "over"
  /\ Finish(IF total < 1 \/ (expected # 0 /\ total # expected) THEN "failed" ELSE "bytes")
  /\ kept' = IF outcome' = "bytes" THEN kept ELSE 0
  /\ UNCHANGED <<requestVars, total>>

\* request.destroy by the absolute timer, which ends with the download ...
OnDeadline ==
  /\ timer = "armed"
  /\ Abort
  /\ UNCHANGED <<requestVars, total>>

\* ... or by the idle timer, which ends with the connection: nothing has come for
\* that long.
OnIdle ==
  /\ connection # "over"
  /\ Abort
  /\ UNCHANGED <<requestVars, total>>

\* The response that nobody listens to ends.
IgnoredEnds ==
  /\ connection = "ignored"
  /\ connection' = "over"
  /\ UNCHANGED <<requestVars, total, kept, timer, outcome>>

Transfer ==
  \/ OnError \/ OnStatus \/ OnResponse \/ OnData \/ OnAborted \/ OnEnd
  \/ OnDeadline \/ OnIdle \/ IgnoredEnds

\* One download of a text.
Downloading(text) == Request(text) /\ [][Transfer]_vars

\* The timers run; the peer need not do anything.
Timely == WF_vars(OnDeadline)

(***************************************************************************)
(* Properties                                                              *)
(***************************************************************************)
TypeOK ==
  /\ framing \in {"length", "chunked", "close"}
  /\ declared \in 0 .. Maximum + 1 /\ expected \in Sizes
  /\ total \in Nat /\ kept \in Nat
  /\ connection \in {"connecting", "body", "ignored", "over"}
  /\ timer \in {"armed", "off"}
  /\ outcome \in {"open", "bytes", "network", "failed"}

\* Whatever the peer declares and sends, and wherever it stops, the bytes that
\* are handed on are within the limit, are as many as the signed manifest says
\* and as the response says, and are all that were received; a download that
\* ends otherwise keeps nothing and cannot be settled again.
AcceptedBytesAreWhole ==
  /\ outcome = "bytes" =>
       /\ total <= Maximum /\ kept = total
       /\ expected # 0 => total = expected
       /\ framing = "length" => total = declared
       /\ framing = "chunked" => total = Len(body)
  /\ outcome \in {"network", "failed"} => kept = 0

\* Every download is settled, though the peer accepts the connection and never
\* answers, or sends a piece of the body now and then.
DownloadSettles == <>(outcome # "open")
=============================================================================
