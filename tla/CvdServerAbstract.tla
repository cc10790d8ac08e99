------------------------- MODULE CvdServerAbstract -------------------------
(***************************************************************************)
(* What the cvd server promises each client connection, without workers, *)
(* the EpollPool or callbacks (spec 2 "Connection State Machine", spec 5  *)
(* ordering): a connection is accepted, then repeatedly reads one request *)
(* and answers it before reading the next, until it is dropped; the       *)
(* process ends only when no request is in flight.                        *)
(*                                                                         *)
(* conn[c]: "pending" (connected, not accepted), "idle" (waiting for a    *)
(* request), "busy" (a request read and not finished) or "dropped";      *)
(* replied[c]: the response to the request in flight has been written.  *)
(* The client side (peer, inbuf, awaiting, sent) is the same environment  *)
(* as in CvdServer.                                                       *)
(***************************************************************************)
EXTENDS Naturals

CONSTANTS Clients, Requests, MaxRequests, None

VARIABLES conn, replied, down, peer, inbuf, awaiting, sent

vars == <<conn, replied, down, peer, inbuf, awaiting, sent>>

Init ==
    /\ conn = [c \in Clients |-> "pending"]
    /\ replied = [c \in Clients |-> TRUE]
    /\ down = FALSE
    /\ peer = [c \in Clients |-> "idle"]
    /\ inbuf = [c \in Clients |-> None]
    /\ awaiting = [c \in Clients |-> FALSE]
    /\ sent = [c \in Clients |-> 0]

\* The server takes a connection that reached the backlog.
Accept(c) ==
    /\ conn[c] = "pending"
    /\ peer[c] # "idle"
    /\ conn' = [conn EXCEPT ![c] = "idle"]
    /\ UNCHANGED <<replied, down, peer, inbuf, awaiting, sent>>

\* An idle connection reads the one request in its socket.
Begin(c) ==
    /\ conn[c] = "idle"
    /\ inbuf[c] # None
    /\ conn' = [conn EXCEPT ![c] = "busy"]
    /\ inbuf' = [inbuf EXCEPT ![c] = None]
    /\ replied' = [replied EXCEPT ![c] = FALSE]
    /\ UNCHANGED <<down, peer, awaiting, sent>>

\* The response to the request in flight reaches a client still open.
Answer(c) ==
    /\ conn[c] = "busy"
    /\ ~replied[c]
    /\ awaiting[c]
    /\ peer[c] # "closed"
    /\ awaiting' = [awaiting EXCEPT ![c] = FALSE]
    /\ replied' = [replied EXCEPT ![c] = TRUE]
    /\ UNCHANGED <<conn, down, peer, inbuf, sent>>

\* A busy connection goes back to reading only after its response is
\* written (the client may already have sent its next request).
Finish(c) ==
    /\ conn[c] = "busy"
    /\ replied[c]
    /\ conn' = [conn EXCEPT ![c] = "idle"]
    /\ UNCHANGED <<replied, down, peer, inbuf, awaiting, sent>>

\* An accepted connection is dropped; a request it had not read is lost
\* with it.
Drop(c) ==
    /\ conn[c] \in {"idle", "busy"}
    /\ conn' = [conn EXCEPT ![c] = "dropped"]
    /\ inbuf' \in {inbuf, [inbuf EXCEPT ![c] = None]}
    /\ replied' = [replied EXCEPT ![c] = TRUE]
    /\ UNCHANGED <<down, peer, awaiting, sent>>

\* The server process ends; no request is in flight.
Shutdown ==
    /\ ~down
    /\ \A c \in Clients : conn[c] # "busy"
    /\ down' = TRUE
    /\ UNCHANGED <<conn, replied, peer, inbuf, awaiting, sent>>

ClientStep(c) ==
    /\ ~down
    /\ \/ /\ peer[c] = "idle"
          /\ peer' = [peer EXCEPT ![c] = "open"]
          /\ UNCHANGED <<inbuf, awaiting, sent>>
       \/ /\ peer[c] = "open"
          /\ conn[c] # "dropped"
          /\ ~awaiting[c]
          /\ sent[c] < MaxRequests
          /\ \E r \in Requests : inbuf' = [inbuf EXCEPT ![c] = r]
          /\ awaiting' = [awaiting EXCEPT ![c] = TRUE]
          /\ sent' = [sent EXCEPT ![c] = sent[c] + 1]
          /\ UNCHANGED peer
       \/ /\ peer[c] = "open"
          /\ peer' = [peer EXCEPT ![c] = "eof"]
          /\ UNCHANGED <<inbuf, awaiting, sent>>
       \/ /\ peer[c] \in {"open", "eof"}
          /\ peer' = [peer EXCEPT ![c] = "closed"]
          /\ UNCHANGED <<inbuf, awaiting, sent>>
    /\ UNCHANGED <<conn, replied, down>>

Next ==
    \/ \E c \in Clients :
          Accept(c) \/ Begin(c) \/ Answer(c) \/ Finish(c) \/ Drop(c)
          \/ ClientStep(c)
    \/ Shutdown

Spec == Init /\ [][Next]_vars
=============================================================================
