----------------------------- MODULE MCServers -----------------------------
(***************************************************************************)
(* Small instances of EpollLoop and SelectServer for TLC, in one run: at   *)
(* the start one of the two is chosen, and the other stays in its initial  *)
(* state.                                                                  *)
(***************************************************************************)
EXTENDS MCEpollLoop

CONSTANTS SelConns, SelUnused, SelFds, SelMaxUnread  \* of SelectServer

ASSUME SelAssumption == SelFds \in Nat /\ SelUnused \notin SelConns

VARIABLES which, selpc, readfds, testfds, fd, selfdtab, selconn, selpeer, selrx, selwritable

selVars == <<selpc, readfds, testfds, fd, selfdtab, selconn, selpeer, selrx, selwritable>>

Sel == INSTANCE SelectServer WITH
    pc <- selpc, fdtab <- selfdtab, conn <- selconn, peer <- selpeer,
    rx <- selrx, writable <- selwritable,
    Conns <- SelConns, Unused <- SelUnused, NFds <- SelFds, MaxUnread <- SelMaxUnread

ServersInit == which \in {"epoll", "select"} /\ Init /\ Sel!Init

ServersNext ==
    /\ UNCHANGED which
    /\ \/ which = "epoll" /\ Next /\ UNCHANGED selVars
       \/ which = "select" /\ Sel!Next /\ UNCHANGED vars

ServersSpec == ServersInit /\ [][ServersNext]_<<which, vars, selVars>>

-----------------------------------------------------------------------------
\* The server with select knows its clients, and never waits for one of them.
SelectedExact == Sel!SelectedExact
=============================================================================
