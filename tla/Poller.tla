------------------------------- MODULE Poller -------------------------------
(***************************************************************************)
(* What the modules share of sockspp::EpollPoller and sockspp::Event: the  *)
(* event flags, and the rule by which a level-triggered epoll turns the    *)
(* mask a socket was registered with and the condition of the socket into  *)
(* the flags of the event that poll() hands to the server loop.            *)
(***************************************************************************)

\* Event::Flags
Flags == {"Read", "Write", "Closed", "Error"}

\* EPOLLHUP and EPOLLERR are reported whether or not the mask asks for them.
Reported(mask, ready) == ready \cap (mask \cup {"Closed", "Error"})

\* A registered socket is returned by poll() when something is reported.
Pollable(mask, ready) == mask # {} /\ Reported(mask, ready) # {}

\* The three masks the sessions register.
ReadMask   == {"Read", "Closed"}
WriteMask  == {"Write", "Closed"}
ClosedMask == {"Closed"}
=============================================================================
