-------------------------------- MODULE ViewPath --------------------------------
(* The way of a live view through camrelay: the handshake of run_tunnel with the *)
(* camera (P2PHandshake), the connection of the gateway's ffmpeg through the     *)
(* proxy (RtspProxy), and the WebRTC sessions of the viewers (WhepSessions).     *)
(*                                                                               *)
(* They are coupled as the code couples them: nothing listens on the local port  *)
(* before the tunnel is Running; issue_live_ticket refuses before that; and      *)
(* MediaMTX opens a session only while ffmpeg publishes the camera's stream,     *)
(* which is not compared again when a ticket is used.  One handshake and one     *)
(* connection: restarts of the tunnel and of ffmpeg are TunnelManager's and      *)
(* MediaGateway's.                                                               *)
EXTENDS P2PHandshake, RtspProxy, WhepSessions

viewVars == <<p2pVars, rtspVars, whepVars>>

ViewInit == P2PInit /\ RtspInit /\ WhepInit

Running == phase = "running"

\* The tunnel comes up.
TunnelStep == P2PNext /\ UNCHANGED <<rtspVars, whepVars>>

\* Mutant: connections are taken before the handshake has ended.
GatewayStepEarly == RtspNext /\ UNCHANGED <<p2pVars, whepVars>>

\* ffmpeg and the camera talk through the proxy.
GatewayStep == Running /\ RtspNext /\ UNCHANGED <<p2pVars, whepVars>>

IssueTicket(t) == Running /\ Issue(t)

\* MediaMTX has a stream to play, so that a POST succeeds.
PostMade(v, i) == Playing /\ PostOpens(v, i)

TicketStep == \E t \in Tickets : IssueTicket(t) \/ Expire(t)

PostStep(v) ==
    \/ \E t \in Tickets : PostBegin(v, t)
    \/ \E i \in Ids : PostMade(v, i)
    \/ PostFails(v) \/ PostMisplaced(v)
    \/ PostEnters(v) \/ PostReturns(v) \/ PostUnanswered(v)

SessionStep(v) ==
    \/ \E t \in Tickets, i \in Ids : PatchBegin(v, t, i) \/ DeleteBegin(v, t, i)
    \/ PatchReturns(v) \/ DeleteReturns(v) \/ DeleteFails(v)
    \/ ViewerLeaves(v)

ViewerStep ==
    /\ \/ TicketStep
       \/ \E v \in Viewers : PostStep(v) \/ SessionStep(v)
       \/ \E i \in Ids : RemoteEnds(i)
    /\ UNCHANGED <<p2pVars, rtspVars>>

ViewNext == TunnelStep \/ GatewayStep \/ ViewerStep

ViewSpec == ViewInit /\ [][ViewNext]_viewVars

\* The handshake ends its reads itself; the proxy's task and the camera go on while
\* the tunnel is Running.
ViewFairSpec ==
    /\ ViewSpec
    /\ WF_viewVars(Progress /\ UNCHANGED <<rtspVars, whepVars>>)
    /\ WF_viewVars(Running /\ ProxyStep /\ UNCHANGED <<p2pVars, whepVars>>)
    /\ WF_viewVars(Running /\ Camera /\ UNCHANGED <<p2pVars, whepVars>>)

-------------------------------------------------------------------------------
\* Every variable of the three parts keeps to its values, and nobody has a session
\* or a connection before the tunnel is Running.
ViewTypeOK ==
    /\ P2PTypeOK /\ RtspTypeOK /\ WhepTypeOK
    /\ ~Running => conn = "none" /\ remote = [i \in Ids |-> "none"]
===============================================================================
