---------------------------- MODULE MCSfcProgress ---------------------------
(***************************************************************************)
(* The main loop under the fairness of SfcPpp, against two pairs of peer   *)
(* and host: one that closes PPP while the peer keeps talking, and a line  *)
(* that is lost or falls silent.  The constants of the cfg are those of    *)
(* the lost line.                                                          *)
(***************************************************************************)
EXTENDS SfcPpp, SfcPeers, TLC

VARIABLE scenario   \* "close" or "loss"

Close == INSTANCE SfcPpp WITH
    PeerFrames <- CloseFrames, HostCommands <- CloseCommands, MaxTerminate <- 2

Progress(close, loss) == (scenario = "close" /\ close) \/ (scenario = "loss" /\ loss)
ProgressInit == Init /\ scenario \in {"close", "loss"}
ProgressNext == Progress(Close!Next, Next) /\ UNCHANGED scenario
ProgressSpec ==
    /\ ProgressInit /\ [][ProgressNext]_<<vars, scenario>>
    /\ WF_vars(Progress(Close!Loop, Loop))
    /\ SF_vars(Progress(Close!TransmitFinishes, TransmitFinishes))
    /\ SF_vars(Progress(Close!TickLcp, TickLcp))
    /\ SF_vars(Progress(Close!TickPap, TickPap))
    /\ SF_vars(Progress(Close!TickIpcp, TickIpcp))

-----------------------------------------------------------------------------
\* Where PPP was not closed, a peer that stays silent cannot hold a layer in
\* negotiation for ever (SilenceEndsWaiting).
LossEndsWaiting == scenario = "loss" => SilenceEndsWaiting

\* NO CARRIER is read behind whatever the peer sent, as long as every frame has a
\* layer that takes it (HangupNoticed).
LossIsNoticed == scenario = "loss" => HangupNoticed
=============================================================================
