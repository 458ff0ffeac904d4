-------------------------------- MODULE MCKcp --------------------------------
(* Bounds for model checking Kcp: the two settings of KcpConnection.h, scaled. *)
EXTENDS Kcp

Normal == [sndWnd |-> 2, resend |-> 0, noCwnd |-> FALSE]
Quick == [sndWnd |-> 2, resend |-> 1, noCwnd |-> TRUE]
MCModes == {Normal, Quick}
MCNetCap == <<1, 2>>
=============================================================================
