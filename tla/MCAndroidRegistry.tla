-------------------------- MODULE MCAndroidRegistry --------------------------
(***************************************************************************)
(* AndroidRegistry with two QR codes, one phone on the SSH rendezvous and  *)
(* one without, a batch and two sequence numbers.                          *)
(***************************************************************************)
EXTENDS AndroidRegistry, TLC

CONSTANTS b1, b2, dSsh, dDirect, x

MCBootstraps == {b1, b2}
MCDevices == {dSsh, dDirect}
MCSshDevices == {dSsh}
MCDeviceOf == <<dSsh>>

\* Nothing tells the QR codes apart.
Interchangeable == Permutations(MCBootstraps)

\* TLC goes as far as the step in which a tool saves over what the service had
\* stored: beyond it the properties but two promise nothing.
NothingLost == ~overwrote

=============================================================================
