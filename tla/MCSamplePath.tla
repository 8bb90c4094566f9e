---------------------------- MODULE MCSamplePath ----------------------------
(***************************************************************************)
(* The two things _libusb_callback does with the samples of a transfer,    *)
(* for TLC: SyncLoss finds out whether they are samples, FeedAsync cuts    *)
(* them into blocks for the user.  Neither reads what the other keeps:     *)
(* blocks are followed on a stream that is in step from its start, the     *)
(* search for the step without regard to what the user gets.               *)
(***************************************************************************)
EXTENDS FeedAsync, SyncLoss

PathInit == FeedInit /\ SyncInit

\* Nothing has been fed (FeedInit), or the stream has been in step from the start.
Searching == FeedInit /\ SyncNext /\ UNCHANGED feedVars

Feeding == SyncInit /\ InSync /\ FeedNext /\ UNCHANGED syncVars

PathNext == Searching \/ Feeding

\* The device sends as long as it streams.
PathSpec ==
  /\ PathInit /\ [][PathNext]_<<feedVars, syncVars>>
  /\ WF_<<feedVars, syncVars>>(FeedInit /\ Filled /\ UNCHANGED feedVars)

=============================================================================
