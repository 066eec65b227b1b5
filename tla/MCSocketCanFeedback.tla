------------------------ MODULE MCSocketCanFeedback ------------------------
(***************************************************************************)
(* The instances of the feedback path that MCSocketCan*.cfg check.         *)
(***************************************************************************)
EXTENDS SocketCanFeedback

CONSTANTS p

OnePublisher == {p}
=============================================================================
