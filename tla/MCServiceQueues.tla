--------------------------- MODULE MCServiceQueues ---------------------------
(* ServiceQueues for TLC: s2 asks s1 and wants a callback, and while s1 handles
   this it may ask s2 and wait.  s1 is closed by ShutdownService, s2 by its
   destructor. *)
EXTENDS ServiceQueues, TLC

CONSTANTS s1, s2, c, n

MCFlags == c :> "callback" @@ n :> "wait"
MCTo == c :> s1 @@ n :> s2
MCFrom == c :> s2 @@ n :> s1
MCClosing == <<s1>>
MCDeletion == <<s1, s2>>
MCPlaceInList == s2 :> 1 @@ s1 :> 2
==============================================================================
