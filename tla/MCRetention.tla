---------------------------- MODULE MCRetention ----------------------------
(***************************************************************************)
(* One author: two versions of a profile with the same time in different   *)
(* parts, app data under two d tags, an old post, a like of it and a late  *)
(* direct reply to it.                                                     *)
(***************************************************************************)
EXTENDS Retention, TLC

CONSTANTS p1, p2, a1, a2, post, like, reply, author, x, y
MCEvents == {p1, p2, a1, a2, post, like, reply}
MCKindOf == (p1 :> 0 @@ p2 :> 0 @@ a1 :> 30078 @@ a2 :> 30078 @@ post :> 1 @@ like :> 7 @@ reply :> 1)
MCAuthorOf == [e \in MCEvents |-> author]
MCCreatedAt == (p1 :> 1 @@ p2 :> 1 @@ a1 :> 1 @@ a2 :> 3 @@ post :> 1 @@ like :> 3 @@ reply :> 3)
MCDTagOf == [e \in MCEvents |-> CASE e = a1 -> x [] e = a2 -> y [] OTHER -> None]
MCTargetOf == [e \in MCEvents |-> IF e \in {like, reply} THEN post ELSE None]
MCPartOf == [e \in MCEvents |-> IF e \in {p2, a2} THEN 2 ELSE 1]
=============================================================================
