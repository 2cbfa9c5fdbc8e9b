----------------------------- MODULE UniqueIds -----------------------------
(***************************************************************************)
(* What the worlds are promised of persistent ids, whatever happens to the *)
(* master, to the worlds and to the links between them: a request gets at  *)
(* most one id, and an id that no other request has got.                   *)
(***************************************************************************)
VARIABLE uses    \* which request was given which id: records [id, by]

Init == uses = {}

Use(u) ==
  /\ \A v \in uses : v.id # u.id /\ v.by # u.by
  /\ uses' = uses \cup {u}

Next == \E u \in uses' : Use(u)

Spec == Init /\ [][Next]_uses
=============================================================================
