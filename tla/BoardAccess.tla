---------------------------- MODULE BoardAccess ----------------------------
(***************************************************************************)
(* Roles and permissions of apps/server/src/access/boardAccess.ts: which   *)
(* role a caller has on a board, from where, and what it allows. A row     *)
(* holds what the one query of resolveBoardAccess returns for a caller.    *)
(***************************************************************************)
EXTENDS Naturals

Roles == {"none", "viewer", "editor", "owner"}
Rank == [none |-> 0, viewer |-> 1, editor |-> 2, owner |-> 3]

Required == [read |-> "viewer", write |-> "editor", share |-> "owner", delete |-> "owner"]

Can(role, action) == role # "none" /\ Rank[role] >= Rank[Required[action]]

LowerRole(a, b) == IF Rank[a] <= Rank[b] THEN a ELSE b

\* A source replaces the role found so far only when it is strictly higher.
Offer(found, role, via) ==
    IF Rank[role] > Rank[found.role] THEN [role |-> role, via |-> via] ELSE found

\* Workspace owners and admins act as owners of its boards, members as editors.
OrgOffer(orgRole) ==
    IF orgRole \in {"owner", "admin"} THEN "owner"
    ELSE IF orgRole = "member" THEN "editor" ELSE "none"

\* The highest of membership, workspace, share link and public access; an interview may cap it.
Resolve(row) ==
    LET found == Offer(Offer(Offer(Offer([role |-> "none", via |-> "none"],
                       row.member, "member"), OrgOffer(row.org), "org"),
                       row.link, "link"),
                       IF row.isPublic THEN "viewer" ELSE "none", "public")
    IN  IF row.capped /\ found.role # "none" THEN [found EXCEPT !.role = "viewer"] ELSE found
=============================================================================
