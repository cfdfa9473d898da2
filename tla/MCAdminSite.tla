----------------------------- MODULE MCAdminSite -----------------------------
(***************************************************************************)
(* Instances of AdminSite: two admins on some of the site's pages.         *)
(***************************************************************************)
EXTENDS AdminSite
TwoAdmins == {1, 2}
SomePages == {"dashboard", "cities", "detail"}
SomeUses  == {"saveCity", "toggleStory"}
SomeLooks == {"cities", "stories"}
=============================================================================
