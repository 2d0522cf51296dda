--------------------------- MODULE MCComponentTree ---------------------------
(* A root, its manager and three leaves of one class: the configured one is named
   like the second without a name would be; another one claims its name; the third
   has no name.  Of its hostnames that one claims one that the second has too. *)
EXTENDS ComponentTree

CONSTANTS root, manager, configured, namesake, nameless

MCLeaves == {configured, namesake, nameless}
MCConfigured == <<configured>>
MCGivenName ==
  [x \in {root, manager} \union MCLeaves |->
     CASE x = root -> <<"root", 0>> [] x = manager -> <<"host", 0>>
       [] x = nameless -> NoName [] OTHER -> <<"networkHost", 2>>]
MCClassName ==
  [x \in {root, manager} \union MCLeaves |->
     IF x \in MCLeaves THEN "networkHost" ELSE "hostManager"]
MCHostNames ==
  [x \in MCLeaves |->
     CASE x = configured -> <<"p">> [] x = namesake -> <<"q">> [] x = nameless -> <<"r", "q">>]
MCLists == {<<namesake>>, <<nameless, configured>>}
=============================================================================
