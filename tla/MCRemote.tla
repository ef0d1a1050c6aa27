------------------------------ MODULE MCRemote ------------------------------
(* Small values for Remote: seven orders, requests that use every field, two  *)
(* of them with texts that are longer than what is unpacked.                *)
EXTENDS Remote, TLC

Banner == [adx |-> 1, size |-> "s", group |-> TRUE, first |-> TRUE, kind |-> 1,
           cat |-> <<"a", "b", "c">>, sites |-> {"shop"},
           html |-> 2, click |-> "c1", monitors |-> {"m1", "m2"}]
Film == [Banner EXCEPT !.adx = 2, !.cat = <<>>, !.kind = 0, !.html = 30, !.monitors = {}]

Plain ==
  [days |-> {0}, hours |-> {<<0, 0>>},
   pids |-> {[adx |-> 1, mode |-> "ALL", ids |-> {}], [adx |-> 2, mode |-> "ALL", ids |-> {}]},
   area |-> {All}, materials |-> {Banner, Film}, ua |-> {},
   operator |-> {All}, device |-> {All}, connect |-> {All}, mobile |-> FALSE,
   screens |-> {}, types |-> {}, banContent |-> {}, banPids |-> {},
   keys |-> {}, audience |-> <<>>, advanced |-> {},
   type |-> "CPM", target |-> 2, model |-> 0]

Local == [Plain EXCEPT !.area = {"here"}, !.target = 6]
Everywhere == [Plain EXCEPT !.area = {"here", All}, !.ua = {"ie"}, !.target = 3, !.types = {2}]
Sites == [Plain EXCEPT !.pids = {[adx |-> 1, mode |-> "OTHER", ids |-> {"c"}]}, !.target = 5,
            !.screens = {2}]
Phone == [Plain EXCEPT !.mobile = TRUE, !.operator = {"o"}, !.device = {"d"}, !.connect = {"e"}]
Keyword == [Plain EXCEPT !.keys = {[type |-> "PUBLIC", key |-> <<"y">>]}, !.target = 4]

MCPlans ==
  {1 :> Plain @@ 2 :> Local @@ 3 :> Everywhere @@ 4 :> Sites @@ 5 :> Phone @@ 6 :> Keyword
     @@ 7 :> [Plain EXCEPT !.mobile = TRUE],
   1 :> [Plain EXCEPT !.materials = {Banner, [Film EXCEPT !.html = 60]}]
     @@ 2 :> [Plain EXCEPT !.materials = {[Film EXCEPT !.html = 90]}, !.target = 5]}

MCTimes == {<<0, 0>>, <<0, 1>>}

Ask == [adx |-> 1, pid |-> "p", sites |-> {"b", "c"}, area |-> "here", size |-> "s",
        ua |-> {"ie", "10"}, flow |-> "pc", operator |-> {"o"}, device |-> {"d"},
        connect |-> {"e", "f"}, view |-> 1, type |-> 1, sensitive |-> {}, categories |-> {},
        creates |-> {}, crowd |-> <<<<"y">>, <<"z">>>>, floor |-> 1, url |-> 3, ids |-> 0]

MCRequests ==
  {Ask, [Ask EXCEPT !.floor = 4], [Ask EXCEPT !.type = 2, !.view = 3, !.ids = 2],
   [Ask EXCEPT !.sensitive = {<<"a", "b">>, <<"d">>}],
   [Ask EXCEPT !.categories = {<<"a", "b", "c">>, <<"d">>}],
   [Ask EXCEPT !.categories = {<<"a", "b", "c">>, <<"a", "b", "c", "d">>}], [Ask EXCEPT !.creates = {1, 2}],
   [Ask EXCEPT !.flow = "mobile"], [Ask EXCEPT !.flow = "mobile", !.connect = {"e"}],
   [Ask EXCEPT !.adx = 2, !.flow = "video", !.pid = "r"],
   [Ask EXCEPT !.url = 40, !.floor = 3, !.sensitive = {<<"a", "b">>}], [Ask EXCEPT !.url = 70]}

Stranger == [ok |-> FALSE, marks |-> <<>>, audience |-> <<>>, eid |-> 0]
MCUsers ==
  {Stranger,
   [Stranger EXCEPT !.ok = TRUE, !.eid = 1, !.marks = <<[text |-> <<"y">>, tag |-> "TAG"]>>]}
=============================================================================
