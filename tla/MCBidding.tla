----------------------------- MODULE MCBidding -----------------------------
(* Small values for Bidding: seven orders that differ in what the filters   *)
(* tell apart, requests of three exchanges, users with and without marks.   *)
EXTENDS Bidding, TLC

Banner == [adx |-> 1, size |-> "s", group |-> TRUE, first |-> TRUE, kind |-> 1,
           cat |-> <<"a", "b", "c">>, sites |-> {"shop"}]
Film == [Banner EXCEPT !.adx = 2, !.cat = <<"d">>, !.kind = 0]
Second == [Banner EXCEPT !.first = FALSE, !.sites = {"other"}, !.size = "t"]

Plain ==
  [days |-> {0}, hours |-> {<<0, 0>>},
   pids |-> {[adx |-> 1, mode |-> "ALL", ids |-> {}], [adx |-> 2, mode |-> "ALL", ids |-> {}],
             [adx |-> 3, mode |-> "ALL", ids |-> {}]},
   area |-> {All}, materials |-> {Banner, Film, [Film EXCEPT !.adx = 3]}, ua |-> {},
   operator |-> {All}, device |-> {All}, connect |-> {All}, mobile |-> FALSE,
   screens |-> {}, types |-> {}, banContent |-> {}, banPids |-> {},
   keys |-> {}, audience |-> <<>>, advanced |-> {},
   type |-> "CPM", target |-> 2, model |-> 0]

Keyword(type, key) == [type |-> type, key |-> key]
Condition(key, days) == [key |-> key, days |-> days]

Named == [Plain EXCEPT !.keys = {Keyword("ACC_CUS", <<"x">>), Keyword("PUBLIC", <<"y">>)},
            !.pids = {[adx |-> 1, mode |-> "FIXED", ids |-> {"p"}]}, !.target = 3]
Empty == [Plain EXCEPT !.keys = {Keyword("DIM_CUS", <<>>)}, !.target = 3]
Audience == [Plain EXCEPT !.type = "CPC", !.model = 4,
               !.audience = <<[merge |-> "AND", search |-> <<Condition(<<"x">>, 2)>>,
                               visit |-> <<>>, unvisit |-> <<Condition(<<"y">>, 1)>>]>>]
Other == [Plain EXCEPT !.pids = {[adx |-> 1, mode |-> "OTHER", ids |-> {"c"}]},
            !.advanced = {[pid |-> "p", price |-> 1]}, !.target = 5,
            !.banPids = {<<1, "r">>}, !.screens = {1},
            !.materials = @ \cup {[Banner EXCEPT !.first = FALSE, !.cat = <<"e">>, !.kind = 0]}]
Phone == [Plain EXCEPT !.mobile = TRUE, !.operator = {"o"}, !.device = {"d"}]
Local == [Plain EXCEPT !.area = {"here"}, !.types = {1, 2}, !.ua = {"ie"}, !.target = 6,
            !.materials = {Second, [Film EXCEPT !.adx = 3]}]

MCPlans ==
  {1 :> Plain @@ 2 :> Named @@ 3 :> Audience @@ 4 :> Other @@ 5 :> Phone,
   1 :> Plain @@ 2 :> Local @@ 3 :> [Plain EXCEPT !.target = 7] @@ 4 :> Other
     @@ 5 :> [Phone EXCEPT !.operator = {All}],
   1 :> Named @@ 2 :> Empty @@ 3 :> [Named EXCEPT !.keys = {Keyword("PRIVATE", <<"x">>)}],
   1 :> [Plain EXCEPT !.days = {}] @@ 2 :> Audience @@ 3 :> [Plain EXCEPT !.target = 1]
     @@ 4 :> [Audience EXCEPT !.model = 9, !.audience[1].search = @ \o <<Condition(<<"z">>, 2)>>],
   [u \in 1 .. 4 |-> [Plain EXCEPT !.target = u + 1]]}

MCTimes == {<<0, 0>>, <<0, 1>>}

Ask == [adx |-> 1, pid |-> "p", sites |-> {"c"}, area |-> "here", size |-> "s", ua |-> {"ie"},
        flow |-> "pc", operator |-> {"o"}, device |-> {"d"}, connect |-> {"e"},
        view |-> 1, type |-> 1, sensitive |-> {}, categories |-> {}, creates |-> {},
        crowd |-> <<>>, floor |-> 1]

MCRequests ==
  {Ask, [Ask EXCEPT !.pid = "r", !.size = "t", !.floor = 0], [Ask EXCEPT !.floor = 6],
   [Ask EXCEPT !.crowd = <<<<"x", "x">>, <<"z", "y">>>>],
   [Ask EXCEPT !.flow = "mobile", !.operator = {"n"}], [Ask EXCEPT !.flow = "mobile"],
   [Ask EXCEPT !.adx = 2, !.flow = "video"], [Ask EXCEPT !.adx = 3, !.flow = "video", !.floor = 8],
   [Ask EXCEPT !.adx = 2, !.pid = "r"], [Ask EXCEPT !.sensitive = {<<"a", "b">>}],
   [Ask EXCEPT !.categories = {<<"a", "b", "c">>}], [Ask EXCEPT !.creates = {1}, !.view = 3],
   [Ask EXCEPT !.pid = "q", !.type = 3]}

Mark(text, tag) == [text |-> text, tag |-> tag]
Seen(text, days) == [text |-> text, days |-> days]
Stranger == [ok |-> FALSE, marks |-> <<>>, audience |-> <<>>, eid |-> 0]

MCUsers ==
  {Stranger,
   [Stranger EXCEPT !.ok = TRUE],
   [Stranger EXCEPT !.ok = TRUE, !.marks = <<Mark(<<"x">>, "URL")>>,
      !.audience = <<Seen(<<"x", "y">>, 2)>>],
   [Stranger EXCEPT !.ok = TRUE, !.marks = <<Mark(<<"y", "x">>, "TAG")>>, !.eid = 1,
      !.audience = <<Seen(<<"x", "y">>, 1), Seen(<<"y", "y">>, 1)>>],
   [Stranger EXCEPT !.ok = TRUE, !.marks = <<Mark(<<"x", "z">>, "URL"), Mark(<<"z">>, "TAG")>>,
      !.audience = <<Seen(<<"x", "y">>, 3)>>, !.eid = 4]}

MCTanx == {[pid |-> "r", limited |-> FALSE, cats |-> {<<"d">>}],
           [pid |-> "p", limited |-> TRUE, cats |-> {<<"d">>}]}
=============================================================================
