------------------------------ MODULE Filters ------------------------------
(***************************************************************************)
(* The filters of ibidding/filter that are built from the orders alone.    *)
(*                                                                         *)
(* The first nine are inverted indexes (AdMap): an order is filed under    *)
(* the keys its fields give, a request asks for some keys, and the orders  *)
(* found get the filter's bit.  Parameter keeps those with every bit and   *)
(* compares the rest; Ban, LandingPage and Tanx are indexes of what to     *)
(* take out (LandingPage takes out nothing: its list is never loaded);     *)
(* Mark looks for the user's marks among keywords and audiences; Frequence *)
(* returns at once.  Keys that the code formats as strings are tuples of   *)
(* what goes into them.                                                    *)
(*                                                                         *)
(* An order is a record, `book' the orders by execute id.  A text is a     *)
(* sequence of letters; upper and lower case are one letter.               *)
(***************************************************************************)
EXTENDS Integers, FiniteSets, SequencesExt

CONSTANTS
  Baidu, TanX,       \* exchanges with rules of their own
  MaskBits,          \* sizeof(UINT) * 8
  TanxDescriptions   \* m_mPidDes: [pid, limited (area or interval), cats]

All == "all"         \* AD_AREA_ALL, and "0" of the lists of devices

\* the bits of FiltersMatch
Normal == {"Time", "AdExchange", "Pid", "Area", "Size", "UserAgent"}
Mobile == {"MobileOperator", "MobileDevice", "MobileConnect"}

\* bPush
Pushed(o) == o.days # {}

-----------------------------------------------------------------------------
(* The indexes: the keys that AddData of a filter files an order under, and *)
(* the keys that its match looks up.                                       *)

IfPushed(o, keys) == IF Pushed(o) THEN keys ELSE {}

TimeKeys(o) == IfPushed(o, o.hours)

AdExchangeKeys(o) == IfPushed(o, {p.adx : p \in o.pids} \ {0})

Places(o, mode) == {p \in o.pids : p.mode = mode}

PidKeys(o) ==
  IfPushed(o,
    {<<p.adx, All>> : p \in Places(o, "ALL")}
    \cup (UNION {{<<p.adx, id>> : id \in p.ids} : p \in Places(o, "FIXED")})
    \cup (UNION {{<<"OTHER", p.adx, c>> : c \in p.ids} : p \in Places(o, "OTHER")}))

AreaKeys(o) == IfPushed(o, o.area)

SizeKeys(o) == IfPushed(o, {<<m.adx, m.size>> : m \in {n \in o.materials : n.group}})

\* the one index that takes orders without a schedule
UserAgentKeys(o) == IF o.ua = {} THEN {All} ELSE o.ua

MobileOperatorKeys(o) == IfPushed(o, o.operator)

MobileDeviceKeys(o) == IfPushed(o, o.device)

MobileConnectKeys(o) == IfPushed(o, o.connect)

Keys(f, o) ==
  CASE f = "Time" -> TimeKeys(o)
    [] f = "AdExchange" -> AdExchangeKeys(o)
    [] f = "Pid" -> PidKeys(o)
    [] f = "Area" -> AreaKeys(o)
    [] f = "Size" -> SizeKeys(o)
    [] f = "UserAgent" -> UserAgentKeys(o)
    [] f = "MobileOperator" -> MobileOperatorKeys(o)
    [] f = "MobileDevice" -> MobileDeviceKeys(o)
    [] f = "MobileConnect" -> MobileConnectKeys(o)

TimeAsked(now) == {now}

AdExchangeAsked(q) == {q.adx}

PidAsked(q) == {<<q.adx, All>>, <<q.adx, q.pid>>} \cup {<<"OTHER", q.adx, c>> : c \in q.sites}

AreaAsked(q) == {All, q.area}

SizeAsked(q) == {<<q.adx, q.size>>}

UserAgentAsked(q) == {All} \cup q.ua

IfMobile(q, list) == IF q.flow = "mobile" THEN {All} \cup list ELSE {}

MobileOperatorAsked(q) == IfMobile(q, q.operator)

MobileDeviceAsked(q) == IfMobile(q, q.device)

MobileConnectAsked(q) == IfMobile(q, q.connect)

Asked(f, q, now) ==
  CASE f = "Time" -> TimeAsked(now)
    [] f = "AdExchange" -> AdExchangeAsked(q)
    [] f = "Pid" -> PidAsked(q)
    [] f = "Area" -> AreaAsked(q)
    [] f = "Size" -> SizeAsked(q)
    [] f = "UserAgent" -> UserAgentAsked(q)
    [] f = "MobileOperator" -> MobileOperatorAsked(q)
    [] f = "MobileDevice" -> MobileDeviceAsked(q)
    [] f = "MobileConnect" -> MobileConnectAsked(q)

\* mutant: the filter of the time gives every order its bit
MatchAnyTime(o, q, now) ==
  {f \in Normal \cup Mobile : f = "Time" \/ Keys(f, o) \cap Asked(f, q, now) # {}}

\* m_uiMatch
Match(o, q, now) == {f \in Normal \cup Mobile : Keys(f, o) \cap Asked(f, q, now) # {}}

\* mutant: the bit of the size is forgotten
MaskNoSize(q) ==
  (IF q.flow = "mobile" THEN Normal \cup Mobile ELSE Normal) \ {"Size"}

Mask(q) == IF q.flow = "mobile" THEN Normal \cup Mobile ELSE Normal

\* an order's list allows a value of the request
Allows(list, good) == list = {} \/ list \cap ({0} \cup good) # {}

\* mutant: a bit for mobile devices is as good as another
ParameterSome(o, q, now) == Normal \subseteq Match(o, q, now)

\* AdFilterParameter::match
Parameter(o, q, now) ==
  /\ Match(o, q, now) = Mask(q)
  /\ q.flow = "mobile" => o.mobile
  /\ q.flow = "pc" => ~o.mobile
  /\ Allows(o.screens, {x \in o.screens : x >= q.view})
  /\ Allows(o.types, {q.type})
  /\ q.flow = "video" => \E m \in o.materials : m.adx = q.adx /\ m.size = q.size

-----------------------------------------------------------------------------
(* Ban, LandingPage and Tanx.                                              *)

\* the first two letters of a category
Head2(c) == IF Len(c) < 2 THEN c ELSE SubSeq(c, 1, 2)

Categorised(o) == {m \in o.materials : m.group /\ m.cat # <<>>}

\* mutant: the orders' own lists alone
BanKeysOwn(o) == IF ~Pushed(o) THEN {} ELSE o.banContent \cup o.banPids

\* AdFilterBan::AddData; formats of materials are filed, and never asked for
BanKeys(o) ==
  IF ~Pushed(o) THEN {} ELSE
    o.banContent \cup o.banPids
    \cup {<<"CRT", m.adx, m.size, m.kind>> :
            m \in {n \in o.materials : n.group /\ n.kind # 0}}
    \cup {<<"CAT", m.adx, m.cat>> : m \in Categorised(o)}
    \cup {<<"CAT", m.adx, Head2(m.cat)>> : m \in {n \in Categorised(o) : n.adx = Baidu}}

\* AdFilterBan::match
BanAsked(q) ==
  {<<q.pid>>, <<q.adx, q.pid>>}
  \cup {<<"CAT", q.adx, c>> : c \in q.sensitive \cup q.categories}
  \cup {<<"CRT", q.adx, q.size, k>> : k \in q.creates}
  \cup {<<q.adx, c>> : c \in q.sites}

\* AdFilterLandingPage: of each exchange's materials the first alone is filed,
\* under the domains of its landing page, and for every exchange
LandingKeys(o) ==
  IF ~Pushed(o) THEN {} ELSE UNION {m.sites : m \in {n \in o.materials : n.first}}

\* m_mLandPages, what the exchange does not want: [pid, site].  FiltersInit
\* would read the file, but has if(0) where the test of the flag stood.
LandPages == {}

LandingAsked(q) ==
  IF q.adx = Baidu THEN {l.site : l \in {k \in LandPages : k.pid = q.pid}} ELSE {}

\* mutant: only descriptions with an area or an interval count
TanxAskedLimited(q) ==
  IF q.adx # TanX THEN {}
  ELSE {<<"CAT", TanX, c>> :
          c \in UNION {d.cats : d \in {e \in TanxDescriptions : e.pid = q.pid /\ e.limited}}}

\* AdFilterTanx: descriptions of the pid that hold everywhere and always
TanxAsked(q) ==
  IF q.adx # TanX THEN {}
  ELSE {<<"CAT", TanX, c>> :
          c \in UNION {d.cats : d \in {e \in TanxDescriptions : e.pid = q.pid /\ ~e.limited}}}

TanxKeys(o) ==
  IF ~Pushed(o) THEN {} ELSE {<<"CAT", m.adx, m.cat>> : m \in Categorised(o)}

Banned(o, q) ==
  \/ BanKeys(o) \cap BanAsked(q) # {}
  \/ LandingKeys(o) \cap LandingAsked(q) # {}
  \/ TanxKeys(o) \cap TanxAsked(q) # {}

\* FiltersMatch up to the real-time filter.  It stops when a filter leaves
\* nothing, which changes nothing: Time is first, and no order without its bit
\* survives Parameter.
StaticMatch(book, q, now) ==
  {u \in DOMAIN book : Parameter(book[u], q, now) /\ ~Banned(book[u], q)}

-----------------------------------------------------------------------------
(* Mark: keywords.                                                         *)

\* AdAcbmSearch: the key is somewhere in the text
Occurs(key, text) ==
  \E i \in 0 .. Len(text) - Len(key) : SubSeq(text, i + 1, i + Len(key)) = key

\* nothing is left of the keyword when '*' and "http://" are taken off
HasEmptyKey(o) == \E k \in o.keys : k.key = <<>>

\* AddData, one order after another: an empty keyword makes AdAcbmTreeAdd
\* clear the tree, and the rest of its order is left out
Marked(book) ==
  {u \in DOMAIN book : \A v \in DOMAIN book : v >= u => ~HasEmptyKey(book[v])}

Tree(book) ==
  UNION {{[unit |-> u, type |-> k.type, key |-> k.key] : k \in book[u].keys} : u \in Marked(book)}

Fits(n, mark) ==
  \/ n.type = "ACC_CUS" /\ Len(n.key) = Len(mark.text)
  \/ n.type = "DIM_CUS"
  \/ n.type \in {"PUBLIC", "PRIVATE"} /\ mark.tag = "TAG"

Within(tree, mark) == {n \in tree : Occurs(n.key, mark.text)}

\* the orders of the keywords matched that fit the mark
Fitting(match, mark) == {n.unit : n \in {m \in match : Fits(m, mark)}}

\* mMatch after each mark.  It is emptied only by a mark that had a fitting
\* keyword: what an earlier mark contains is tried on a later one.
Matched(tree, marks) ==
  LET match[i \in 0 .. Len(marks)] ==
        IF i = 0 THEN {}
        ELSE LET now == match[i - 1] \cup Within(tree, marks[i])
             IN IF Fitting(now, marks[i]) = {} THEN now ELSE {}
  IN match

\* AdFilterMarkMatchMark
MatchMark(tree, marks) ==
  UNION {Fitting(Matched(tree, marks)[i - 1] \cup Within(tree, marks[i]), marks[i]) :
           i \in DOMAIN marks}

-----------------------------------------------------------------------------
(* Mark: audiences.                                                        *)

\* AdFilterMarkMatchAudience for one order: an order may have several
\* audiences (nodes), each a sequence of conditions per kind.  Condition i of
\* each node sets bit i, in one set of bits for the order; the type and masks
\* are those of the node matched last.  A mark must be longer than the key.
Kinds == {"search", "visit", "unvisit"}

\* the conditions there are bits for; the rest is left out
Masked(conditions) == {i \in DOMAIN conditions : i <= MaskBits}

Hits(o, marks) ==
  {h \in UNION {[mark : DOMAIN marks, node : {n}, kind : {k}, bit : Masked(o.audience[n][k])] :
                  n \in DOMAIN o.audience, k \in Kinds} :
     LET c == o.audience[h.node][h.kind][h.bit]
     IN IsStrictPrefix(c.key, marks[h.mark].text) /\ c.days >= marks[h.mark].days}

KeyLen(o, h) == Len(o.audience[h.node][h.kind][h.bit].key)

\* order of discovery: marks, then longer prefixes, then nodes
Before(o, g, h) ==
  \/ g.mark < h.mark
  \/ g.mark = h.mark /\ KeyLen(o, g) < KeyLen(o, h)
  \/ g.mark = h.mark /\ KeyLen(o, g) = KeyLen(o, h) /\ g.node <= h.node

\* the bits of a kind
Bits(hits, k) == {h.bit : h \in {g \in hits : g.kind = k}}

\* mutant: what the user must not have visited is not looked at
AudienceFitsVisited(o, marks) ==
  LET hits == Hits(o, marks)
  IN \E h \in hits :
       LET last == o.audience[h.node]
       IN /\ \A g \in hits : Before(o, g, h)
          /\ \/ last.merge = "OR"
             \/ /\ last.merge = "AND"
                /\ \A k \in {"search", "visit"} : Bits(hits, k) = Masked(last[k])

AudienceFits(o, marks) ==
  LET hits == Hits(o, marks)
  IN \E h \in hits :
       LET last == o.audience[h.node]
       IN /\ \A g \in hits : Before(o, g, h)
          /\ \/ last.merge = "OR"
             \/ /\ last.merge = "AND"
                /\ \A k \in {"search", "visit"} : Bits(hits, k) = Masked(last[k])
                /\ Bits(hits, "unvisit") = {}

\* m_uiNice: keywords before audiences
Nice(o) ==
  IF o.keys # {} THEN "NICE" ELSE IF o.audience # <<>> THEN "AUDIENCE" ELSE "BASE"

\* AdFilterMark::match: `user' is what the cache says of the user, ok or not.
\* Without it, the crowd categories of the request serve as tags.
MarkMatch(book, res, q, user) ==
  LET nice(n) == {u \in res : Nice(book[u]) = n}
      marks == IF user.ok THEN user.marks
               ELSE [i \in DOMAIN q.crowd |-> [text |-> q.crowd[i], tag |-> "TAG"]]
      audience == IF user.ok THEN user.audience ELSE <<>>
  IN IF ~user.ok /\ q.crowd = <<>> THEN nice("BASE")
     ELSE nice("BASE")
          \cup (nice("NICE") \cap MatchMark(Tree(book), marks))
          \cup {u \in nice("AUDIENCE") : AudienceFits(book[u], audience)}
=============================================================================
