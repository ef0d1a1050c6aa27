--------------------------- MODULE BiddingProofs ---------------------------
(***************************************************************************)
(* Proofs about Bidding for any orders, requests and number of threads.    *)
(***************************************************************************)
EXTENDS Bidding, FiniteSetTheorems, WellFoundedInduction, TLAPS

(* A set of naturals has a least element, and what holds of 0 and goes from *)
(* each number to the next holds of all: the library has well-founded minima  *)
(* as facts about sets, which need no operator as a parameter.               *)
LEMMA Least ==
  ASSUME NEW T, T \subseteq Nat, T # {}
  PROVE  \E n \in T : \A m \in T : n <= m
<1>1. PICK n \in T : \A m \in T : ~(<<m, n>> \in OpToRel(<, Nat))
  BY WFMin, NatLessThanWellFounded
<1>2. \A m \in T : ~(m < n)
  BY <1>1 DEF OpToRel
<1> QED
  BY <1>2

(* What holds of 0 and goes from each number to the next holds up to N. *)
LEMMA Upwards ==
  ASSUME NEW N \in Nat, NEW T, 0 \in T, \A n \in 0 .. N - 1 : n \in T => n + 1 \in T
  PROVE  \A n \in 0 .. N : n \in T
<1> DEFINE U == {n \in 0 .. N : n \notin T}
<1> SUFFICES ASSUME U # {} PROVE FALSE
  OBVIOUS
<1>1. U \subseteq Nat
  OBVIOUS
<1>2. PICK n \in U : \A m \in U : n <= m
  BY <1>1, Least
<1>3. n # 0 /\ n - 1 \in 0 .. N - 1 /\ n - 1 \notin U
  BY <1>2
<1> QED
  BY <1>2, <1>3

\* f is the function that a recursive definition over 0 .. n chooses
Steps(n, base, step, f) ==
  f = [i \in 0 .. n |-> IF i = 0 THEN base ELSE step[<<i, f[i - 1]>>]]

(* There is such a function, whatever the base and the step. *)
LEMMA Recursion ==
  ASSUME NEW n \in Nat, NEW S, NEW base \in S, NEW step \in [(1 .. n) \X S -> S]
  PROVE  \E f \in [0 .. n -> S] : Steps(n, base, step, f)
<1> DEFINE T == {k \in 0 .. n : \E f \in [0 .. k -> S] : Steps(k, base, step, f)}
<1>1. 0 \in T
  <2> DEFINE f == [i \in 0 .. 0 |-> base]
  <2>1. f \in [0 .. 0 -> S]
    OBVIOUS
  <2>2. Steps(0, base, step, f)
    BY DEF Steps
  <2> QED
    BY <2>1, <2>2
<1>2. ASSUME NEW k \in 0 .. n - 1, k \in T
      PROVE  k + 1 \in T
  <2>1. PICK f \in [0 .. k -> S] : Steps(k, base, step, f)
    BY <1>2
  <2> DEFINE g == [i \in 0 .. k + 1 |-> IF i = k + 1 THEN step[<<k + 1, f[k]>>] ELSE f[i]]
  <2>2. step[<<k + 1, f[k]>>] \in S
    OBVIOUS
  <2>3. g \in [0 .. k + 1 -> S]
    BY <2>2
  <2>4. ASSUME NEW i \in 0 .. k + 1
        PROVE  g[i] = IF i = 0 THEN base ELSE step[<<i, g[i - 1]>>]
    <3>1. CASE i = k + 1
      <4>1. k \in 0 .. k + 1 /\ k # k + 1 /\ i # 0 /\ i - 1 = k
        BY <3>1
      <4>2. g[k] = f[k] /\ g[i] = step[<<i, f[k]>>]
        BY <3>1, <4>1
      <4> HIDE DEF g
      <4> QED
        BY <4>1, <4>2
    <3>2. CASE i # k + 1
      <4>1. i \in 0 .. k /\ (i # 0 => i - 1 \in 0 .. k) 
        BY <3>2
      <4>2. f[i] = IF i = 0 THEN base ELSE step[<<i, f[i - 1]>>]
        BY <4>1, <2>1 DEF Steps
      <4>3. g[i] = f[i] /\ (i # 0 => g[i - 1] = f[i - 1])
        BY <3>2, <4>1
      <4> QED
        BY <4>2, <4>3
    <3> QED
      BY <3>1, <3>2
  <2> HIDE DEF g
  <2>5. Steps(k + 1, base, step, g)
    BY <2>3, <2>4 DEF Steps
  <2>6. k + 1 \in 0 .. n
    OBVIOUS
  <2> QED
    BY <2>3, <2>5, <2>6
<1>3. n \in T
  <2> HIDE DEF T
  <2> QED
    BY <1>1, <1>2, Upwards
<1> QED
  BY <1>3

-----------------------------------------------------------------------------
(* What the indexes file an order with a schedule under. *)
LEMMA KeysFact ==
  ASSUME NEW o, Pushed(o)
  PROVE  /\ Keys("Time", o) = o.hours
         /\ Keys("AdExchange", o) = {p.adx : p \in o.pids} \ {0}
         /\ Keys("Pid", o) =
              {<<p.adx, All>> : p \in {r \in o.pids : r.mode = "ALL"}}
              \cup (UNION {{<<p.adx, id>> : id \in p.ids} : p \in {r \in o.pids : r.mode = "FIXED"}})
              \cup (UNION {{<<"OTHER", p.adx, c>> : c \in p.ids} : p \in {r \in o.pids : r.mode = "OTHER"}})
         /\ Keys("Area", o) = o.area
         /\ Keys("Size", o) = {<<m.adx, m.size>> : m \in {n \in o.materials : n.group}}
         /\ Keys("UserAgent", o) = IF o.ua = {} THEN {All} ELSE o.ua
         /\ Keys("MobileOperator", o) = o.operator
         /\ Keys("MobileDevice", o) = o.device
         /\ Keys("MobileConnect", o) = o.connect
BY DEF Keys, IfPushed, Places, TimeKeys, AdExchangeKeys, PidKeys, AreaKeys, SizeKeys,
       UserAgentKeys, MobileOperatorKeys, MobileDeviceKeys, MobileConnectKeys

(* An order without a schedule is under no key but those of user agents. *)
LEMMA NoKeysFact ==
  ASSUME NEW o, ~Pushed(o), NEW f \in (Normal \cup Mobile) \ {"UserAgent"}
  PROVE  Keys(f, o) = {}
BY DEF Normal, Mobile, Keys, IfPushed, TimeKeys, AdExchangeKeys, PidKeys, AreaKeys, SizeKeys,
       MobileOperatorKeys, MobileDeviceKeys, MobileConnectKeys

(* What a request looks up in each index. *)
LEMMA AskedFact ==
  ASSUME NEW q, NEW now
  PROVE  /\ Asked("Time", q, now) = {now}
         /\ Asked("AdExchange", q, now) = {q.adx}
         /\ Asked("Pid", q, now) = {<<q.adx, All>>, <<q.adx, q.pid>>}
                                   \cup {<<"OTHER", q.adx, c>> : c \in q.sites}
         /\ Asked("Area", q, now) = {All, q.area}
         /\ Asked("Size", q, now) = {<<q.adx, q.size>>}
         /\ Asked("UserAgent", q, now) = {All} \cup q.ua
         /\ q.flow # "mobile" => \A f \in Mobile : Asked(f, q, now) = {}
         /\ q.flow = "mobile" =>
              /\ Asked("MobileOperator", q, now) = {All} \cup q.operator
              /\ Asked("MobileDevice", q, now) = {All} \cup q.device
              /\ Asked("MobileConnect", q, now) = {All} \cup q.connect
BY DEF Asked, Mobile, TimeAsked, AdExchangeAsked, PidAsked, AreaAsked, SizeAsked, UserAgentAsked,
       IfMobile, MobileOperatorAsked, MobileDeviceAsked, MobileConnectAsked
-----------------------------------------------------------------------------
(* The bit of each filter of a scheduled order, and what it says.          *)

(* An order is found by its places exactly when one of them asks for the request's. *)
LEMMA PidFact ==
  ASSUME NEW o, NEW q, NEW now, Pushed(o), Planned(o)
  PROVE  Keys("Pid", o) \cap Asked("Pid", q, now) # {} <=>
           \E p \in o.pids : p.adx = q.adx /\ Asks(p, q)
<1> DEFINE all == {<<p.adx, All>> : p \in {r \in o.pids : r.mode = "ALL"}}
           fixed == UNION {{<<p.adx, id>> : id \in p.ids} : p \in {r \in o.pids : r.mode = "FIXED"}}
           other == UNION {{<<"OTHER", p.adx, c>> : c \in p.ids} : p \in {r \in o.pids : r.mode = "OTHER"}}
           place == {<<q.adx, All>>, <<q.adx, q.pid>>}
           sites == {<<"OTHER", q.adx, c>> : c \in q.sites}
<1>1. Keys("Pid", o) = all \cup fixed \cup other /\ Asked("Pid", q, now) = place \cup sites
  <2>1. Keys("Pid", o) = all \cup fixed \cup other
    BY KeysFact
  <2>2. Asked("Pid", q, now) = place \cup sites
    BY AskedFact, Zenon
  <2> QED
    BY <2>1, <2>2
<1>2. \A p \in o.pids : p.mode \in {"ALL", "FIXED", "OTHER"} /\ All \notin p.ids
  BY DEF Planned
<1>3. all \cap place # {} <=> \E p \in o.pids : p.adx = q.adx /\ p.mode = "ALL"
  <2>1. ASSUME NEW p \in o.pids, p.mode = "ALL", <<p.adx, All>> \in place
        PROVE  p.adx = q.adx
    BY <2>1
  <2>2. ASSUME NEW p \in o.pids, p.adx = q.adx, p.mode = "ALL"
        PROVE  <<q.adx, All>> \in all
    BY <2>2
  <2> QED
    BY <2>1, <2>2
<1>4. fixed \cap place # {} <=>
        \E p \in o.pids : p.adx = q.adx /\ p.mode = "FIXED" /\ q.pid \in p.ids
  <2>1. ASSUME NEW p \in o.pids, NEW id \in p.ids, <<p.adx, id>> \in place
        PROVE  p.adx = q.adx /\ id = q.pid
    BY <1>2, <2>1
  <2>2. ASSUME NEW p \in o.pids, p.adx = q.adx, p.mode = "FIXED", q.pid \in p.ids
        PROVE  <<q.adx, q.pid>> \in fixed
    BY <2>2
  <2>3. \A x \in fixed : \E p \in o.pids : p.mode = "FIXED" /\ \E id \in p.ids : x = <<p.adx, id>>
    OBVIOUS
  <2>4. <<q.adx, q.pid>> \in place
    OBVIOUS
  <2> HIDE DEF fixed, place
  <2> QED
    BY <2>1, <2>2, <2>3, <2>4
<1>5. other \cap sites # {} <=>
        \E p \in o.pids : p.adx = q.adx /\ p.mode = "OTHER" /\ p.ids \cap q.sites # {}
  <2>1. ASSUME NEW p \in o.pids, NEW c \in p.ids, <<"OTHER", p.adx, c>> \in sites
        PROVE  p.adx = q.adx /\ c \in q.sites
    BY <2>1
  <2>2. ASSUME NEW p \in o.pids, p.adx = q.adx, p.mode = "OTHER", NEW c \in p.ids \cap q.sites
        PROVE  <<"OTHER", q.adx, c>> \in other \cap sites
    BY <2>2
  <2>3. \A x \in other : \E p \in o.pids : p.mode = "OTHER" /\ \E c \in p.ids : x = <<"OTHER", p.adx, c>>
    OBVIOUS
  <2> HIDE DEF other, sites
  <2>4. ASSUME NEW x \in other \cap sites
        PROVE  \E p \in o.pids : p.adx = q.adx /\ p.mode = "OTHER" /\ p.ids \cap q.sites # {}
    <3>1. PICK p \in o.pids : p.mode = "OTHER" /\ \E c \in p.ids : x = <<"OTHER", p.adx, c>>
      BY <2>3
    <3>2. PICK c \in p.ids : x = <<"OTHER", p.adx, c>>
      BY <3>1
    <3>3. p.adx = q.adx /\ c \in q.sites
      BY <2>1, <3>2
    <3> QED
      BY <3>1, <3>3
  <2> QED
    BY <2>2, <2>4
<1>6. (all \cup fixed) \cap sites = {} /\ other \cap place = {}
  OBVIOUS
<1> HIDE DEF all, fixed, other, place, sites
<1>7. (all \cup fixed \cup other) \cap (place \cup sites) # {} <=>
        all \cap place # {} \/ fixed \cap place # {} \/ other \cap sites # {}
  BY <1>6
<1>8. (\E p \in o.pids : p.adx = q.adx /\ Asks(p, q)) <=>
        \/ \E p \in o.pids : p.adx = q.adx /\ p.mode = "ALL"
        \/ \E p \in o.pids : p.adx = q.adx /\ p.mode = "FIXED" /\ q.pid \in p.ids
        \/ \E p \in o.pids : p.adx = q.adx /\ p.mode = "OTHER" /\ p.ids \cap q.sites # {}
  BY <1>2 DEF Asks
<1> QED
  BY <1>1, <1>3, <1>4, <1>5, <1>7, <1>8

(* The bits of every request. *)
LEMMA BitsFact ==
  ASSUME NEW o, NEW q, NEW now, Pushed(o), Planned(o), q.adx # 0
  PROVE  /\ "Time" \in Match(o, q, now) <=> now \in o.hours
         /\ "AdExchange" \in Match(o, q, now) <=> \E p \in o.pids : p.adx = q.adx
         /\ "Pid" \in Match(o, q, now) <=> \E p \in o.pids : p.adx = q.adx /\ Asks(p, q)
         /\ "Area" \in Match(o, q, now) <=> All \in o.area \/ q.area \in o.area
         /\ "Size" \in Match(o, q, now) <=>
              \E m \in o.materials : m.group /\ m.adx = q.adx /\ m.size = q.size
         /\ "UserAgent" \in Match(o, q, now) <=>
              o.ua = {} \/ All \in o.ua \/ o.ua \cap q.ua # {}
<1>1. \A f \in Normal : f \in Match(o, q, now) <=> Keys(f, o) \cap Asked(f, q, now) # {}
  BY DEF Match
<1>2. {"Time", "AdExchange", "Pid", "Area", "Size", "UserAgent"} \subseteq Normal
  BY DEF Normal
<1>3. Keys("Time", o) \cap Asked("Time", q, now) # {} <=> now \in o.hours
  BY KeysFact, AskedFact
<1>4. Keys("AdExchange", o) \cap Asked("AdExchange", q, now) # {} <=>
        \E p \in o.pids : p.adx = q.adx
  <2>1. Keys("AdExchange", o) = {p.adx : p \in o.pids} \ {0} /\ Asked("AdExchange", q, now) = {q.adx}
    BY KeysFact, AskedFact
  <2> QED
    BY <2>1
<1>5. Keys("Area", o) \cap Asked("Area", q, now) # {} <=> All \in o.area \/ q.area \in o.area
  <2>1. Keys("Area", o) = o.area /\ Asked("Area", q, now) = {All, q.area}
    BY KeysFact, AskedFact
  <2> QED
    BY <2>1
<1>6. Keys("Size", o) \cap Asked("Size", q, now) # {} <=>
        \E m \in o.materials : m.group /\ m.adx = q.adx /\ m.size = q.size
  <2>1. /\ Keys("Size", o) = {<<m.adx, m.size>> : m \in {n \in o.materials : n.group}}
        /\ Asked("Size", q, now) = {<<q.adx, q.size>>}
    BY KeysFact, AskedFact
  <2>2. ASSUME NEW m \in o.materials
        PROVE  <<m.adx, m.size>> = <<q.adx, q.size>> <=> m.adx = q.adx /\ m.size = q.size
    OBVIOUS
  <2>3. \A x : x \in Keys("Size", o) <=> \E m \in o.materials : m.group /\ x = <<m.adx, m.size>>
    BY <2>1
  <2> QED
    BY <2>1, <2>2, <2>3
<1>7. Keys("UserAgent", o) \cap Asked("UserAgent", q, now) # {} <=>
        o.ua = {} \/ All \in o.ua \/ o.ua \cap q.ua # {}
  <2>1. /\ Keys("UserAgent", o) = IF o.ua = {} THEN {All} ELSE o.ua
        /\ Asked("UserAgent", q, now) = {All} \cup q.ua
    BY KeysFact, AskedFact
  <2> QED
    BY <2>1
<1> QED
  BY <1>1, <1>2, <1>3, <1>4, <1>5, <1>6, <1>7, PidFact

(* The bits that mobile requests alone have, and need. *)
LEMMA MobileFact ==
  ASSUME NEW o, NEW q, NEW now, Pushed(o)
  PROVE  /\ q.flow # "mobile" => Match(o, q, now) \cap Mobile = {}
         /\ q.flow = "mobile" =>
              (Mobile \subseteq Match(o, q, now) <=>
                 /\ All \in o.operator \/ o.operator \cap q.operator # {}
                 /\ All \in o.device \/ o.device \cap q.device # {}
                 /\ All \in o.connect \/ o.connect \cap q.connect # {})
<1>1. \A f \in Mobile : f \in Match(o, q, now) <=> Keys(f, o) \cap Asked(f, q, now) # {}
  BY DEF Match
<1>2. CASE q.flow # "mobile"
  BY <1>1, <1>2, AskedFact
<1>3. CASE q.flow = "mobile"
  <2>1. \A l, m : l \cap ({All} \cup m) # {} <=> All \in l \/ l \cap m # {}
    OBVIOUS
  <2>2. /\ Keys("MobileOperator", o) = o.operator /\ Keys("MobileDevice", o) = o.device
        /\ Keys("MobileConnect", o) = o.connect
        /\ Asked("MobileOperator", q, now) = {All} \cup q.operator
        /\ Asked("MobileDevice", q, now) = {All} \cup q.device
        /\ Asked("MobileConnect", q, now) = {All} \cup q.connect
    BY <1>3, KeysFact, AskedFact
  <2>3. Mobile = {"MobileOperator", "MobileDevice", "MobileConnect"}
    BY DEF Mobile
  <2> QED
    BY <1>1, <1>3, <2>1, <2>2, <2>3
<1> QED
  BY <1>2, <1>3

(* Nine indexes and one comparison of bits decide what the planner means.  *)
LEMMA ParameterSuits ==
  ASSUME NEW o, NEW q, NEW now, Planned(o), q.adx # 0
  PROVE  Parameter(o, q, now) <=> Suits(o, q, now)
<1>1. CASE ~Pushed(o)
  <2>1. "Time" \notin Match(o, q, now)
    BY <1>1, NoKeysFact DEF Match
  <2>2. "Time" \in Mask(q)
    BY DEF Mask, Normal
  <2>3. ~Parameter(o, q, now)
    BY <2>1, <2>2 DEF Parameter
  <2> QED
    BY <1>1, <2>3 DEF Suits, Pushed
<1>2. CASE Pushed(o)
  <2> DEFINE normal ==
               /\ now \in o.hours
               /\ \E p \in o.pids : p.adx = q.adx
               /\ \E p \in o.pids : p.adx = q.adx /\ Asks(p, q)
               /\ All \in o.area \/ q.area \in o.area
               /\ \E m \in o.materials : m.group /\ m.adx = q.adx /\ m.size = q.size
               /\ o.ua = {} \/ All \in o.ua \/ o.ua \cap q.ua # {}
             mobile ==
               /\ All \in o.operator \/ o.operator \cap q.operator # {}
               /\ All \in o.device \/ o.device \cap q.device # {}
               /\ All \in o.connect \/ o.connect \cap q.connect # {}
             rest ==
               /\ q.flow = "mobile" => o.mobile
               /\ q.flow = "pc" => ~o.mobile
               /\ o.screens # {} => \E s \in o.screens : s = 0 \/ s >= q.view
               /\ o.types # {} => 0 \in o.types \/ q.type \in o.types
  <2>1. Normal \subseteq Match(o, q, now) <=> normal
    <3>1. Normal = {"Time", "AdExchange", "Pid", "Area", "Size", "UserAgent"}
      BY DEF Normal
    <3> QED
      BY <1>2, <3>1, BitsFact
  <2>2. Match(o, q, now) \subseteq Normal \cup Mobile /\ Normal \cap Mobile = {}
    BY DEF Match, Normal, Mobile
  <2>3. Match(o, q, now) = Mask(q) <=> normal /\ (q.flow = "mobile" => mobile)
    <3>1. CASE q.flow = "mobile"
      <4>1. Mobile \subseteq Match(o, q, now) <=> mobile
        BY <1>2, <3>1, MobileFact
      <4> HIDE DEF normal, mobile
      <4> QED
        BY <2>1, <2>2, <3>1, <4>1 DEF Mask
    <3>2. CASE q.flow # "mobile"
      <4>1. Match(o, q, now) \cap Mobile = {}
        BY <1>2, <3>2, MobileFact
      <4> HIDE DEF normal, mobile
      <4> QED
        BY <2>1, <2>2, <3>2, <4>1 DEF Mask
    <3> QED
      BY <3>1, <3>2
  <2>4. Parameter(o, q, now) <=>
          /\ Match(o, q, now) = Mask(q)
          /\ rest
          /\ q.flow = "video" => \E m \in o.materials : m.adx = q.adx /\ m.size = q.size
    BY DEF Parameter, Allows
  <2>5. normal => \E m \in o.materials : m.adx = q.adx /\ m.size = q.size
    OBVIOUS
  <2>6. Suits(o, q, now) <=> normal /\ (q.flow = "mobile" => mobile) /\ rest
    BY <1>2 DEF Suits, Asks, Pushed
  <2> HIDE DEF normal, mobile, rest
  <2> QED
    BY <2>3, <2>4, <2>5, <2>6
<1> QED
  BY <1>1, <1>2
-----------------------------------------------------------------------------
(* A material that AdRtbEngineBuild may take for an order that Parameter   *)
(* let through is one that the indexes know.                               *)
LEMMA MaterialFact ==
  ASSUME NEW o, NEW q, NEW now, Planned(o), q.adx # 0, Parameter(o, q, now)
  PROVE  /\ Pushed(o)
         /\ now \in o.hours
         /\ Materials(o, q) # {}
         /\ \A m \in Materials(o, q) : m \in o.materials /\ m.group /\ m.adx = q.adx /\ m.size = q.size
<1>1. Suits(o, q, now)
  BY ParameterSuits
<1>2. Pushed(o) /\ now \in o.hours
  BY <1>1 DEF Suits, Pushed
<1>3. PICK m \in o.materials : m.group /\ m.adx = q.adx /\ m.size = q.size
  BY <1>1 DEF Suits
<1>4. \A n \in o.materials : n.adx = q.adx => n.group
  BY <1>3 DEF Planned
<1> QED
  BY <1>2, <1>3, <1>4 DEF Materials

(* What the indexes of bans file a material under. *)
LEMMA BanKeysFact ==
  ASSUME NEW o, Pushed(o), NEW m \in o.materials, m.group
  PROVE  /\ o.banContent \cup o.banPids \subseteq BanKeys(o)
         /\ m.kind # 0 => <<"CRT", m.adx, m.size, m.kind>> \in BanKeys(o)
         /\ m.cat # <<>> => <<"CAT", m.adx, m.cat>> \in BanKeys(o)
         /\ m.cat # <<>> /\ m.adx = Baidu => <<"CAT", m.adx, Head2(m.cat)>> \in BanKeys(o)
         /\ m.cat # <<>> => <<"CAT", m.adx, m.cat>> \in TanxKeys(o)
<1>1. /\ o.banContent \cup o.banPids \subseteq BanKeys(o)
      /\ m.kind # 0 => <<"CRT", m.adx, m.size, m.kind>> \in BanKeys(o)
  BY DEF BanKeys
<1>2. m.cat # <<>> => m \in Categorised(o)
  BY DEF Categorised
<1>3. m.cat # <<>> => <<"CAT", m.adx, m.cat>> \in BanKeys(o)
  BY <1>2 DEF BanKeys
<1>4. m.cat # <<>> /\ m.adx = Baidu => <<"CAT", m.adx, Head2(m.cat)>> \in BanKeys(o)
  BY <1>2 DEF BanKeys
<1>5. m.cat # <<>> => <<"CAT", m.adx, m.cat>> \in TanxKeys(o)
  BY <1>2 DEF TanxKeys
<1> QED
  BY <1>1, <1>3, <1>4, <1>5

(* What a request looks up there. *)
LEMMA BanAskedFact ==
  ASSUME NEW q
  PROVE  /\ {<<q.pid>>, <<q.adx, q.pid>>} \subseteq BanAsked(q)
         /\ \A c \in q.sensitive \cup q.categories : <<"CAT", q.adx, c>> \in BanAsked(q)
         /\ \A k \in q.creates : <<"CRT", q.adx, q.size, k>> \in BanAsked(q)
         /\ q.adx = TanX => \A d \in TanxDescriptions :
              d.pid = q.pid /\ ~d.limited => \A c \in d.cats : <<"CAT", TanX, c>> \in TanxAsked(q)
<1>1. /\ {<<q.pid>>, <<q.adx, q.pid>>} \subseteq BanAsked(q)
      /\ \A c \in q.sensitive \cup q.categories : <<"CAT", q.adx, c>> \in BanAsked(q)
      /\ \A k \in q.creates : <<"CRT", q.adx, q.size, k>> \in BanAsked(q)
  BY DEF BanAsked
<1>2. ASSUME q.adx = TanX, NEW d \in TanxDescriptions, d.pid = q.pid, ~d.limited, NEW c \in d.cats
      PROVE  <<"CAT", TanX, c>> \in TanxAsked(q)
  BY <1>2 DEF TanxAsked
<1> QED
  BY <1>1, <1>2

(* The bans of an order cover each of its materials.                       *)
LEMMA AllowedFact ==
  ASSUME NEW q, Legible(q), NEW o, NEW now, Planned(o), Parameter(o, q, now),
         ~Banned(o, q), NEW m \in Materials(o, q)
  PROVE  Allowed(o, q, m)
<1>1. q.adx # 0 /\ <<>> \notin q.sensitive \cup q.categories
  BY DEF Legible
<1>2. Pushed(o) /\ m \in o.materials /\ m.group /\ m.adx = q.adx /\ m.size = q.size
  BY <1>1, MaterialFact
<1>3. /\ BanKeys(o) \cap BanAsked(q) = {}
      /\ TanxKeys(o) \cap TanxAsked(q) = {}
  BY DEF Banned
<1>4. m.cat \notin q.sensitive \cup q.categories
  BY <1>1, <1>2, <1>3, BanKeysFact, BanAskedFact
<1>5. ASSUME q.adx = Baidu
      PROVE  Head2(m.cat) \notin q.sensitive \cup q.categories
  <2>1. CASE m.cat = <<>>
    BY <1>1, <2>1 DEF Head2
  <2>2. CASE m.cat # <<>>
    BY <1>2, <1>3, <1>5, <2>2, BanKeysFact, BanAskedFact
  <2> QED
    BY <2>1, <2>2
<1>6. m.kind # 0 => m.kind \notin q.creates
  BY <1>2, <1>3, BanKeysFact, BanAskedFact
<1>7. ASSUME q.adx = TanX, NEW d \in TanxDescriptions, d.pid = q.pid, ~d.limited
      PROVE  m.cat \notin d.cats
  <2>1. <<>> \notin d.cats
    BY BiddingAssumption
  <2>2. m.cat # <<>> => <<"CAT", TanX, m.cat>> \in TanxKeys(o)
    BY <1>2, <1>7, BanKeysFact
  <2>3. m.cat \in d.cats => <<"CAT", TanX, m.cat>> \in TanxAsked(q)
    BY <1>7, BanAskedFact
  <2> QED
    BY <1>3, <2>1, <2>2, <2>3
<1>8. o.banContent \cup o.banPids \subseteq BanKeys(o) /\ {<<q.pid>>, <<q.adx, q.pid>>} \subseteq BanAsked(q)
  BY <1>2, BanKeysFact, BanAskedFact
<1>9. /\ o.banContent \cap {<<q.pid>>, <<q.adx, q.pid>>} = {}
      /\ <<q.adx, q.pid>> \notin o.banPids
  BY <1>3, <1>8
<1> QED
  BY <1>4, <1>5, <1>6, <1>7, <1>9 DEF Allowed
-----------------------------------------------------------------------------
(* The ranking.                                                            *)

(* Prices are numbers. *)
LEMMA PriceFact ==
  ASSUME NEW o, NEW q, Planned(o)
  PROVE  Price(o, q) \in Nat
<1> DEFINE advanced == {a \in o.advanced : a.pid = q.pid}
<1>1. \A a \in advanced : a.price \in Nat
  BY DEF Planned
<1>2. o.target \in Nat /\ o.model \in Nat
  BY DEF Planned
<1>3. advanced # {} => (CHOOSE a \in advanced : TRUE) \in advanced
  OBVIOUS
<1> QED
  BY <1>1, <1>2, <1>3 DEF Price

(* Drawn from n slots, a slot has at most n - 1 before it. *)
LEMMA DrawFact ==
  ASSUME NEW n \in Nat, NEW i \in RandWet(n), n <= 3
  PROVE  i \in Nat /\ i <= 2
BY DEF RandWet

(* At most two of the prices that were kept are above the one drawn.       *)
LEMMA StrategyFact ==
  ASSUME NEW kept, IsFiniteSet(kept), NEW f \in [kept -> Nat],
         NEW u \in kept,
         LET prices == {f[v] : v \in kept}
             n == Cardinality(prices)
         IN Cardinality(kept) <= 3
            \/ Cardinality({p \in prices : p > f[u]}) \in RandWet(IF n < 3 THEN n ELSE 3)
  PROVE  Cardinality({p \in {f[v] : v \in kept} : p > f[u]}) <= 2
<1> DEFINE prices == {f[v] : v \in kept}
           above == {p \in prices : p > f[u]}
           n == Cardinality(prices)
<1>1. f \in Surjection(kept, prices)
  BY DEF Surjection
<1>2. IsFiniteSet(prices) /\ n <= Cardinality(kept) /\ n \in Nat
  BY <1>1, FS_Surjection, FS_CardinalityType
<1>3. prices \subseteq Nat /\ f[u] \in prices
  OBVIOUS
<1>4. above \subseteq prices \ {f[u]}
  BY <1>3
<1> HIDE DEF prices, above
<1>5. CASE Cardinality(kept) <= 3
  <2>1. Cardinality(kept) \in Nat
    BY FS_CardinalityType
  <2>2. IsFiniteSet(prices \ {f[u]}) /\ Cardinality(prices \ {f[u]}) = n - 1
    BY <1>2, <1>3, FS_RemoveElement
  <2>3. Cardinality(above) \in Nat /\ Cardinality(above) <= n - 1
    BY <1>4, <2>2, FS_Subset, FS_CardinalityType
  <2> QED
    BY <1>2, <1>5, <2>1, <2>3 DEF above, prices
<1>6. CASE Cardinality(above) \in RandWet(IF n < 3 THEN n ELSE 3)
  <2>1. (IF n < 3 THEN n ELSE 3) \in Nat /\ (IF n < 3 THEN n ELSE 3) <= 3
    BY <1>2
  <2> QED
    BY <1>6, <2>1, DrawFact DEF above, prices
<1> QED
  BY <1>5, <1>6 DEF above, prices

\* what OfferIsWorthIt says of an offer for the orders res
Worth(book, q, res, c) ==
  /\ c.unit \in res
  /\ Kept(book[c.unit], q)
  /\ c.price = Price(book[c.unit], q)
  /\ Cardinality({p \in {Price(book[v], q) : v \in {w \in res : Kept(book[w], q)}} : p > c.price}) <= 2

(* The ranking chooses among the orders found: the user's own if there is one, *)
(* else one of the three best prices. *)
LEMMA ChoiceFact ==
  ASSUME NEW book \in Plans, NEW q, NEW res \in SUBSET DOMAIN book, NEW vip \in SUBSET res,
         NEW c \in RankChoice(book, q, res, vip)
  PROVE  /\ c.unit \in res
         /\ vip # {} => c.unit \in vip
         /\ vip = {} => Worth(book, q, res, c)
<1> DEFINE kept == {u \in res : Kept(book[u], q)}
           f == [u \in kept |-> Price(book[u], q)]
           prices == {f[v] : v \in kept}
           n == Cardinality(prices)
<1>1. CASE vip # {}
  BY <1>1 DEF RankChoice
<1>2. CASE vip = {}
  <2>1. \A u \in res : Planned(book[u]) /\ Price(book[u], q) \in Nat
    BY BiddingAssumption, PriceFact
  <2>2. IsFiniteSet(kept)
    BY BiddingAssumption, FS_Subset
  <2>3. f \in [kept -> Nat]
    BY <2>1
  <2>4. {Price(book[v], q) : v \in kept} = prices
    OBVIOUS
  <2>5. PICK u \in kept :
          /\ c = [unit |-> u, price |-> Price(book[u], q)]
          /\ \/ Cardinality(kept) <= 3
             \/ Cardinality({p \in prices : p > f[u]}) \in RandWet(IF n < 3 THEN n ELSE 3)
    <3>1. c \in {[unit |-> u, price |-> f[u]] : u \in RankStrategy(f)}
      BY <1>2 DEF RankChoice
    <3>2. PICK u \in RankStrategy(f) : c = [unit |-> u, price |-> f[u]]
      BY <3>1
    <3>3. DOMAIN f = kept
      OBVIOUS
    <3>4. /\ u \in kept
          /\ \/ Cardinality(kept) <= 3
             \/ Cardinality({p \in prices : p > f[u]}) \in RandWet(IF n < 3 THEN n ELSE 3)
      <4> HIDE DEF f, kept
      <4> QED
        BY <3>2, <3>3 DEF RankStrategy
    <3> QED
      BY <3>2, <3>4
  <2>6. f[u] = Price(book[u], q)
    OBVIOUS
  <2>7. Cardinality({p \in prices : p > f[u]}) <= 2
    <3> HIDE DEF f, kept
    <3> QED
      BY <2>2, <2>3, <2>5, StrategyFact
  <2>8. Cardinality({p \in prices : p > c.price}) <= 2
    BY <2>5, <2>6, <2>7
  <2>9. c.unit \in res /\ Kept(book[c.unit], q) /\ c.price = Price(book[c.unit], q)
    BY <2>5
  <2>10. Cardinality({p \in {Price(book[v], q) : v \in kept} : p > c.price}) <= 2
    BY <2>4, <2>8
  <2> QED
    BY <1>2, <2>9, <2>10 DEF Worth
<1> QED
  BY <1>1, <1>2
-----------------------------------------------------------------------------
(* The marks. *)

\* the keywords that some mark contains
Known(tree, marks) ==
  {n \in tree : \E i \in DOMAIN marks : Occurs(n.key, marks[i].text)}

(* What is kept from mark to mark are such keywords. *)
LEMMA MatchedFact ==
  ASSUME NEW tree, NEW marks, marks \in Seq(ToSet(marks))
  PROVE  \A i \in 0 .. Len(marks) : Matched(tree, marks)[i] \subseteq Known(tree, marks)
<1> DEFINE N == Len(marks)
           next(i, m) == LET now == m \cup Within(tree, marks[i])
                         IN IF Fitting(now, marks[i]) = {} THEN now ELSE {}
           S == SUBSET Known(tree, marks)
           step == [p \in (1 .. N) \X S |-> next(p[1], p[2])]
           M == Matched(tree, marks)
<1>1. N \in Nat /\ DOMAIN marks = 1 .. N
  OBVIOUS
<1>2. ASSUME NEW i \in 1 .. N, NEW m \in S
      PROVE  next(i, m) \in S
  BY <1>1 DEF Known, Within
<1>3. step \in [(1 .. N) \X S -> S]
  BY <1>2
<1>4. \A i \in 1 .. N : \A m \in S : step[<<i, m>>] = next(i, m)
  OBVIOUS
<1>5. M = CHOOSE f : f = [i \in 0 .. N |-> IF i = 0 THEN {} ELSE next(i, f[i - 1])]
  BY DEF Matched
<1> HIDE DEF step, next, N, M
<1>6. PICK f \in [0 .. N -> S] : Steps(N, {}, step, f)
  BY <1>1, <1>3, Recursion
<1>7. f = [i \in 0 .. N |-> IF i = 0 THEN {} ELSE next(i, f[i - 1])]
  <2>1. \A i \in 0 .. N : f[i] = IF i = 0 THEN {} ELSE next(i, f[i - 1])
    <3> SUFFICES ASSUME NEW i \in 0 .. N
                 PROVE  f[i] = IF i = 0 THEN {} ELSE next(i, f[i - 1])
      OBVIOUS
    <3>1. f[i] = IF i = 0 THEN {} ELSE step[<<i, f[i - 1]>>]
      BY <1>6 DEF Steps
    <3>2. i # 0 => i \in 1 .. N /\ f[i - 1] \in S
      BY <1>1
    <3> QED
      BY <3>1, <3>2, <1>4
  <2> QED
    BY <2>1
<1>8. M = [i \in 0 .. N |-> IF i = 0 THEN {} ELSE next(i, M[i - 1])]
  <2> DEFINE P(g) == g = [i \in 0 .. N |-> IF i = 0 THEN {} ELSE next(i, g[i - 1])]
  <2>1. \E g : P(g)
    BY <1>7
  <2>2. M = CHOOSE g : P(g)
    BY <1>5
  <2> HIDE DEF P
  <2>3. P(M)
    BY <2>1, <2>2
  <2> QED
    BY <2>3 DEF P
<1> DEFINE T == {i \in 0 .. N : M[i] \in S}
<1>9. 0 \in T
  BY <1>1, <1>8
<1>10. ASSUME NEW i \in 0 .. N - 1, i \in T
       PROVE  i + 1 \in T
  <2>1. i + 1 \in 1 .. N /\ M[i] \in S
    BY <1>1, <1>10
  <2>2. M[i + 1] = next(i + 1, M[i])
    BY <1>1, <2>1, <1>8
  <2> QED
    BY <1>2, <2>1, <2>2
<1> HIDE DEF T
<1>11. \A i \in 0 .. N : i \in T
  BY <1>1, <1>9, <1>10, Upwards
<1> QED
  BY <1>11 DEF T, N, M

(* An order found for its keywords has one that a mark of the user contains. *)
LEMMA MatchFact ==
  ASSUME NEW book, NEW marks, marks \in Seq(ToSet(marks)),
         NEW u \in MatchMark(Tree(book), marks)
  PROVE  \E k \in book[u].keys : \E i \in DOMAIN marks : Occurs(k.key, marks[i].text)
<1> DEFINE tree == Tree(book)
           M == Matched(tree, marks)
<1>1. PICK i \in DOMAIN marks : u \in Fitting(M[i - 1] \cup Within(tree, marks[i]), marks[i])
  BY DEF MatchMark
<1>2. PICK n \in M[i - 1] \cup Within(tree, marks[i]) : n.unit = u
  BY <1>1 DEF Fitting
<1>3. M[i - 1] \subseteq Known(tree, marks)
  <2>1. i - 1 \in 0 .. Len(marks)
    OBVIOUS
  <2> QED
    BY <2>1, MatchedFact
<1>4. Within(tree, marks[i]) \subseteq Known(tree, marks)
  BY DEF Within, Known
<1>5. n \in tree /\ \E j \in DOMAIN marks : Occurs(n.key, marks[j].text)
  BY <1>2, <1>3, <1>4 DEF Known
<1>6. PICK v \in Marked(book) : n \in {[unit |-> v, type |-> k.type, key |-> k.key] : k \in book[v].keys}
  BY <1>5 DEF Tree
<1>7. PICK k \in book[v].keys : n = [unit |-> v, type |-> k.type, key |-> k.key]
  BY <1>6
<1>8. v = u /\ n.key = k.key
  BY <1>2, <1>7
<1> QED
  BY <1>5, <1>7, <1>8

(* A hit is a condition of a node that a mark of the user meets. *)
LEMMA HitsFact ==
  ASSUME NEW o, NEW marks, NEW h
  PROVE  h \in Hits(o, marks) <=>
           /\ \E n \in DOMAIN o.audience, k \in Kinds :
                h \in [mark : DOMAIN marks, node : {n}, kind : {k}, bit : Masked(o.audience[n][k])]
           /\ LET c == o.audience[h.node][h.kind][h.bit]
              IN IsStrictPrefix(c.key, marks[h.mark].text) /\ c.days >= marks[h.mark].days
<1> DEFINE part(n, k) == [mark : DOMAIN marks, node : {n}, kind : {k}, bit : Masked(o.audience[n][k])]
           ok(g) == LET c == o.audience[g.node][g.kind][g.bit]
                    IN IsStrictPrefix(c.key, marks[g.mark].text) /\ c.days >= marks[g.mark].days
<1>1. Hits(o, marks) = {g \in UNION {part(n, k) : n \in DOMAIN o.audience, k \in Kinds} : ok(g)}
  BY DEF Hits
<1> HIDE DEF part, ok
<1>2. h \in UNION {part(n, k) : n \in DOMAIN o.audience, k \in Kinds} <=>
        \E n \in DOMAIN o.audience, k \in Kinds : h \in part(n, k)
  OBVIOUS
<1>3. h \in Hits(o, marks) <=> (\E n \in DOMAIN o.audience, k \in Kinds : h \in part(n, k)) /\ ok(h)
  BY <1>1, <1>2
<1> QED
  BY <1>3 DEF part, ok

(* Of an order with one audience, all of whose conditions count, the user meets *)
(* each one searched for or visited and none that must not be. *)
LEMMA AudienceFact ==
  ASSUME NEW o, NEW user, o.audience \in Seq(ToSet(o.audience)), Len(o.audience) = 1,
         o.audience[1].merge = "AND", AudienceFits(o, user.audience)
  PROVE  /\ Meets(o.audience[1], user, "search") = Masked(o.audience[1].search)
         /\ Meets(o.audience[1], user, "visit") = Masked(o.audience[1].visit)
         /\ Meets(o.audience[1], user, "unvisit") = {}
<1> DEFINE node == o.audience[1]
           hits == Hits(o, user.audience)
           met(i, k, j) == /\ IsStrictPrefix(node[k][i].key, user.audience[j].text)
                           /\ node[k][i].days >= user.audience[j].days
<1>1. DOMAIN o.audience = {1}
  OBVIOUS
<1>2. ASSUME NEW k \in Kinds
      PROVE  Bits(hits, k) = Meets(node, user, k)
  <2>1. ASSUME NEW h \in hits, h.kind = k
        PROVE  h.bit \in Masked(node[k]) /\ h.mark \in DOMAIN user.audience /\ met(h.bit, k, h.mark)
    <3>1. PICK n \in DOMAIN o.audience, c \in Kinds :
            h \in [mark : DOMAIN user.audience, node : {n}, kind : {c}, bit : Masked(o.audience[n][c])]
      BY <2>1, HitsFact
    <3>2. h.node = 1 /\ n = 1 /\ c = k
      BY <1>1, <2>1, <3>1
    <3>3. h.mark \in DOMAIN user.audience /\ h.bit \in Masked(o.audience[1][k])
      BY <3>1, <3>2
    <3>4. LET e == o.audience[h.node][h.kind][h.bit]
          IN IsStrictPrefix(e.key, user.audience[h.mark].text) /\ e.days >= user.audience[h.mark].days
      BY HitsFact
    <3> QED
      BY <2>1, <3>2, <3>3, <3>4
  <2>2. ASSUME NEW i \in Masked(node[k]), NEW j \in DOMAIN user.audience, met(i, k, j)
        PROVE  i \in Bits(hits, k)
    <3> DEFINE h == [mark |-> j, node |-> 1, kind |-> k, bit |-> i]
    <3>1. h \in [mark : DOMAIN user.audience, node : {1}, kind : {k}, bit : Masked(o.audience[1][k])]
      OBVIOUS
    <3>2. h.mark = j /\ h.node = 1 /\ h.kind = k /\ h.bit = i
      OBVIOUS
    <3> HIDE DEF h
    <3>4. h \in hits
      BY <1>1, <2>2, <3>1, <3>2, HitsFact
    <3> HIDE DEF hits
    <3> QED
      BY <3>2, <3>4 DEF Bits
  <2> HIDE DEF hits
  <2> QED
    BY <2>1, <2>2 DEF Bits, Meets
<1>3. PICK h \in hits : LET last == o.audience[h.node]
                        IN \/ last.merge = "OR"
                           \/ /\ last.merge = "AND"
                              /\ \A k \in {"search", "visit"} : Bits(hits, k) = Masked(last[k])
                              /\ Bits(hits, "unvisit") = {}
  BY DEF AudienceFits
<1>4. h.node = 1
  <2>1. PICK n \in DOMAIN o.audience, k \in Kinds :
          h \in [mark : DOMAIN user.audience, node : {n}, kind : {k}, bit : Masked(o.audience[n][k])]
    BY HitsFact
  <2> QED
    BY <1>1, <2>1
<1>5. /\ \A k \in {"search", "visit"} : Bits(hits, k) = Masked(node[k])
      /\ Bits(hits, "unvisit") = {}
  BY <1>3, <1>4
<1>6. {"search", "visit", "unvisit"} \subseteq Kinds
  BY DEF Kinds
<1> HIDE DEF node, hits
<1>7. Meets(node, user, "search") = Masked(node["search"])
  BY <1>2, <1>5, <1>6
<1>8. Meets(node, user, "visit") = Masked(node["visit"])
  BY <1>2, <1>5, <1>6
<1>9. Meets(node, user, "unvisit") = {}
  BY <1>2, <1>5, <1>6
<1> QED
  BY <1>7, <1>8, <1>9 DEF node
-----------------------------------------------------------------------------
(* The invariant: what a bid holds is a part of what the filters found for *)
(* its request, and its offer is a choice of the ranking among it.         *)

\* the fields of a bid
Fields == {"pc", "q", "book", "now", "user", "res", "vip", "offer"}

\* the offer is the ranking's choice, with a material of its order
Chosen(s) ==
  \E c \in RankChoice(s.book, s.q, s.res, s.vip) :
    \E m \in Materials(s.book[c.unit], s.q) :
      s.offer = [unit |-> c.unit, price |-> c.price, material |-> m]

\* a thread's part of the invariant
Sane(s) ==
  /\ DOMAIN s = Fields
  /\ s.pc \in {"idle", "realtime", "mark", "rank", "offer"}
  /\ s.pc # "idle" =>
       /\ Legible(s.q) /\ s.book \in Plans
       /\ s.res \subseteq StaticMatch(s.book, s.q, s.now)
  /\ s.pc = "realtime" => s.res = StaticMatch(s.book, s.q, s.now)
  /\ s.pc \in {"realtime", "mark"} => s.vip = {}
  /\ s.pc \in {"rank", "offer"} =>
       s.user \in Users /\ s.res \subseteq MarkMatch(s.book, DOMAIN s.book, s.q, s.user)
  /\ s.vip \subseteq s.res /\ \A u \in s.vip : u = s.user.eid
  /\ s.pc = "offer" => Chosen(s)

BidInv == bid = [b \in Bidders |-> bid[b]] /\ \A b \in Bidders : Sane(bid[b])

(* An idle thread has nothing to keep. *)
LEMMA NoBidSane == Sane(NoBid)
BY DEF Sane, Fields, NoBid

(* Mark takes orders out, each for its own sake. *)
LEMMA MarkFact ==
  ASSUME NEW book, NEW res, NEW q, NEW user
  PROVE  /\ MarkMatch(book, res, q, user) \subseteq res
         /\ \A all : res \subseteq all =>
              MarkMatch(book, res, q, user) \subseteq MarkMatch(book, all, q, user)
BY DEF MarkMatch

(* A step writes the bid of one thread. *)
LEMMA SetFact ==
  ASSUME BidInv, NEW b \in Bidders, NEW r, Sane(r), Set(b, r)
  PROVE  BidInv'
<1>1. bid' = [bid EXCEPT ![b] = r]
  BY DEF Set
<1>2. bid' = [c \in Bidders |-> bid'[c]] /\ \A c \in Bidders : bid'[c] = IF c = b THEN r ELSE bid[c]
  BY <1>1 DEF BidInv
<1> QED
  BY <1>2 DEF BidInv

(* Each step of a bid keeps the invariant. *)
LEMMA StartSane ==
  ASSUME BidInv, NEW b \in Bidders, NEW q, Legible(q), NEW book \in Plans, NEW now,
         BidStart(b, q, book, now)
  PROVE  BidInv'
<1> DEFINE found == StaticMatch(book, q, now)
           r == [NoBid EXCEPT !.pc = "realtime", !.q = q, !.book = book, !.now = now, !.res = found]
<1>1. DOMAIN NoBid = Fields /\ NoBid.vip = {}
  BY DEF NoBid, Fields
<1>2. Set(b, NoBid) \/ Set(b, r)
  BY DEF BidStart
<1>3. /\ DOMAIN r = Fields /\ r.pc = "realtime" /\ r.q = q /\ r.book = book /\ r.now = now
      /\ r.res = found /\ r.vip = {}
  <2> HIDE DEF found
  <2> QED
    BY <1>1 DEF Fields
<1> HIDE DEF r
<1>4. Sane(r)
  BY <1>3 DEF Sane
<1> QED
  BY <1>2, <1>4, NoBidSane, SetFact

LEMMA RealTimeSane ==
  ASSUME BidInv, NEW b \in Bidders, NEW held, BidRealTime(b, held)
  PROVE  BidInv'
<1> DEFINE s == bid[b]
           r == [s EXCEPT !.pc = "mark", !.res = s.res \ held]
<1>1. Sane(s) /\ s.pc = "realtime"
  BY DEF BidInv, BidRealTime
<1>2. Set(b, NoBid) \/ Set(b, r)
  BY DEF BidRealTime
<1> HIDE DEF s
<1>3. /\ DOMAIN r = Fields /\ r.pc = "mark" /\ r.q = s.q /\ r.book = s.book /\ r.now = s.now
      /\ r.res = s.res \ held /\ r.vip = s.vip
  BY <1>1 DEF Sane, Fields
<1> HIDE DEF r
<1>4. Sane(r)
  BY <1>1, <1>3 DEF Sane
<1> QED
  BY <1>2, <1>4, NoBidSane, SetFact

LEMMA MarkSane ==
  ASSUME BidInv, NEW b \in Bidders, NEW user \in Users, BidMark(b, user)
  PROVE  BidInv'
<1> DEFINE s == bid[b]
           found == MarkMatch(s.book, s.res, s.q, user)
           own == IF user.ok THEN found \cap {user.eid} ELSE {}
           r == [s EXCEPT !.pc = "rank", !.res = found, !.vip = own, !.user = user]
<1>1. Sane(s) /\ s.pc = "mark"
  BY DEF BidInv, BidMark
<1>2. Set(b, NoBid) \/ Set(b, r)
  BY DEF BidMark
<1>3. found \subseteq s.res /\ own \subseteq found /\ \A u \in own : u = user.eid
  BY MarkFact
<1>6. found \subseteq MarkMatch(s.book, DOMAIN s.book, s.q, user)
  <2>1. s.res \subseteq DOMAIN s.book
    BY <1>1 DEF Sane, StaticMatch
  <2> QED
    BY <2>1, MarkFact
<1> HIDE DEF s, found, own
<1>4. /\ DOMAIN r = Fields /\ r.pc = "rank" /\ r.q = s.q /\ r.book = s.book /\ r.now = s.now
      /\ r.res = found /\ r.vip = own /\ r.user = user
  BY <1>1 DEF Sane, Fields
<1> HIDE DEF r
<1>5. Sane(r)
  BY <1>1, <1>3, <1>4, <1>6 DEF Sane
<1> QED
  BY <1>2, <1>5, NoBidSane, SetFact

LEMMA RankSane ==
  ASSUME BidInv, NEW b \in Bidders, BidRank(b)
  PROVE  BidInv'
<1> DEFINE s == bid[b]
           r(c, m) == [s EXCEPT !.pc = "offer",
                         !.offer = [unit |-> c.unit, price |-> c.price, material |-> m]]
<1>1. Sane(s) /\ s.pc = "rank"
  BY DEF BidInv, BidRank
<1>2. \/ Set(b, NoBid)
      \/ \E c \in RankChoice(s.book, s.q, s.res, s.vip) :
           \E m \in Materials(s.book[c.unit], s.q) : Set(b, r(c, m))
  BY DEF BidRank
<1>3. ASSUME NEW c \in RankChoice(s.book, s.q, s.res, s.vip),
             NEW m \in Materials(s.book[c.unit], s.q), NEW t, t = r(c, m)
      PROVE  Sane(t)
  <2> DEFINE offer == [unit |-> c.unit, price |-> c.price, material |-> m]
  <2> HIDE DEF s, offer
  <2>1. /\ DOMAIN t = Fields /\ t.pc = "offer" /\ t.q = s.q /\ t.book = s.book
        /\ t.now = s.now /\ t.res = s.res /\ t.vip = s.vip /\ t.user = s.user /\ t.offer = offer
    BY <1>1, <1>3 DEF Sane, Fields, offer
  <2>2. Chosen(t)
    BY <2>1 DEF Chosen, offer
  <2> QED
    BY <1>1, <2>1, <2>2 DEF Sane
<1> HIDE DEF s, r
<1> QED
  BY <1>2, <1>3, NoBidSane, SetFact

LEMMA OnSane ==
  ASSUME BidInv, NEW b \in Bidders, BidOn(b)
  PROVE  BidInv'
<1>1. CASE \E user \in Users : BidMark(b, user)
  BY <1>1, MarkSane
<1>2. CASE BidLate(b) \/ BidEnd(b)
  BY <1>2, NoBidSane, SetFact DEF BidLate, BidEnd
<1>3. CASE BidRank(b)
  BY <1>3, RankSane
<1> QED
  BY <1>1, <1>2, <1>3 DEF BidOn

(* So the invariant is inductive. *)
LEMMA InitSane == BidInit => BidInv
BY NoBidSane DEF BidInit, BidInv

LEMMA BidStep == BidInv /\ [BidNext]_bid => BidInv'
<1> SUFFICES ASSUME BidInv, [BidNext]_bid PROVE BidInv'
  OBVIOUS
<1>1. ASSUME NEW b \in Bidders, NEW q \in Requests, NEW book \in Plans, NEW now \in Times,
             BidStart(b, q, book, now)
      PROVE  BidInv'
  BY <1>1, StartSane, BiddingAssumption
<1>2. ASSUME NEW b \in Bidders, NEW held, BidRealTime(b, held)
      PROVE  BidInv'
  BY <1>2, RealTimeSane
<1>3. ASSUME NEW b \in Bidders, BidOn(b)
      PROVE  BidInv'
  BY <1>3, OnSane
<1>4. CASE UNCHANGED bid
  BY <1>4 DEF BidInv
<1> QED
  BY <1>1, <1>2, <1>3, <1>4 DEF BidNext

(* In every reachable state each thread's bid holds what the filters found for *)
(* its request, and its offer is a choice of the ranking among it. *)
THEOREM BidInvariant == BidSpec => []BidInv
BY InitSane, BidStep, PTL DEF BidSpec
-----------------------------------------------------------------------------
(* What a bid has of the invariant. *)
LEMMA FoundOnes ==
  ASSUME NEW book \in Plans, NEW q, NEW now, NEW u \in StaticMatch(book, q, now)
  PROVE  /\ u \in DOMAIN book /\ Planned(book[u])
         /\ Parameter(book[u], q, now) /\ ~Banned(book[u], q)
BY BiddingAssumption DEF StaticMatch

(* The result is what the planners mean, for any orders and requests.      *)
THEOREM FiltersSuit == BidSpec => []ResultSuits
<1>1. ASSUME NEW book \in Plans, NEW q, Legible(q), NEW now
      PROVE  StaticMatch(book, q, now) =
               {u \in DOMAIN book : Suits(book[u], q, now) /\ ~Banned(book[u], q)}
  <2>1. \A u \in DOMAIN book : Parameter(book[u], q, now) <=> Suits(book[u], q, now)
    BY <1>1, BiddingAssumption, ParameterSuits DEF Legible
  <2> QED
    BY <2>1 DEF StaticMatch
<1>2. BidInv => ResultSuits
  <2> SUFFICES ASSUME BidInv, NEW b \in Bidders, bid[b].pc = "realtime"
               PROVE  bid[b].res = {u \in DOMAIN bid[b].book :
                        Suits(bid[b].book[u], bid[b].q, bid[b].now) /\ ~Banned(bid[b].book[u], bid[b].q)}
    BY DEF ResultSuits
  <2>1. /\ Legible(bid[b].q) /\ bid[b].book \in Plans
        /\ bid[b].res = StaticMatch(bid[b].book, bid[b].q, bid[b].now)
    BY DEF BidInv, Sane
  <2> QED
    BY <1>1, <2>1
<1> QED
  BY <1>2, BidInvariant, PTL

(* Whatever passed the filters can be built.                               *)
THEOREM BuildSucceeds == BidSpec => []OfferCanBeBuilt
<1>1. BidInv => OfferCanBeBuilt
  <2> SUFFICES ASSUME BidInv, NEW b \in Bidders, bid[b].pc = "rank", NEW u \in bid[b].res
               PROVE  Materials(bid[b].book[u], bid[b].q) # {}
    BY DEF OfferCanBeBuilt
  <2>1. /\ Legible(bid[b].q) /\ bid[b].book \in Plans
        /\ u \in StaticMatch(bid[b].book, bid[b].q, bid[b].now)
    BY DEF BidInv, Sane
  <2> QED
    BY <2>1, FoundOnes, MaterialFact DEF Legible
<1> QED
  BY <1>1, BidInvariant, PTL

\* an offer's order was found for its request, and its material is the order's
OfferFact(s) ==
  /\ s.offer.unit \in s.res /\ s.res \subseteq DOMAIN s.book
  /\ s.offer.material \in Materials(s.book[s.offer.unit], s.q)
  /\ s.vip # {} => s.offer.unit \in s.vip
  /\ s.vip = {} => Worth(s.book, s.q, s.res, [unit |-> s.offer.unit, price |-> s.offer.price])

(* Every offer is such a one. *)
LEMMA OfferHolds ==
  ASSUME BidInv, NEW b \in Bidders, bid[b].pc = "offer"
  PROVE  OfferFact(bid[b])
<1> DEFINE s == bid[b]
<1>1. Sane(s) /\ Chosen(s) /\ Legible(s.q) /\ s.book \in Plans
  BY DEF BidInv, Sane
<1>2. PICK c \in RankChoice(s.book, s.q, s.res, s.vip) :
        \E m \in Materials(s.book[c.unit], s.q) :
          s.offer = [unit |-> c.unit, price |-> c.price, material |-> m]
  BY <1>1 DEF Chosen
<1>3. PICK m \in Materials(s.book[c.unit], s.q) :
        s.offer = [unit |-> c.unit, price |-> c.price, material |-> m]
  BY <1>2
<1>4. s.res \in SUBSET DOMAIN s.book /\ s.vip \in SUBSET s.res
  BY <1>1 DEF Sane, StaticMatch
<1> HIDE DEF s
<1>5. /\ c.unit \in s.res
      /\ s.vip # {} => c.unit \in s.vip
      /\ s.vip = {} => Worth(s.book, s.q, s.res, c)
  BY <1>1, <1>4, ChoiceFact
<1>6. s.offer.unit = c.unit /\ s.offer.price = c.price /\ s.offer.material = m
  BY <1>3
<1>7. Worth(s.book, s.q, s.res, c) =>
        Worth(s.book, s.q, s.res, [unit |-> s.offer.unit, price |-> s.offer.price])
  BY <1>6 DEF Worth
<1> QED
  BY <1>3, <1>4, <1>5, <1>6, <1>7 DEF OfferFact, s

(* No offer shows a material where the order's own lists, the request or   *)
(* TanX's content rules exclude it.  It says nothing of landing pages.     *)
THEOREM OffersAllowed == BidSpec => []OfferIsAllowed
<1>1. BidInv => OfferIsAllowed
  <2> SUFFICES ASSUME BidInv, NEW b \in Bidders, bid[b].pc = "offer"
               PROVE  Allowed(bid[b].book[bid[b].offer.unit], bid[b].q, bid[b].offer.material)
    BY DEF OfferIsAllowed
  <2>1. OfferFact(bid[b])
    BY OfferHolds
  <2>2. /\ Legible(bid[b].q) /\ bid[b].book \in Plans
        /\ bid[b].offer.unit \in StaticMatch(bid[b].book, bid[b].q, bid[b].now)
    BY <2>1 DEF BidInv, Sane, OfferFact
  <2> QED
    BY <2>1, <2>2, FoundOnes, AllowedFact DEF OfferFact
<1> QED
  BY <1>1, BidInvariant, PTL

(* No offer is below the floor or far below what others would pay.         *)
THEOREM OffersWorthIt == BidSpec => []OfferIsWorthIt
<1>1. BidInv => OfferIsWorthIt
  <2> SUFFICES ASSUME BidInv, NEW b \in Bidders, bid[b].pc = "offer"
               PROVE  LET s == bid[b]
                          others == {Price(s.book[u], s.q) : u \in {v \in s.res : Kept(s.book[v], s.q)}}
                      IN IF s.vip # {} THEN s.offer.unit \in s.vip /\ s.offer.unit = s.user.eid
                         ELSE /\ s.offer.price > s.q.floor \/ (s.q.flow = "video" /\ s.q.adx \in FloorFree)
                              /\ Cardinality({p \in others : p > s.offer.price}) <= 2
    BY DEF OfferIsWorthIt
  <2> DEFINE s == bid[b]
  <2>1. OfferFact(s) /\ \A u \in s.vip : u = s.user.eid
    BY OfferHolds DEF BidInv, Sane
  <2>2. CASE s.vip # {}
    BY <2>1, <2>2 DEF OfferFact
  <2>3. CASE s.vip = {}
    <3>1. Worth(s.book, s.q, s.res, [unit |-> s.offer.unit, price |-> s.offer.price])
      BY <2>1, <2>3 DEF OfferFact
    <3>2. /\ Kept(s.book[s.offer.unit], s.q)
          /\ s.offer.price = Price(s.book[s.offer.unit], s.q)
          /\ Cardinality({p \in {Price(s.book[v], s.q) : v \in {w \in s.res : Kept(s.book[w], s.q)}} :
                            p > s.offer.price}) <= 2
      BY <3>1 DEF Worth
    <3> QED
      BY <2>3, <3>2 DEF Kept
  <2> QED
    BY <2>2, <2>3
<1> QED
  BY <1>1, BidInvariant, PTL

(* An order is left by the filter of marks for what its condition says.    *)
LEMMA MarkMatchFact ==
  ASSUME NEW book, NEW q, Legible(q), NEW user \in Users,
         NEW u \in MarkMatch(book, DOMAIN book, q, user)
  PROVE  /\ Nice(book[u]) = "NICE" =>
              \E k \in book[u].keys :
                IF user.ok THEN \E i \in DOMAIN user.marks : Occurs(k.key, user.marks[i].text)
                ELSE \E i \in DOMAIN q.crowd : Occurs(k.key, q.crowd[i])
         /\ Nice(book[u]) = "AUDIENCE" => user.ok /\ AudienceFits(book[u], user.audience)
<1> DEFINE tags == [i \in DOMAIN q.crowd |-> [text |-> q.crowd[i], tag |-> "TAG"]]
           marks == IF user.ok THEN user.marks ELSE tags
           audience == IF user.ok THEN user.audience ELSE <<>>
<1>1. marks \in Seq(ToSet(marks))
  <2>1. CASE user.ok
    BY <2>1, BiddingAssumption
  <2>2. CASE ~user.ok
    <3>1. q.crowd \in Seq(ToSet(q.crowd))
      BY DEF Legible
    <3>2. DOMAIN tags = 1 .. Len(q.crowd) /\ Len(q.crowd) \in Nat
      BY <3>1
    <3>3. \A i \in DOMAIN tags : tags[i] \in ToSet(tags)
      BY DEF ToSet
    <3> HIDE DEF tags
    <3>4. tags = [i \in 1 .. Len(q.crowd) |-> tags[i]]
      BY <3>2 DEF tags
    <3>5. tags \in Seq(ToSet(tags))
      BY <3>2, <3>3, <3>4
    <3> QED
      BY <2>2, <3>5
  <2> QED
    BY <2>1, <2>2
<1>2. Nice(book[u]) = "NICE" => u \in MatchMark(Tree(book), marks)
  BY DEF MarkMatch, Nice
<1>3. Nice(book[u]) = "AUDIENCE" => AudienceFits(book[u], audience)
  BY DEF MarkMatch, Nice
<1>4. ASSUME Nice(book[u]) = "NICE"
      PROVE  \E k \in book[u].keys :
               IF user.ok THEN \E i \in DOMAIN user.marks : Occurs(k.key, user.marks[i].text)
               ELSE \E i \in DOMAIN q.crowd : Occurs(k.key, q.crowd[i])
  <2>1. u \in MatchMark(Tree(book), marks)
    BY <1>2, <1>4
  <2> HIDE DEF marks
  <2>2. PICK k \in book[u].keys, i \in DOMAIN marks : Occurs(k.key, marks[i].text)
    BY <1>1, <2>1, MatchFact
  <2>3. CASE user.ok
    BY <2>2, <2>3 DEF marks
  <2>4. CASE ~user.ok
    BY <2>2, <2>4 DEF marks
  <2> QED
    BY <2>3, <2>4
<1>5. ~AudienceFits(book[u], <<>>)
  BY HitsFact DEF AudienceFits
<1> QED
  BY <1>3, <1>4, <1>5

(* No bid is left for an order whose keywords or audience the user is not  *)
(* in, whatever the marks, their order and the orders beside it.           *)
THEOREM MarksMet == BidSpec => []MarksAreMet
<1>1. BidInv => MarksAreMet
  <2> SUFFICES ASSUME BidInv, NEW b \in Bidders, bid[b].pc = "rank", NEW u \in bid[b].res
               PROVE  LET s == bid[b]
                          o == s.book[u]
                      IN /\ Nice(o) = "NICE" => \E k \in o.keys, t \in Texts(s) : Occurs(k.key, t)
                         /\ Nice(o) = "AUDIENCE" /\ Len(o.audience) = 1 /\ o.audience[1].merge = "AND" =>
                              /\ Meets(o.audience[1], s.user, "search") = Masked(o.audience[1].search)
                              /\ Meets(o.audience[1], s.user, "visit") = Masked(o.audience[1].visit)
                              /\ Meets(o.audience[1], s.user, "unvisit") = {}
    BY DEF MarksAreMet
  <2> DEFINE s == bid[b]
             o == s.book[u]
  <2>1. /\ Legible(s.q) /\ s.book \in Plans /\ s.user \in Users
        /\ u \in StaticMatch(s.book, s.q, s.now)
        /\ u \in MarkMatch(s.book, DOMAIN s.book, s.q, s.user)
    BY DEF BidInv, Sane
  <2>2. Planned(o)
    BY <2>1, FoundOnes
  <2> HIDE DEF s
  <2>3. ASSUME Nice(o) = "NICE"
        PROVE  \E k \in o.keys, t \in Texts(s) : Occurs(k.key, t)
    <3>1. \E k \in o.keys :
            IF s.user.ok THEN \E i \in DOMAIN s.user.marks : Occurs(k.key, s.user.marks[i].text)
            ELSE \E i \in DOMAIN s.q.crowd : Occurs(k.key, s.q.crowd[i])
      BY <2>1, <2>3, MarkMatchFact
    <3> QED
      BY <3>1 DEF Texts
  <2>4. ASSUME Nice(o) = "AUDIENCE", Len(o.audience) = 1, o.audience[1].merge = "AND"
        PROVE  /\ Meets(o.audience[1], s.user, "search") = Masked(o.audience[1].search)
               /\ Meets(o.audience[1], s.user, "visit") = Masked(o.audience[1].visit)
               /\ Meets(o.audience[1], s.user, "unvisit") = {}
    <3>1. AudienceFits(o, s.user.audience)
      BY <2>1, <2>4, MarkMatchFact
    <3>2. o.audience \in Seq(ToSet(o.audience))
      BY <2>2 DEF Planned
    <3> HIDE DEF o
    <3> QED
      BY <2>4, <3>1, <3>2, AudienceFact
  <2> QED
    BY <2>3, <2>4 DEF s
<1> QED
  BY <1>1, BidInvariant, PTL
=============================================================================
