------------------------- MODULE StockTickerProofs -------------------------
(***************************************************************************)
(* Proofs about StockTicker: any number of browsers, symbols and asks, and *)
(* both editions.                                                          *)
(*                                                                         *)
(* Who may write stocksMap is a callback or the actor, each from what it   *)
(* has read before.  Held says that a switch anybody holds, in the map or  *)
(* in what he has read, is one of a stream that was started, and that the  *)
(* switch unwatchStocks is about to remove has ended its stream.           *)
(***************************************************************************)
EXTENDS StockTicker, FiniteSetTheorems, TLAPS

UserTypes ==
  /\ socket \in [User -> {"none", "asked", "open", "closed", "failed",
                          "forbidden"}]
  /\ parentBox \in Seq(User)
  /\ actor \in [User -> {"none", "running", "stopping", "stopped"}]
  /\ mailbox \in [User -> Seq(Message)]
  /\ unwatched \in 0 .. MaxUnwatch

Stage  == {"free", "asked", "answered", "adding", "done", "timedOut"}
Switch == [Symbol -> Ask \cup {None}]
Flow   == [Symbol -> {"none", "running", "ended"}]

AskTypes ==
  /\ edition \in {"java", "scala"}
  /\ stocks \in [Symbol -> Nat]
  /\ asker \in [Ask -> User \cup {None}]
  /\ symbols \in [Ask -> SUBSET Symbol]
  /\ answer \in [Ask -> Stage]
  /\ atStock \in [Ask -> Symbol \cup {None}]
  /\ snapshot \in [Ask -> Switch]
  /\ stocksMap \in [User -> Switch]
  /\ stream \in [Ask -> Flow]
  /\ source \in [Ask -> [Symbol -> Nat]]
  /\ raced \in [User -> SUBSET Symbol]
  /\ lost \subseteq Ask \X Symbol

\* The Scala map creates one Stock for a symbol.
OneStock ==
  edition = "scala" =>
    \A s \in Symbol : stocks[s] \in {0, 1}
                      /\ \A a \in Ask : source[a][s] \in {0, 1}

\* The streams an ask has still to start are not there.
InStage(a) ==
  /\ answer[a] # "free" => asker[a] \in User
  /\ answer[a] \in {"free", "asked", "timedOut"} =>
       \A s \in Symbol : stream[a][s] = "none"
  /\ answer[a] = "answered" => \A s \in symbols[a] : stream[a][s] = "none"
  /\ answer[a] = "adding" =>
       /\ atStock[a] \in symbols[a]
       /\ \A s \in symbols[a] : s # atStock[a] => stream[a][s] = "none"

\* The ask a has s to itself, or will.
Claim(a, s) ==
  \/ Adding(a, s)
  \/ stream[a][s] = "running" /\ <<a, s>> \notin lost

RacesNoted ==
  \A a, b \in Ask : \A s \in Symbol :
    a # b /\ asker[a] = asker[b] /\ Claim(a, s) /\ Claim(b, s) =>
      s \in raced[asker[a]]

AskInv == /\ AskTypes /\ OneStock /\ StreamsAreControlled /\ RacesNoted
          /\ \A a \in Ask : InStage(a)

RemovalTypes == removal \in [User -> Removal]

Started(map) == \A s \in Symbol : map[s] \in Ask => stream[map[s]][s] # "none"

Held ==
  /\ \A a \in Ask : Started(snapshot[a])
  /\ \A u \in User :
       /\ Started(stocksMap[u]) /\ Started(removal[u].map)
       /\ removal[u].step # "next" => removal[u].at \in Symbol
       /\ removal[u].killed \in Ask =>
            /\ removal[u].at \in Symbol
            /\ stream[removal[u].killed][removal[u].at] = "ended"

TickerInv == UserTypes /\ RemovalTypes /\ AskInv /\ Held

-----------------------------------------------------------------------------
LEMMA TypesSplit == TypeOK <=> UserTypes /\ AskTypes /\ RemovalTypes
BY DEF TypeOK, UserTypes, AskTypes, RemovalTypes, Stage, Switch, Flow

LEMMA AtAsk ==
  ASSUME AskTypes, NEW a \in Ask
  PROVE  /\ asker[a] \in User \cup {None} /\ symbols[a] \in SUBSET Symbol
         /\ answer[a] \in Stage /\ atStock[a] \in Symbol \cup {None}
         /\ snapshot[a] \in Switch /\ stream[a] \in Flow
         /\ \A s \in Symbol : stream[a][s] \in {"none", "running", "ended"}
BY DEF AskTypes, Flow

\* A stream that runs has somebody who asked for it.
LEMMA RunningHasAsker ==
  ASSUME AskInv, NEW a \in Ask, NEW s \in Symbol, stream[a][s] = "running"
  PROVE  asker[a] \in User /\ answer[a] \notin {"free", "asked", "timedOut"}
BY DEF AskInv, InStage

\* addStocks.
LEMMA AddStocksKeeps ==
  ASSUME AskInv, NEW u \in User, NEW r \in SUBSET Symbol, NEW a \in Ask,
         addStocks(u, r, a),
         UNCHANGED <<edition, stocks, stocksMap, stream, source, raced, lost>>
  PROVE  AskInv'
<1>inv. /\ AskTypes /\ OneStock /\ StreamsAreControlled /\ RacesNoted
        /\ \A b \in Ask : InStage(b)
  BY DEF AskInv
<1>1. /\ asker'[a] = u /\ symbols'[a] = r /\ answer'[a] = "asked"
      /\ \A b \in Ask : b # a =>
           /\ asker'[b] = asker[b] /\ symbols'[b] = symbols[b]
           /\ answer'[b] = answer[b]
      /\ atStock' = atStock /\ snapshot' = snapshot /\ stream' = stream
      /\ stocksMap' = stocksMap /\ lost' = lost /\ raced' = raced
      /\ edition' = edition /\ stocks' = stocks /\ source' = source
  BY <1>inv DEF AskTypes, addStocks
<1>2. AskTypes'
  BY <1>inv DEF AskTypes, addStocks, Stage
<1>3. \A s \in Symbol : stream[a][s] = "none"
  BY <1>inv DEF addStocks, InStage
<1>4. OneStock'
  BY <1>inv, <1>1 DEF OneStock
<1>5. StreamsAreControlled'
  BY <1>inv, <1>1, <1>3 DEF StreamsAreControlled, Adding
<1>6. ASSUME NEW b \in Ask, NEW s \in Symbol, Claim(b, s)'
      PROVE  b # a /\ Claim(b, s)
  BY <1>1, <1>3, <1>6 DEF Claim, Adding
<1>7. RacesNoted'
  BY <1>inv, <1>1, <1>6 DEF RacesNoted
<1>8. ASSUME NEW b \in Ask PROVE InStage(b)'
  BY <1>inv, <1>1, <1>3 DEF InStage
<1> QED BY <1>2, <1>4, <1>5, <1>7, <1>8 DEF AskInv

\* A change of the map: what is written, and what it overwrites.
LEMMA Written ==
  ASSUME AskTypes, NEW u \in User, NEW m \in Switch, NEW s \in Symbol,
         NEW w \in Ask \cup {None}, WriteMap(u, m, s, w)
  PROVE  /\ stocksMap' \in [User -> Switch] /\ stocksMap'[u][s] = w
         /\ \A v \in User : v # u => stocksMap'[v] = stocksMap[v]
         /\ \A x \in Symbol : x # s => stocksMap'[u][x] \in {m[x], stocksMap[u][x]}
         /\ Overwritten(u) \subseteq Ask \X Symbol
         /\ \A x \in Symbol :
              stocksMap[u][x] \in Ask /\ stocksMap'[u][x] # stocksMap[u][x]
                => <<stocksMap[u][x], x>> \in Overwritten(u)
<1>1. stocksMap \in [User -> Switch]
  BY DEF AskTypes
<1>2. PICK map \in {m, stocksMap[u]} :
        stocksMap' = [stocksMap EXCEPT ![u] = [map EXCEPT ![s] = w]]
  BY DEF WriteMap, WithSwitch
<1>3. map \in Switch
  BY <1>1, <1>2
<1> DEFINE n == [map EXCEPT ![s] = w]
<1>4. n \in Switch /\ n[s] = w /\ \A x \in Symbol : x # s => n[x] = map[x]
  BY <1>3 DEF Switch
<1> HIDE DEF n
<1>5. /\ stocksMap' \in [User -> Switch] /\ stocksMap'[u] = n
      /\ \A v \in User : v # u => stocksMap'[v] = stocksMap[v]
  BY <1>1, <1>2, <1>4 DEF n
<1>6. \A x \in Watched(u) : stocksMap[u][x] \in Ask /\ x \in Symbol
  BY <1>1 DEF Switch, Watched
<1>7. \A x \in Symbol : stocksMap[u][x] \in Ask => x \in Watched(u)
  BY TickerAssumption DEF Watched
<1>8. Overwritten(u) \subseteq Ask \X Symbol
  BY <1>6 DEF Overwritten
<1>9. \A x \in Symbol :
        stocksMap[u][x] \in Ask /\ stocksMap'[u][x] # stocksMap[u][x]
          => <<stocksMap[u][x], x>> \in Overwritten(u)
  BY <1>7 DEF Overwritten
<1> QED BY <1>2, <1>4, <1>5, <1>8, <1>9

\* unwatchStocks shuts a stream down, and removes its switch.
LEMMA ShutdownKeeps ==
  ASSUME AskInv, NEW u \in User, NEW s \in Symbol, shutdown(u, s),
         UNCHANGED <<edition, stocks, askVars, stocksMap, source, raced, lost>>
  PROVE  AskInv'
<1>inv. /\ AskTypes /\ OneStock /\ StreamsAreControlled /\ RacesNoted
        /\ \A b \in Ask : InStage(b)
  BY DEF AskInv
<1>1. \A a \in Ask : \A x \in Symbol :
        stream'[a][x] = IF x = s /\ stocksMap[u][s] = a /\ stream[a][x] = "running"
                        THEN "ended" ELSE stream[a][x]
  BY DEF shutdown
<1>3. /\ edition' = edition /\ stocks' = stocks /\ asker' = asker
      /\ symbols' = symbols /\ answer' = answer /\ atStock' = atStock
      /\ snapshot' = snapshot /\ source' = source /\ raced' = raced
      /\ lost' = lost /\ stocksMap' = stocksMap
  BY DEF askVars
<1>4. stream' \in [Ask -> Flow]
  BY <1>inv, AtAsk DEF shutdown, Flow
<1>5. AskTypes'
  BY <1>inv, <1>3, <1>4 DEF AskTypes
<1>6. OneStock'
  BY <1>inv, <1>3 DEF OneStock
<1>7. \A a \in Ask : \A x \in Symbol :
        /\ stream'[a][x] = "running" => stream[a][x] = "running"
        /\ stream[a][x] = "none" => stream'[a][x] = "none"
  BY <1>1
<1>8. StreamsAreControlled'
  BY <1>inv, <1>3, <1>7 DEF StreamsAreControlled, Adding
<1>9. ASSUME NEW a \in Ask, NEW x \in Symbol, Claim(a, x)'
      PROVE  Claim(a, x)
  BY <1>3, <1>7, <1>9 DEF Claim, Adding
<1>10. RacesNoted'
  BY <1>inv, <1>3, <1>9 DEF RacesNoted
<1>11. ASSUME NEW a \in Ask PROVE InStage(a)'
  <2>1. InStage(a) /\ symbols[a] \subseteq Symbol
    BY <1>inv, AtAsk
  <2> QED BY <1>3, <1>7, <2>1 DEF InStage
<1> QED BY <1>5, <1>6, <1>8, <1>10, <1>11 DEF AskInv

LEMMA RemoveKeeps ==
  ASSUME AskInv, RemovalTypes, Held, NEW u \in User, RemoveSwitch(u)
  PROVE  AskInv'
<1>inv. /\ AskTypes /\ OneStock /\ StreamsAreControlled /\ RacesNoted
        /\ \A b \in Ask : InStage(b)
  BY DEF AskInv
<1> DEFINE s == removal[u].at
           m == removal[u].map
           k == removal[u].killed
<1>1. /\ edition' = edition /\ stocks' = stocks /\ asker' = asker
      /\ symbols' = symbols /\ answer' = answer /\ atStock' = atStock
      /\ snapshot' = snapshot /\ source' = source /\ raced' = raced
      /\ stream' = stream
      /\ WriteMap(u, m, s, None)
      /\ lost' = lost \cup (Overwritten(u) \ {<<k, s>>})
  BY DEF RemoveSwitch, askVars
<1>2. m \in Switch /\ s \in Symbol \cup {None} /\ k \in Ask \cup {None}
      /\ (k \in Ask => s \in Symbol /\ stream[k][s] = "ended")
  BY DEF RemovalTypes, Removal, Held, Switch
<1>at. s \in Symbol
  BY DEF Held, RemoveSwitch
<1>3. /\ stocksMap' \in [User -> Switch]
      /\ \A v \in User : v # u => stocksMap'[v] = stocksMap[v]
      /\ Overwritten(u) \subseteq Ask \X Symbol
      /\ \A x \in Symbol :
           stocksMap[u][x] \in Ask /\ stocksMap'[u][x] # stocksMap[u][x]
             => <<stocksMap[u][x], x>> \in Overwritten(u)
  <2> HIDE DEF s, m, k
  <2> QED BY <1>inv, <1>1, <1>2, <1>at, Written
<1> HIDE DEF s, m, k
<1>4. lost' \subseteq Ask \X Symbol /\ lost \subseteq lost'
  BY <1>inv, <1>1, <1>3 DEF AskTypes
<1>5. AskTypes'
  BY <1>inv, <1>1, <1>3, <1>4 DEF AskTypes
<1>6. OneStock'
  BY <1>inv, <1>1 DEF OneStock
<1>7. StreamsAreControlled'
  <2> SUFFICES ASSUME NEW b \in Ask, NEW x \in Symbol,
                      stream[b][x] = "running"
               PROVE  \/ stocksMap'[asker[b]][x] = b
                      \/ Adding(b, x) \/ <<b, x>> \in lost'
    BY <1>1 DEF StreamsAreControlled, Adding
  <2>1. asker[b] \in User
    BY RunningHasAsker
  <2>2. \/ stocksMap[asker[b]][x] = b
        \/ Adding(b, x) \/ <<b, x>> \in lost
    BY <1>inv DEF StreamsAreControlled
  <2>3. <<b, x>> # <<k, s>>
    BY <1>2
  <2>4. CASE stocksMap[asker[b]][x] = b
    BY <1>1, <1>3, <2>1, <2>3, <2>4
  <2> QED BY <1>4, <2>2, <2>4
<1>8. ASSUME NEW b \in Ask, NEW x \in Symbol, Claim(b, x)'
      PROVE  Claim(b, x)
  BY <1>1, <1>4, <1>8 DEF Claim, Adding
<1>9. RacesNoted'
  BY <1>inv, <1>1, <1>8 DEF RacesNoted
<1>10. ASSUME NEW b \in Ask PROVE InStage(b)'
  BY <1>inv, <1>1 DEF InStage
<1> QED BY <1>5, <1>6, <1>7, <1>9, <1>10 DEF AskInv

\* StocksActor serves the ask, before its timeout or after it.
LEMMA ServeKeeps ==
  ASSUME AskInv, NEW a \in Ask, GetStocks(a) \/ AskTimeout(a)
  PROVE  AskInv'
<1>inv. /\ AskTypes /\ OneStock /\ StreamsAreControlled /\ RacesNoted
        /\ \A b \in Ask : InStage(b)
  BY DEF AskInv
<1>1. /\ edition' = edition /\ asker' = asker /\ symbols' = symbols
      /\ atStock' = atStock /\ snapshot' = snapshot /\ stocksMap' = stocksMap
      /\ stream' = stream /\ raced' = raced /\ lost' = lost
      /\ stocks' = [s \in Symbol |-> IF s \in symbols[a] THEN stockFor(s)
                                     ELSE stocks[s]]
      /\ answer[a] = "asked"
  BY DEF GetStocks, AskTimeout
<1>2. /\ answer'[a] \in {"answered", "timedOut"} /\ answer' \in [Ask -> Stage]
      /\ \A b \in Ask : b # a => answer'[b] = answer[b]
  BY <1>inv DEF GetStocks, AskTimeout, AskTypes, Stage
<1>3. \A s \in Symbol : stockFor(s) \in Nat
                        /\ (edition = "scala" => stockFor(s) \in {0, 1})
  BY <1>inv DEF stockFor, AskTypes, OneStock
<1>4. /\ stocks' \in [Symbol -> Nat]
      /\ edition = "scala" => \A s \in Symbol : stocks'[s] \in {0, 1}
  BY <1>inv, <1>1, <1>3 DEF AskTypes, OneStock
<1>5. /\ source' \in [Ask -> [Symbol -> Nat]]
      /\ edition = "scala" =>
           \A b \in Ask : \A s \in Symbol : source'[b][s] \in {0, 1}
  <2>1. CASE source' = source
    BY <1>inv, <2>1 DEF AskTypes, OneStock
  <2>2. CASE GetStocks(a)
    <3> DEFINE f == [s \in Symbol |-> IF s \in symbols[a] THEN stockFor(s)
                                      ELSE 0]
    <3>1. source' = [source EXCEPT ![a] = f]
      BY <2>2 DEF GetStocks
    <3>2. /\ f \in [Symbol -> Nat]
          /\ edition = "scala" => \A s \in Symbol : f[s] \in {0, 1}
      BY <1>3
    <3> HIDE DEF f
    <3>3. /\ source' \in [Ask -> [Symbol -> Nat]] /\ source'[a] = f
          /\ \A b \in Ask : b # a => source'[b] = source[b]
      BY <1>inv, <3>1, <3>2 DEF AskTypes
    <3> QED BY <1>inv, <3>2, <3>3 DEF OneStock
  <2> QED BY <2>1, <2>2 DEF AskTimeout
<1>6. AskTypes'
  BY <1>inv, <1>1, <1>2, <1>4, <1>5 DEF AskTypes
<1>7. OneStock'
  BY <1>1, <1>4, <1>5 DEF OneStock
<1>8. \A b \in Ask : \A s \in Symbol :
        /\ Adding(b, s)' <=> Adding(b, s)
        /\ Claim(b, s)' <=> Claim(b, s)
  BY <1>1, <1>2 DEF Adding, Claim
<1>9. StreamsAreControlled' /\ RacesNoted'
  BY <1>inv, <1>1, <1>8 DEF StreamsAreControlled, RacesNoted
<1>10. ASSUME NEW b \in Ask PROVE InStage(b)'
  <2>1. InStage(b) /\ InStage(a) /\ symbols[b] \subseteq Symbol
    BY <1>inv, AtAsk
  <2> QED BY <1>1, <1>2, <2>1 DEF InStage
<1> QED BY <1>6, <1>7, <1>9, <1>10 DEF AskInv

\* What Rest leaves of an ask.
LEMMA RestOf ==
  ASSUME AskTypes, NEW a \in Ask, NEW s \in Symbol, Rest(a, s)
  PROVE  /\ symbols' \in [Ask -> SUBSET Symbol]
         /\ symbols'[a] = symbols[a] \ {s}
         /\ answer' \in [Ask -> Stage] /\ answer'[a] \in {"answered", "done"}
         /\ \A b \in Ask : b # a => /\ symbols'[b] = symbols[b]
                                    /\ answer'[b] = answer[b]
BY DEF Rest, AskTypes, Stage

\* A callback looks whether a stock is watched.
LEMMA CheckKeeps ==
  ASSUME AskInv, NEW a \in Ask, NEW s \in Symbol, CheckStock(a, s)
  PROVE  AskInv'
<1>inv. /\ AskTypes /\ OneStock /\ StreamsAreControlled /\ RacesNoted
        /\ \A b \in Ask : InStage(b)
  BY DEF AskInv
<1> DEFINE u == asker[a]
<1>1. /\ edition' = edition /\ stocks' = stocks /\ asker' = asker
      /\ snapshot' = snapshot /\ stocksMap' = stocksMap /\ stream' = stream
      /\ source' = source /\ lost' = lost
      /\ answer[a] = "answered" /\ s \in symbols[a] /\ u \in User
  BY <1>inv DEF CheckStock, InStage
<1>2. OneStock'
  BY <1>inv, <1>1 DEF OneStock
<1>3. CASE ~MustAdd(u, s)
  <2>1. Rest(a, s) /\ atStock' = atStock /\ raced' = raced
    BY <1>3 DEF CheckStock
  <2>2. AskTypes'
    BY <1>inv, <1>1, <2>1, RestOf DEF AskTypes
  <2>3. \A b \in Ask : \A x \in Symbol :
          /\ Adding(b, x)' <=> Adding(b, x)
          /\ Claim(b, x)' <=> Claim(b, x)
    BY <1>inv, <1>1, <2>1, RestOf DEF Adding, Claim
  <2>4. StreamsAreControlled' /\ RacesNoted'
    BY <1>inv, <1>1, <2>1, <2>3 DEF StreamsAreControlled, RacesNoted
  <2>5. ASSUME NEW b \in Ask PROVE InStage(b)'
    BY <1>inv, <1>1, <2>1, RestOf DEF InStage
  <2> QED BY <1>2, <2>2, <2>4, <2>5 DEF AskInv
<1>4. CASE MustAdd(u, s)
  <2> DEFINE busy == {c \in Ask \ {a} : asker[c] = u /\ answer[c] = "adding"}
             more == raced[u] \cup {s} \cup {atStock[c] : c \in busy}
  <2>1. /\ atStock' = [atStock EXCEPT ![a] = s]
        /\ answer' = [answer EXCEPT ![a] = "adding"]
        /\ raced' = [raced EXCEPT ![u] = IF busy # {} THEN more ELSE @]
        /\ symbols' = symbols
        /\ stocksMap[u][s] = None
    BY <1>4 DEF CheckStock, MustAdd
  <2>2. /\ atStock' \in [Ask -> Symbol \cup {None}] /\ atStock'[a] = s
        /\ answer' \in [Ask -> Stage] /\ answer'[a] = "adding"
        /\ \A b \in Ask : b # a => /\ atStock'[b] = atStock[b]
                                   /\ answer'[b] = answer[b]
    BY <1>inv, <2>1 DEF AskTypes, Stage
  <2>3. more \subseteq Symbol
    BY <1>inv, <1>1 DEF InStage, AskTypes
  <2>4. /\ raced' \in [User -> SUBSET Symbol]
        /\ \A v \in User : raced[v] \subseteq raced'[v]
        /\ busy # {} => raced'[u] = more
    <3> HIDE DEF busy, more
    <3>1. raced[u] \subseteq more
      BY DEF more
    <3> QED BY <1>inv, <1>1, <2>1, <2>3, <3>1 DEF AskTypes
  <2>5. AskTypes'
    BY <1>inv, <1>1, <2>1, <2>2, <2>4 DEF AskTypes
  <2>6. \A x \in Symbol : ~Adding(a, x)
    BY <1>1 DEF Adding
  <2>7. \A b \in Ask : \A x \in Symbol : b # a =>
          (Adding(b, x)' <=> Adding(b, x)) /\ (Claim(b, x)' <=> Claim(b, x))
    BY <1>1, <2>2 DEF Adding, Claim
  <2>8. StreamsAreControlled'
    BY <1>inv, <1>1, <2>6, <2>7 DEF StreamsAreControlled
  <2>9. \A x \in Symbol : Claim(a, x)' => x = s \/ Claim(a, x)
    BY <1>1, <2>2 DEF Claim, Adding
  <2>10. ASSUME NEW b \in Ask, b # a, asker[b] = u, Claim(b, s)
         PROVE  s \in raced'[u]
    <3>1. CASE Adding(b, s)
      <4>1. b \in busy
        BY <2>10, <3>1 DEF Adding
      <4> QED BY <2>4, <4>1
    <3>2. CASE stream[b][s] = "running" /\ <<b, s>> \notin lost
                 /\ ~Adding(b, s)
      <4>1. stocksMap[u][s] = b
        BY <1>inv, <2>10, <3>2 DEF StreamsAreControlled
      <4> QED BY <2>1, <4>1, TickerAssumption
    <3> QED BY <2>10, <3>1, <3>2 DEF Claim
  <2>11. RacesNoted'
    <3> SUFFICES ASSUME NEW b \in Ask, NEW c \in Ask, NEW x \in Symbol,
                        b # c, asker[b] = asker[c],
                        Claim(b, x)', Claim(c, x)'
                 PROVE  x \in raced'[asker[b]]
      BY <1>1 DEF RacesNoted
    <3>1. asker[b] \in User
      <4>1. b = a \/ Claim(b, x)
        BY <2>7
      <4>2. CASE Adding(b, x)
        BY <1>inv, <4>2 DEF Adding, InStage
      <4>3. CASE stream[b][x] = "running"
        BY <4>3, RunningHasAsker
      <4> QED BY <1>1, <4>1, <4>2, <4>3 DEF Claim
    <3>2. CASE Claim(b, x) /\ Claim(c, x)
      BY <1>inv, <2>4, <3>1, <3>2 DEF RacesNoted
    <3>3. CASE b = a /\ x = s
      BY <2>7, <2>10, <3>3
    <3>4. CASE c = a /\ x = s
      BY <2>7, <2>10, <3>4
    <3> QED BY <2>7, <2>9, <3>2, <3>3, <3>4
  <2>12. ASSUME NEW b \in Ask PROVE InStage(b)'
    <3>1. InStage(b)
      BY <1>inv
    <3>2. CASE b = a
      BY <1>1, <2>1, <2>2, <3>1, <3>2 DEF InStage
    <3>3. CASE b # a
      BY <1>1, <2>1, <2>2, <3>1, <3>3 DEF InStage
    <3> QED BY <3>2, <3>3
  <2> QED BY <1>2, <2>5, <2>8, <2>11, <2>12 DEF AskInv
<1> QED BY <1>3, <1>4

\* addStock: the stream starts, then its switch is kept.
LEMMA RunStreamKeeps ==
  ASSUME AskInv, NEW a \in Ask, RunStream(a)
  PROVE  AskInv'
<1>inv. /\ AskTypes /\ OneStock /\ StreamsAreControlled /\ RacesNoted
        /\ \A b \in Ask : InStage(b)
  BY DEF AskInv
<1> DEFINE s == atStock[a]
<1>1. /\ edition' = edition /\ stocks' = stocks /\ asker' = asker
      /\ symbols' = symbols /\ answer' = answer /\ atStock' = atStock
      /\ stocksMap' = stocksMap /\ source' = source /\ raced' = raced
      /\ lost' = lost /\ answer[a] = "adding"
  BY DEF RunStream
<1>2. asker[a] \in User /\ s \in symbols[a] /\ s \in Symbol
  BY <1>inv, <1>1 DEF InStage, AskTypes
<1>3. /\ stream' \in [Ask -> Flow] /\ stream'[a][s] = "running"
      /\ \A b \in Ask : \A x \in Symbol :
           b # a \/ x # s => stream'[b][x] = stream[b][x]
  BY <1>inv, <1>2 DEF RunStream, AskTypes, Flow
<1>4. snapshot' \in [Ask -> Switch]
  BY <1>inv, <1>2 DEF RunStream, AskTypes
<1>5. AskTypes'
  BY <1>inv, <1>1, <1>3, <1>4 DEF AskTypes
<1>6. OneStock'
  BY <1>inv, <1>1 DEF OneStock
<1>7. Adding(a, s) /\ \A b \in Ask : \A x \in Symbol :
                        Adding(b, x)' <=> Adding(b, x)
  BY <1>1 DEF Adding
<1>8. StreamsAreControlled'
  <2> SUFFICES ASSUME NEW b \in Ask, NEW x \in Symbol,
                      stream'[b][x] = "running"
               PROVE  \/ stocksMap[asker[b]][x] = b
                      \/ Adding(b, x) \/ <<b, x>> \in lost
    BY <1>1, <1>7 DEF StreamsAreControlled
  <2>1. CASE b = a /\ x = s
    BY <1>7, <2>1
  <2>2. CASE b # a \/ x # s
    BY <1>inv, <1>3, <2>2 DEF StreamsAreControlled
  <2> QED BY <2>1, <2>2
<1>9. ASSUME NEW b \in Ask, NEW x \in Symbol, Claim(b, x)'
      PROVE  Claim(b, x)
  <2>1. CASE b = a /\ x = s
    BY <1>7, <2>1 DEF Claim
  <2>2. CASE b # a \/ x # s
    BY <1>1, <1>3, <1>7, <1>9, <2>2 DEF Claim
  <2> QED BY <2>1, <2>2
<1>10. RacesNoted'
  BY <1>inv, <1>1, <1>9 DEF RacesNoted
<1>11. ASSUME NEW b \in Ask PROVE InStage(b)'
  <2>1. InStage(b) /\ symbols[b] \subseteq Symbol
    BY <1>inv, AtAsk
  <2>2. CASE b = a
    BY <1>1, <1>2, <1>3, <2>1, <2>2 DEF InStage
  <2>3. CASE b # a
    BY <1>1, <1>3, <2>1, <2>3 DEF InStage
  <2> QED BY <2>2, <2>3
<1> QED BY <1>5, <1>6, <1>8, <1>10, <1>11 DEF AskInv

LEMMA PutSwitchKeeps ==
  ASSUME AskInv, NEW a \in Ask, PutSwitch(a)
  PROVE  AskInv'
<1>inv. /\ AskTypes /\ OneStock /\ StreamsAreControlled /\ RacesNoted
        /\ \A b \in Ask : InStage(b)
  BY DEF AskInv
<1> DEFINE s == atStock[a]
           u == asker[a]
<1>1. /\ edition' = edition /\ stocks' = stocks /\ asker' = asker
      /\ stream' = stream /\ source' = source /\ raced' = raced
      /\ answer[a] = "adding" /\ Rest(a, s)
      /\ snapshot' = [snapshot EXCEPT ![a] = NoSwitch]
      /\ atStock' = [atStock EXCEPT ![a] = None]
  BY DEF PutSwitch
<1>2. u \in User /\ s \in symbols[a] /\ s \in Symbol
  BY <1>inv, <1>1 DEF InStage, AskTypes
<1>3. /\ WriteMap(u, snapshot[a], s, a) /\ snapshot[a] \in Switch
      /\ lost' = lost \cup Overwritten(u)
  BY <1>inv DEF PutSwitch, AskTypes
<1>4. /\ stocksMap' \in [User -> Switch] /\ stocksMap'[u][s] = a
      /\ \A v \in User : v # u => stocksMap'[v] = stocksMap[v]
      /\ Overwritten(u) \subseteq Ask \X Symbol
      /\ \A x \in Symbol :
           stocksMap[u][x] \in Ask /\ stocksMap'[u][x] # stocksMap[u][x]
             => <<stocksMap[u][x], x>> \in Overwritten(u)
  <2> HIDE DEF s, u
  <2> QED BY <1>inv, <1>2, <1>3, Written
<1>6. lost' \subseteq Ask \X Symbol /\ lost \subseteq lost'
  BY <1>inv, <1>3, <1>4 DEF AskTypes
<1>7. ASSUME NEW x \in Symbol, stocksMap[u][x] \in Ask,
             stocksMap'[u][x] # stocksMap[u][x]
      PROVE  <<stocksMap[u][x], x>> \in lost'
  BY <1>3, <1>4, <1>7
<1>8. /\ snapshot' \in [Ask -> Switch]
      /\ atStock' \in [Ask -> Symbol \cup {None}] /\ atStock'[a] = None
      /\ \A b \in Ask : b # a => atStock'[b] = atStock[b]
  BY <1>inv, <1>1 DEF AskTypes, NoSwitch, Switch
<1>rest. /\ symbols' \in [Ask -> SUBSET Symbol] /\ answer' \in [Ask -> Stage]
         /\ answer'[a] \in {"answered", "done"}
         /\ symbols'[a] = symbols[a] \ {s}
         /\ \A b \in Ask : b # a =>
              symbols'[b] = symbols[b] /\ answer'[b] = answer[b]
  <2> HIDE DEF s
  <2> QED BY <1>inv, <1>1, <1>2, RestOf
<1>9. AskTypes'
  BY <1>inv, <1>1, <1>4, <1>6, <1>8, <1>rest DEF AskTypes
<1>10. OneStock'
  BY <1>inv, <1>1 DEF OneStock
<1>11. /\ answer'[a] \in {"answered", "done"}
       /\ symbols'[a] = symbols[a] \ {s}
       /\ \A b \in Ask : b # a =>
            symbols'[b] = symbols[b] /\ answer'[b] = answer[b]
  BY <1>rest
<1> HIDE DEF s
<1>12. /\ \A b \in Ask : \A x \in Symbol :
            b # a => (Adding(b, x)' <=> Adding(b, x))
       /\ \A x \in Symbol : Adding(a, x) => x = s
  BY <1>8, <1>11 DEF Adding, s
<1>13. StreamsAreControlled'
  <2> SUFFICES ASSUME NEW b \in Ask, NEW x \in Symbol,
                      stream[b][x] = "running"
               PROVE  \/ stocksMap'[asker[b]][x] = b
                      \/ Adding(b, x)' \/ <<b, x>> \in lost'
    BY <1>1 DEF StreamsAreControlled
  <2>1. asker[b] \in User
    BY RunningHasAsker
  <2>2. CASE b = a /\ x = s
    BY <1>4, <2>2
  <2>3. CASE b # a \/ x # s
    <3>1. stocksMap[asker[b]][x] = b \/ Adding(b, x)' \/ <<b, x>> \in lost
      BY <1>inv, <1>12, <2>3 DEF StreamsAreControlled
    <3>2. CASE stocksMap[asker[b]][x] = b
      BY <1>4, <1>7, <2>1, <3>2
    <3> QED BY <1>6, <3>1, <3>2
  <2> QED BY <2>2, <2>3
<1>14. ASSUME NEW b \in Ask, NEW x \in Symbol, Claim(b, x)'
       PROVE  Claim(b, x)
  <2>1. CASE Adding(b, x)'
    <3>1. b # a
      BY <1>11, <2>1 DEF Adding
    <3> QED BY <1>12, <2>1, <3>1 DEF Claim
  <2>2. CASE stream[b][x] = "running" /\ <<b, x>> \notin lost'
    BY <1>6, <2>2 DEF Claim
  <2> QED BY <1>1, <1>14, <2>1, <2>2 DEF Claim
<1>15. RacesNoted'
  BY <1>inv, <1>1, <1>14 DEF RacesNoted
<1>16. ASSUME NEW b \in Ask PROVE InStage(b)'
  <2>1. InStage(b) /\ InStage(a) /\ symbols[b] \subseteq Symbol
    BY <1>inv, AtAsk
  <2>2. CASE b = a
    BY <1>1, <1>2, <1>11, <2>1, <2>2 DEF InStage, s
  <2>3. CASE b # a
    BY <1>1, <1>8, <1>11, <2>1, <2>3 DEF InStage
  <2> QED BY <2>2, <2>3
<1> QED BY <1>9, <1>10, <1>13, <1>15, <1>16 DEF AskInv

\* A stream that nobody reads ends.
LEMMA BackpressureKeeps ==
  ASSUME AskInv, NEW a \in Ask, NEW s \in Symbol, BackpressureTimeout(a, s)
  PROVE  AskInv'
<1>inv. /\ AskTypes /\ OneStock /\ StreamsAreControlled /\ RacesNoted
        /\ \A b \in Ask : InStage(b)
  BY DEF AskInv
<1>1. /\ edition' = edition /\ stocks' = stocks /\ asker' = asker
      /\ symbols' = symbols /\ answer' = answer /\ atStock' = atStock
      /\ snapshot' = snapshot /\ stocksMap' = stocksMap /\ source' = source
      /\ raced' = raced /\ lost' = lost /\ stream[a][s] = "running"
  BY DEF BackpressureTimeout, SlowSubscriber, askVars
<1>2. /\ stream' \in [Ask -> Flow] /\ stream'[a][s] = "ended"
      /\ \A b \in Ask : \A x \in Symbol :
           b # a \/ x # s => stream'[b][x] = stream[b][x]
  BY <1>inv DEF BackpressureTimeout, AskTypes, Flow
<1>3. \A b \in Ask : \A x \in Symbol :
        /\ stream'[b][x] = "running" => stream[b][x] = "running"
        /\ stream[b][x] = "none" => stream'[b][x] = "none"
  <2> TAKE b \in Ask
  <2> TAKE x \in Symbol
  <2>1. CASE b = a /\ x = s
    BY <1>1, <1>2, <2>1
  <2>2. CASE b # a \/ x # s
    BY <1>2, <2>2
  <2> QED BY <2>1, <2>2
<1>4. AskTypes' /\ OneStock'
  BY <1>inv, <1>1, <1>2 DEF AskTypes, OneStock
<1>5. StreamsAreControlled'
  BY <1>inv, <1>1, <1>3 DEF StreamsAreControlled, Adding
<1>6. \A b \in Ask : \A x \in Symbol : Claim(b, x)' => Claim(b, x)
  BY <1>1, <1>3 DEF Claim, Adding
<1>7. RacesNoted'
  BY <1>inv, <1>1, <1>6 DEF RacesNoted
<1>8. ASSUME NEW b \in Ask PROVE InStage(b)'
  <2>1. InStage(b) /\ symbols[b] \subseteq Symbol
    BY <1>inv, AtAsk
  <2> QED BY <1>1, <1>3, <2>1 DEF InStage
<1> QED BY <1>4, <1>5, <1>7, <1>8 DEF AskInv

\* All that only passes messages.
LEMMA OthersKeep ==
  ASSUME AskInv,
         UNCHANGED <<edition, stocks, askVars, stocksMap, stream, source,
                     raced, lost>>
  PROVE  AskInv'
<1>1. /\ edition' = edition /\ stocks' = stocks /\ asker' = asker
      /\ symbols' = symbols /\ answer' = answer /\ atStock' = atStock
      /\ snapshot' = snapshot /\ stocksMap' = stocksMap /\ source' = source
      /\ raced' = raced /\ lost' = lost /\ stream' = stream
  BY DEF askVars
<1> QED BY <1>1 DEF AskInv, AskTypes, OneStock, StreamsAreControlled, Adding,
                    RacesNoted, Claim, InStage

-----------------------------------------------------------------------------
(* Mailboxes and sockets.                                                  *)

LEMMA TellTyped ==
  ASSUME mailbox \in [User -> Seq(Message)], NEW u \in User,
         NEW m \in Message, Tell(u, m)
  PROVE  mailbox' \in [User -> Seq(Message)]
<1>1. Append(mailbox[u], m) \in Seq(Message)
  OBVIOUS
<1> QED BY <1>1 DEF Tell

LEMMA ReceiveTyped ==
  ASSUME mailbox \in [User -> Seq(Message)], NEW u \in User, NEW m,
         Receive(u, m)
  PROVE  mailbox' \in [User -> Seq(Message)]
<1>1. Tail(mailbox[u]) \in Seq(Message)
  BY DEF Receive
<1> QED BY <1>1 DEF Receive

LEMMA Messages ==
  /\ WatchStocks \in Message /\ InternalStop \in Message
  /\ \A gone \in SUBSET Symbol : UnwatchStocks(gone) \in Message
BY Zenon DEF Message

LEMMA UserTypesKept ==
  ASSUME TypeOK, Next
  PROVE  UserTypes'
<1>inv. UserTypes
  BY TypesSplit
<1>1. ASSUME NEW u \in User, NEW sameOrigin \in BOOLEAN, ws(u, sameOrigin)
      PROVE  UserTypes'
  <2>1. Append(parentBox, u) \in Seq(User)
    BY <1>inv DEF UserTypes
  <2> QED BY <1>inv, <1>1, <2>1 DEF UserTypes, ws
<1>2. ASSUME NEW u \in User, FlowTimeout(u) PROVE UserTypes'
  BY <1>inv, <1>2 DEF UserTypes, FlowTimeout
<1>3. ASSUME NEW u \in User, Close(u) PROVE UserTypes'
  <2>1. mailbox' \in [User -> Seq(Message)]
    BY <1>inv, <1>3, Messages, TellTyped DEF UserTypes, Close, Terminated
  <2> QED BY <1>inv, <1>3, <2>1 DEF UserTypes, Close
<1>4. ASSUME NEW u \in User, NEW s \in Symbol, jsonSink(u, s)
      PROVE  UserTypes'
  BY <1>inv, <1>4 DEF UserTypes, jsonSink, userVars
<1>5. ASSUME NEW u \in User, NEW gone \in SUBSET Symbol, SendUnwatchStocks(u, gone)
      PROVE  UserTypes'
  <2>1. mailbox' \in [User -> Seq(Message)]
    BY <1>inv, <1>5, Messages, TellTyped DEF UserTypes, SendUnwatchStocks
  <2>2. unwatched' \in 0 .. MaxUnwatch
    BY <1>inv, <1>5, TickerAssumption DEF UserTypes, SendUnwatchStocks
  <2> QED BY <1>inv, <1>5, <2>1, <2>2 DEF UserTypes, SendUnwatchStocks
<1>6. ASSUME NEW u \in User, HandleWatchStocks(u) PROVE UserTypes'
  <2>1. mailbox' \in [User -> Seq(Message)]
    BY <1>inv, <1>6, ReceiveTyped DEF UserTypes, HandleWatchStocks
  <2> QED BY <1>inv, <1>6, <2>1 DEF UserTypes, HandleWatchStocks
<1>7. ASSUME NEW u \in User, NEW gone \in SUBSET Symbol, HandleUnwatchStocks(u, gone)
      PROVE  UserTypes'
  <2>1. mailbox' \in [User -> Seq(Message)]
    BY <1>inv, <1>7, ReceiveTyped DEF UserTypes, HandleUnwatchStocks
  <2> QED BY <1>inv, <1>7, <2>1 DEF UserTypes, HandleUnwatchStocks
<1>8. ASSUME NEW u \in User, HandleInternalStop(u) PROVE UserTypes'
  <2>1. mailbox' \in [User -> Seq(Message)]
    BY <1>inv, <1>8, ReceiveTyped DEF UserTypes, HandleInternalStop
  <2>2. actor' \in [User -> {"none", "running", "stopping", "stopped"}]
    BY <1>inv, <1>8 DEF UserTypes, HandleInternalStop, Stops
  <2> QED BY <1>inv, <1>8, <2>1, <2>2 DEF UserTypes, HandleInternalStop
<1>12. ASSUME NEW u \in User,
              \/ \E s \in Symbol : ShutdownStock(u, s) \/ NullSwitch(u, s)
              \/ ReadMap(u) \/ RemoveSwitch(u) \/ PostStopEnds(u)
       PROVE  UserTypes'
  <2>1. UNCHANGED <<socket, parentBox, mailbox, unwatched>>
    BY <1>12 DEF ShutdownStock, NullSwitch, ReadMap, RemoveSwitch, PostStopEnds
  <2>2. \/ actor' = actor
        \/ \E w \in {"stopping", "stopped"} : actor' = [actor EXCEPT ![u] = w]
    BY <1>12 DEF ShutdownStock, NullSwitch, ReadMap, RemoveSwitch, PostStopEnds, Stops
  <2> QED BY <1>inv, <2>1, <2>2 DEF UserTypes
<1>9. CASE Create
  <2>1. Head(parentBox) \in User /\ Tail(parentBox) \in Seq(User)
    BY <1>inv, <1>9 DEF UserTypes, Create
  <2>2. mailbox' \in [User -> Seq(Message)]
    BY <1>inv, <1>9, <2>1, Messages, TellTyped DEF UserTypes, Create
  <2> QED BY <1>inv, <1>9, <2>1, <2>2 DEF UserTypes, Create
<1>10. ASSUME NEW a \in Ask, GetStocks(a) \/ AskTimeout(a) \/ Callback(a)
       PROVE  UserTypes'
  <2>1. UNCHANGED <<userVars, unwatched>>
    BY <1>10 DEF GetStocks, AskTimeout, Callback, CheckStock, RunStream,
                 PutSwitch
  <2> QED BY <1>inv, <2>1 DEF UserTypes, userVars
<1>11. ASSUME NEW a \in Ask, NEW s \in Symbol, BackpressureTimeout(a, s)
       PROVE  UserTypes'
  BY <1>inv, <1>11 DEF UserTypes, BackpressureTimeout, userVars
<1> QED BY <1>1, <1>2, <1>3, <1>4, <1>5, <1>6, <1>7, <1>8, <1>9, <1>10, <1>11, <1>12
           DEF Next, Client, UserActor

-----------------------------------------------------------------------------
(* Calls of unwatchStocks, and who holds a switch.                         *)

LEMMA NoneIsTyped == NoRemoval \in Removal /\ Started(NoSwitch)
BY TickerAssumption DEF NoRemoval, Removal, NoSwitch, Started

\* unwatchStocks begins, goes on, or ends.
LEMMA BeginsTyped ==
  ASSUME RemovalTypes, NEW u \in User, NEW gone \in SUBSET Symbol, unwatchStocks(u, gone)
  PROVE  /\ RemovalTypes'
         /\ \A v \in User : v # u => removal'[v] = removal[v]
         /\ removal'[u].map = NoSwitch /\ removal'[u].killed = None
         /\ removal'[u].step = "next"
<1> DEFINE e == [NoRemoval EXCEPT !.left = gone]
<1>1. /\ e \in Removal /\ e.map = NoSwitch /\ e.killed = None /\ e.step = "next"
  BY DEF NoRemoval, Removal, NoSwitch
<1>2. removal' = [removal EXCEPT ![u] = e]
  BY DEF unwatchStocks
<1> HIDE DEF e
<1> QED BY <1>1, <1>2 DEF RemovalTypes

\* What a step of a call may do to it.
LEMMA TurnTyped ==
  ASSUME AskTypes, RemovalTypes, NEW u \in User,
         \/ \E s \in Symbol : ShutdownStock(u, s)
         \/ ReadMap(u)
  PROVE  RemovalTypes'
<1>1. stocksMap[u] \in Switch /\ removal[u] \in Removal
  BY DEF AskTypes, RemovalTypes
<1>2. ASSUME NEW s \in Symbol, ShutdownStock(u, s) PROVE RemovalTypes'
  <2> DEFINE e == [left |-> removal[u].left \ {s}, at |-> s, map |-> NoSwitch,
                   killed |-> stocksMap[u][s], step |-> "read"]
  <2>1. e \in Removal
    BY <1>1 DEF Removal, Switch, NoSwitch
  <2>2. removal' = [removal EXCEPT ![u] = e]
    BY <1>2 DEF ShutdownStock
  <2> HIDE DEF e
  <2> QED BY <2>1, <2>2 DEF RemovalTypes
<1>3. CASE ReadMap(u)
  <2> DEFINE e == [removal[u] EXCEPT !.step = "write", !.map = stocksMap[u]]
  <2>1. e \in Removal
    BY <1>1 DEF Removal, Switch
  <2>2. removal' = [removal EXCEPT ![u] = e]
    BY <1>3 DEF ReadMap, RemovalTypes
  <2> HIDE DEF e
  <2> QED BY <2>1, <2>2 DEF RemovalTypes
<1> QED BY <1>2, <1>3

LEMMA RemovalTypesKept ==
  ASSUME AskTypes, RemovalTypes, Next
  PROVE  RemovalTypes'
<1>1. CASE removal' = removal
  BY <1>1 DEF RemovalTypes
<1>2. ASSUME NEW u \in User, UserActor(u) PROVE RemovalTypes'
  <2>1. \/ removal' = removal
        \/ \E gone \in SUBSET Symbol : unwatchStocks(u, gone)
        \/ \E s \in Symbol : ShutdownStock(u, s)
        \/ ReadMap(u)
    <3>1. removal[u].left \in SUBSET Symbol /\ Watched(u) \in SUBSET Symbol
      BY DEF RemovalTypes, Removal, Watched
    <3> QED BY <1>2, <3>1 DEF UserActor, HandleWatchStocks, HandleUnwatchStocks,
                  HandleInternalStop, NullSwitch, RemoveSwitch, PostStopEnds, Stops
  <2> QED BY <2>1, <1>1, BeginsTyped, TurnTyped
<1>3. (\E u \in User : UserActor(u)) \/ removal' = removal
  BY DEF Next, Client, ws, FlowTimeout, Close, jsonSink, SendUnwatchStocks, Create,
         GetStocks, AskTimeout, Callback, CheckStock, RunStream, PutSwitch,
         BackpressureTimeout, userVars
<1> QED BY <1>1, <1>2, <1>3

\* Streams start and end, and do neither again.
Onward == \A a \in Ask : \A s \in Symbol :
            /\ stream[a][s] # "none" => stream'[a][s] # "none"
            /\ stream[a][s] = "ended" => stream'[a][s] = "ended"

LEMMA StepsOnward ==
  ASSUME AskTypes, Next
  PROVE  Onward
<1>1. CASE stream' = stream
  BY <1>1 DEF Onward
<1>2. ASSUME NEW u \in User, NEW s \in Symbol, shutdown(u, s) PROVE Onward
  BY <1>2 DEF Onward, shutdown
<1>3. ASSUME NEW a \in Ask, RunStream(a) PROVE Onward
  BY <1>3 DEF Onward, RunStream, AskTypes, Flow
<1>4. ASSUME NEW a \in Ask, NEW s \in Symbol, BackpressureTimeout(a, s) PROVE Onward
  BY <1>4 DEF Onward, BackpressureTimeout, SlowSubscriber, AskTypes, Flow
<1>5. \/ stream' = stream
      \/ \E u \in User, s \in Symbol : shutdown(u, s)
      \/ \E a \in Ask : RunStream(a)
      \/ \E a \in Ask, s \in Symbol : BackpressureTimeout(a, s)
  BY DEF Next, Client, UserActor, ws, FlowTimeout, Close, jsonSink, SendUnwatchStocks, Create,
         GetStocks, AskTimeout, Callback, CheckStock, PutSwitch,
         HandleWatchStocks, HandleUnwatchStocks, HandleInternalStop, ShutdownStock,
         NullSwitch, ReadMap, RemoveSwitch, PostStopEnds
<1> QED BY <1>1, <1>2, <1>3, <1>4, <1>5

LEMMA StartedStays ==
  ASSUME Onward, NEW m \in Switch, Started(m)
  PROVE  \A s \in Symbol : m[s] \in Ask => stream'[m[s]][s] # "none"
BY DEF Started, Onward, Switch

\* Who reads the map for a callback.
LEMMA SnapshotsHeld ==
  ASSUME AskInv, Held, Next, Onward
  PROVE  \A a \in Ask : Started(snapshot[a])'
<1>inv. AskTypes /\ \A b \in Ask : InStage(b)
  BY DEF AskInv
<1>1. \/ snapshot' = snapshot
      \/ \E a \in Ask : RunStream(a) \/ PutSwitch(a)
  BY DEF Next, Client, UserActor, ws, FlowTimeout, Close, jsonSink, SendUnwatchStocks, Create,
         GetStocks, AskTimeout, Callback, CheckStock, BackpressureTimeout, addStocks, askVars,
         HandleWatchStocks, HandleUnwatchStocks, HandleInternalStop, ShutdownStock,
         NullSwitch, ReadMap, RemoveSwitch, PostStopEnds
<1>2. \A a \in Ask : \/ snapshot'[a] = snapshot[a]
                     \/ snapshot'[a] = NoSwitch
                     \/ \E u \in User : snapshot'[a] = stocksMap[u]
  <2>1. ASSUME NEW a \in Ask, RunStream(a)
        PROVE  asker[a] \in User /\ snapshot' = [snapshot EXCEPT ![a] = stocksMap[asker[a]]]
    BY <1>inv, <2>1 DEF RunStream, InStage
  <2>2. ASSUME NEW a \in Ask, PutSwitch(a)
        PROVE  snapshot' = [snapshot EXCEPT ![a] = NoSwitch]
    BY <2>2 DEF PutSwitch
  <2> QED BY <1>inv, <1>1, <2>1, <2>2 DEF AskTypes
<1>3. ASSUME NEW a \in Ask PROVE snapshot'[a] \in Switch /\ Started(snapshot'[a])
  <2>1. /\ snapshot[a] \in Switch /\ Started(snapshot[a])
        /\ \A u \in User : stocksMap[u] \in Switch /\ Started(stocksMap[u])
        /\ NoSwitch \in Switch /\ Started(NoSwitch)
    BY <1>inv, NoneIsTyped DEF AskTypes, Held, NoSwitch, Switch
  <2> QED BY <1>2, <2>1
<1>4. \A a \in Ask : \A s \in Symbol :
        snapshot'[a][s] \in Ask => stream'[snapshot'[a][s]][s] # "none"
  BY <1>3, StartedStays
<1> QED BY <1>4 DEF Started

\* Who writes it.
LEMMA MapsHeld ==
  ASSUME AskInv, RemovalTypes, Held, Next, Onward
  PROVE  \A u \in User : Started(stocksMap[u])'
<1>inv. AskTypes /\ \A b \in Ask : InStage(b)
  BY DEF AskInv
<1>1. \/ stocksMap' = stocksMap
      \/ \E a \in Ask : PutSwitch(a)
      \/ \E u \in User : RemoveSwitch(u)
  BY DEF Next, Client, UserActor, ws, FlowTimeout, Close, jsonSink, SendUnwatchStocks, Create,
         GetStocks, AskTimeout, Callback, CheckStock, RunStream, BackpressureTimeout,
         HandleWatchStocks, HandleUnwatchStocks, HandleInternalStop, ShutdownStock,
         NullSwitch, ReadMap, PostStopEnds
<1>2. ASSUME NEW u \in User, NEW m \in Switch, Started(m), NEW s \in Symbol,
             NEW w \in Ask \cup {None}, w \in Ask => stream[w][s] # "none",
             WriteMap(u, m, s, w)
      PROVE  \A v \in User : stocksMap'[v] \in Switch /\ Started(stocksMap'[v])
  <2>1. /\ stocksMap' \in [User -> Switch] /\ stocksMap'[u][s] = w
        /\ \A v \in User : v # u => stocksMap'[v] = stocksMap[v]
        /\ \A x \in Symbol : x # s => stocksMap'[u][x] \in {m[x], stocksMap[u][x]}
    BY <1>inv, <1>2, Written
  <2>2. \A v \in User : Started(stocksMap[v])
    BY DEF Held
  <2>3. Started(stocksMap'[u])
    BY <1>2, <2>1, <2>2 DEF Started
  <2> QED BY <2>1, <2>2, <2>3
<1>3. \A u \in User : stocksMap'[u] \in Switch /\ Started(stocksMap'[u])
  <2>1. CASE stocksMap' = stocksMap
    BY <1>inv, <2>1 DEF AskTypes, Held
  <2>2. ASSUME NEW a \in Ask, PutSwitch(a)
        PROVE  \A u \in User : stocksMap'[u] \in Switch /\ Started(stocksMap'[u])
    <3>1. asker[a] \in User /\ atStock[a] \in Symbol /\ stream[a][atStock[a]] # "none"
      BY <1>inv, <2>2 DEF PutSwitch, InStage, AskTypes
    <3>2. snapshot[a] \in Switch /\ Started(snapshot[a])
      BY <1>inv DEF AskTypes, Held
    <3>3. WriteMap(asker[a], snapshot[a], atStock[a], a)
      BY <2>2 DEF PutSwitch
    <3> QED BY <1>2, <3>1, <3>2, <3>3
  <2>3. ASSUME NEW u \in User, RemoveSwitch(u)
        PROVE  \A v \in User : stocksMap'[v] \in Switch /\ Started(stocksMap'[v])
    <3>1. removal[u].at \in Symbol /\ Started(removal[u].map)
      BY <2>3 DEF RemoveSwitch, Held
    <3>2. removal[u].map \in Switch
      BY DEF RemovalTypes, Removal, Switch
    <3>3. WriteMap(u, removal[u].map, removal[u].at, None)
      BY <2>3 DEF RemoveSwitch
    <3> QED BY <1>2, <3>1, <3>2, <3>3, TickerAssumption
  <2> QED BY <1>1, <2>1, <2>2, <2>3
<1>4. \A u \in User : \A s \in Symbol :
        stocksMap'[u][s] \in Ask => stream'[stocksMap'[u][s]][s] # "none"
  BY <1>3, StartedStays
<1> QED BY <1>4 DEF Started

\* What unwatchStocks holds: the switch it looked up has ended its stream.
LEMMA RemovalsHeld ==
  ASSUME AskInv, RemovalTypes, Held, Next, Onward, NEW u \in User
  PROVE  LET r == removal'[u]
         IN /\ r.map \in Switch /\ Started(r.map)
            /\ r.step # "next" => r.at \in Symbol
            /\ r.killed \in Ask => r.at \in Symbol /\ stream'[r.killed][r.at] = "ended"
<1>inv. AskTypes
  BY DEF AskInv
<1>0. /\ removal[u].map \in Switch /\ Started(removal[u].map)
      /\ stocksMap[u] \in Switch /\ Started(stocksMap[u])
      /\ removal[u] \in Removal
      /\ removal[u].step # "next" => removal[u].at \in Symbol
      /\ removal[u].killed \in Ask =>
           removal[u].at \in Symbol /\ stream[removal[u].killed][removal[u].at] = "ended"
  BY <1>inv DEF AskTypes, RemovalTypes, Removal, Held, Switch
<1>1. CASE removal'[u] = removal[u]
  BY <1>0, <1>1 DEF Onward
<1>2. ASSUME NEW v \in User, UserActor(v), removal'[u] # removal[u]
      PROVE  \/ \E gone \in SUBSET Symbol : unwatchStocks(u, gone)
             \/ \E s \in Symbol : ShutdownStock(u, s)
             \/ ReadMap(u)
  <2>1. \/ removal' = removal
        \/ \E gone \in SUBSET Symbol : unwatchStocks(v, gone)
        \/ \E s \in Symbol : ShutdownStock(v, s)
        \/ ReadMap(v)
    <3>1. removal[v].left \in SUBSET Symbol /\ Watched(v) \in SUBSET Symbol
      BY DEF RemovalTypes, Removal, Watched
    <3> QED BY <1>2, <3>1 DEF UserActor, HandleWatchStocks, HandleUnwatchStocks,
                  HandleInternalStop, NullSwitch, RemoveSwitch, PostStopEnds, Stops
  <2>2. v = u
    BY <1>2, <2>1 DEF RemovalTypes, unwatchStocks, ShutdownStock, ReadMap
  <2> QED BY <1>2, <2>1, <2>2
<1>3. ASSUME NEW gone \in SUBSET Symbol, unwatchStocks(u, gone)
      PROVE  /\ removal'[u].map = NoSwitch /\ removal'[u].killed = None
             /\ removal'[u].step = "next"
  BY <1>3, BeginsTyped
<1>4. ASSUME NEW s \in Symbol, ShutdownStock(u, s)
      PROVE  /\ removal'[u].map = NoSwitch /\ removal'[u].at = s
             /\ removal'[u].killed = stocksMap[u][s]
             /\ stocksMap[u][s] \in Ask => stream'[stocksMap[u][s]][s] = "ended"
  <2>1. /\ removal'[u].map = NoSwitch /\ removal'[u].at = s
        /\ removal'[u].killed = stocksMap[u][s]
    BY <1>4 DEF ShutdownStock, RemovalTypes
  <2>2. ASSUME stocksMap[u][s] \in Ask
        PROVE  stream'[stocksMap[u][s]][s] = "ended"
    <3> DEFINE k == stocksMap[u][s]
    <3>1. stream[k][s] \in {"running", "ended"}
      BY <1>inv, <1>0, <2>2, AtAsk DEF Started
    <3>2. stream'[k][s] = IF stream[k][s] = "running" THEN "ended" ELSE stream[k][s]
      BY <1>4, <2>2 DEF ShutdownStock, shutdown
    <3> QED BY <3>1, <3>2
  <2> QED BY <2>1, <2>2
<1>5. ASSUME ReadMap(u)
      PROVE  /\ removal'[u].map = stocksMap[u] /\ removal'[u].at = removal[u].at
             /\ removal'[u].killed = removal[u].killed /\ removal[u].step = "read"
             /\ stream' = stream
  BY <1>5, <1>0 DEF ReadMap, RemovalTypes, Removal
<1>6. (\E v \in User : UserActor(v)) \/ removal' = removal
  BY DEF Next, Client, ws, FlowTimeout, Close, jsonSink, SendUnwatchStocks, Create,
         GetStocks, AskTimeout, Callback, CheckStock, RunStream, PutSwitch,
         BackpressureTimeout, userVars
<1>7. NoSwitch \in Switch /\ Started(NoSwitch)
  BY NoneIsTyped DEF NoSwitch, Switch
<1>8. CASE \E gone \in SUBSET Symbol : unwatchStocks(u, gone)
  BY <1>3, <1>7, <1>8, TickerAssumption
<1>9. CASE \E s \in Symbol : ShutdownStock(u, s)
  BY <1>4, <1>7, <1>9
<1>10. CASE ReadMap(u)
  BY <1>0, <1>5, <1>10
<1> QED BY <1>1, <1>2, <1>6, <1>8, <1>9, <1>10

LEMMA HeldKept ==
  ASSUME AskInv, RemovalTypes, Held, Next
  PROVE  Held'
<1>1. Onward
  BY StepsOnward DEF AskInv
<1>2. \A a \in Ask : Started(snapshot[a])'
  BY <1>1, SnapshotsHeld
<1>3. \A u \in User : Started(stocksMap[u])'
  BY <1>1, MapsHeld
<1>4. ASSUME NEW u \in User
      PROVE  /\ Started(removal[u].map)'
             /\ removal'[u].step # "next" => removal'[u].at \in Symbol
             /\ removal'[u].killed \in Ask =>
                  /\ removal'[u].at \in Symbol
                  /\ stream'[removal'[u].killed][removal'[u].at] = "ended"
  <2> DEFINE r == removal'[u]
  <2>1. /\ r.map \in Switch /\ Started(r.map)
        /\ r.step # "next" => r.at \in Symbol
        /\ r.killed \in Ask => r.at \in Symbol /\ stream'[r.killed][r.at] = "ended"
    BY <1>1, RemovalsHeld
  <2>2. \A s \in Symbol : r.map[s] \in Ask => stream'[r.map[s]][s] # "none"
    BY <1>1, <2>1, StartedStays
  <2> QED BY <2>1, <2>2 DEF Started
<1> QED BY <1>2, <1>3, <1>4 DEF Held

-----------------------------------------------------------------------------
(* The invariant of the whole.                                             *)

LEMMA InitAsk == Init => TickerInv
<1> SUFFICES ASSUME Init PROVE TickerInv
  OBVIOUS
<1>6. RemovalTypes /\ Held
  <2>1. /\ \A u \in User : stocksMap[u] = NoSwitch /\ removal[u] = NoRemoval
        /\ \A a \in Ask : snapshot[a] = NoSwitch
        /\ removal \in [User -> Removal]
    BY NoneIsTyped DEF Init
  <2>2. NoRemoval.map = NoSwitch /\ NoRemoval.killed = None /\ NoRemoval.step = "next"
    BY DEF NoRemoval
  <2> QED BY <2>1, <2>2, NoneIsTyped, TickerAssumption DEF RemovalTypes, Held
<1>1. UserTypes
  BY TickerAssumption DEF Init, UserTypes
<1>2. AskTypes
  BY DEF Init, AskTypes, Stage, Switch, Flow, NoSwitch
<1>3. \A a \in Ask : \A s \in Symbol :
        /\ ~Adding(a, s) /\ ~Claim(a, s) /\ stream[a][s] = "none"
        /\ source[a][s] = 0 /\ stocks[s] = 0 /\ answer[a] = "free"
  BY DEF Init, Adding, Claim
<1>4. OneStock
  BY <1>3 DEF Init, OneStock
<1>5. StreamsAreControlled /\ RacesNoted /\ \A a \in Ask : InStage(a)
  BY <1>3 DEF StreamsAreControlled, RacesNoted, InStage, Init
<1> QED BY <1>1, <1>2, <1>4, <1>5, <1>6 DEF TickerInv, AskInv

LEMMA AskInvKept ==
  ASSUME AskInv, RemovalTypes, Held, Next
  PROVE  AskInv'
<1>inv. AskTypes
  BY DEF AskInv
<1>1. ASSUME NEW u \in User, Client(u) PROVE AskInv'
  <2>1. ASSUME NEW s \in Symbol, jsonSink(u, s) PROVE AskInv'
    <3>1. PICK a \in Ask : addStocks(u, {s}, a)
      BY <2>1 DEF jsonSink
    <3>2. UNCHANGED <<edition, stocks, stocksMap, stream, source, raced, lost>>
      BY <2>1 DEF jsonSink
    <3> QED BY <3>1, <3>2, AddStocksKeeps
  <2>2. CASE ~\E s \in Symbol : jsonSink(u, s)
    <3>1. UNCHANGED <<edition, stocks, askVars, stocksMap, stream, source,
                      raced, lost>>
      BY <1>1, <2>2 DEF Client, ws, FlowTimeout, Close, SendUnwatchStocks
    <3> QED BY <3>1, OthersKeep
  <2> QED BY <2>1, <2>2
<1>2. ASSUME NEW u \in User, HandleWatchStocks(u) PROVE AskInv'
  <2>1. PICK a \in Ask : addStocks(u, Default, a)
    BY <1>2 DEF HandleWatchStocks
  <2>2. UNCHANGED <<edition, stocks, stocksMap, stream, source, raced, lost>>
    BY <1>2 DEF HandleWatchStocks
  <2>3. Default \in SUBSET Symbol
    BY TickerAssumption
  <2> QED BY <2>1, <2>2, <2>3, AddStocksKeeps
<1>3. ASSUME NEW u \in User, UserActor(u), ~HandleWatchStocks(u)
      PROVE  AskInv'
  <2>1. ASSUME NEW s \in Symbol, ShutdownStock(u, s) PROVE AskInv'
    BY <2>1, ShutdownKeeps DEF ShutdownStock
  <2>2. CASE RemoveSwitch(u)
    BY <2>2, RemoveKeeps
  <2>3. CASE ~RemoveSwitch(u) /\ ~\E s \in Symbol : ShutdownStock(u, s)
    <3>1. UNCHANGED <<edition, stocks, askVars, stocksMap, stream, source, raced, lost>>
      BY <1>3, <2>3 DEF UserActor, HandleInternalStop, HandleUnwatchStocks, NullSwitch,
                        ReadMap, PostStopEnds
    <3> QED BY <3>1, OthersKeep
  <2> QED BY <2>1, <2>2, <2>3
<1>4. CASE Create
  BY <1>4, OthersKeep DEF Create
<1>5. ASSUME NEW a \in Ask, GetStocks(a) \/ AskTimeout(a) \/ Callback(a)
      PROVE  AskInv'
  BY <1>5, ServeKeeps, CheckKeeps, RunStreamKeeps, PutSwitchKeeps DEF Callback
<1>6. ASSUME NEW a \in Ask, NEW s \in Symbol, BackpressureTimeout(a, s)
      PROVE  AskInv'
  BY <1>6, BackpressureKeeps
<1> QED BY <1>1, <1>2, <1>3, <1>4, <1>5, <1>6 DEF Next

LEMMA TickerInvHolds == Spec => []TickerInv
<1>1. TickerInv /\ [Next]_vars => TickerInv'
  <2> SUFFICES ASSUME TickerInv, [Next]_vars PROVE TickerInv'
    OBVIOUS
  <2>1. CASE Next
    <3>1. TypeOK
      BY TypesSplit DEF TickerInv, AskInv
    <3> QED BY <2>1, <3>1, UserTypesKept, RemovalTypesKept, HeldKept, AskInvKept
            DEF TickerInv, AskInv
  <2>2. CASE UNCHANGED vars
    <3>1. UserTypes'
      BY <2>2 DEF vars, TickerInv, UserTypes
    <3>2. AskInv'
      BY <2>2, OthersKeep DEF vars, askVars, TickerInv
    <3>3. RemovalTypes' /\ Held'
      BY <2>2 DEF vars, TickerInv, RemovalTypes, Held, Started
    <3> QED BY <3>1, <3>2, <3>3 DEF TickerInv
  <2> QED BY <2>1, <2>2
<1> QED BY <1>1, InitAsk, PTL DEF Spec

\* The actors, their mailboxes and their streams are what the code declares.
THEOREM TypeCorrect == Spec => []TypeOK
<1>1. TickerInv => TypeOK
  BY TypesSplit DEF TickerInv, AskInv
<1> QED BY <1>1, TickerInvHolds, PTL

\* A running stream has its kill switch in stocksMap, or is about to, or has
\* lost it to a callback or an unwatchStocks that wrote the map meanwhile.
THEOREM SwitchesAreKept == Spec => []StreamsAreControlled
<1>1. TickerInv => StreamsAreControlled
  BY DEF TickerInv, AskInv
<1> QED BY <1>1, TickerInvHolds, PTL

\* StocksActor of the Scala edition makes one Stock for each symbol.
THEOREM OneStockForAll == Spec => []StocksAreShared
<1>1. TickerInv => StocksAreShared
  BY DEF TickerInv, AskInv, OneStock, StocksAreShared
<1> QED BY <1>1, TickerInvHolds, PTL

LEMMA TwoOfThem ==
  ASSUME NEW S, IsFiniteSet(S), Cardinality(S) > 1
  PROVE  \E a, b \in S : a # b
<1>1. S # {}
  BY FS_EmptySet
<1>2. PICK a \in S : TRUE
  BY <1>1
<1>3. ASSUME \A b \in S : b = a PROVE FALSE
  <2>1. S = {a}
    BY <1>2, <1>3
  <2>2. Cardinality({a}) = 1
    BY FS_Singleton
  <2> QED BY <2>1, <2>2
<1> QED BY <1>2, <1>3

\* One symbol has two streams to one browser only after two callbacks met in
\* addStock, or when the switch of one of them was lost.
THEOREM SequentialIsSingle == Spec => []DuplicatesComeFromRaces
<1>1. TickerInv => DuplicatesComeFromRaces
  <2> SUFFICES ASSUME TickerInv, NEW u \in User, NEW s \in Symbol,
                      Cardinality(RunningStreams(u, s)) > 1,
                      \A a \in RunningStreams(u, s) : <<a, s>> \notin lost
               PROVE  s \in raced[u]
    BY DEF DuplicatesComeFromRaces
  <2>1. IsFiniteSet(RunningStreams(u, s))
    BY TickerAssumption, FS_Subset DEF RunningStreams
  <2>2. PICK a, b \in RunningStreams(u, s) : a # b
    BY <2>1, TwoOfThem
  <2>3. /\ a \in Ask /\ b \in Ask /\ asker[a] = u /\ asker[b] = u
        /\ Claim(a, s) /\ Claim(b, s)
    BY DEF RunningStreams, Claim
  <2> QED BY <2>2, <2>3 DEF TickerInv, AskInv, RacesNoted
<1> QED BY <1>1, TickerInvHolds, PTL

\* Every running stream can be stopped by its browser, and in Scala all who
\* watch a symbol watch one Stock (UserActor.java:99-135, StocksActor).
THEOREM StreamsAreOK == Spec => []StreamsOK
<1>1. TypeOK /\ StreamsAreControlled /\ StocksAreShared => StreamsOK
  BY DEF StreamsOK
<1> QED BY <1>1, TypeCorrect, SwitchesAreKept, OneStockForAll, PTL
=============================================================================
