---------------------------- MODULE DiscoveryProofs ----------------------------
(***************************************************************************)
(* The scan, the dump and the config flow: what each tells is what the     *)
(* stations in reach advertised or answered, and an entry is the one of    *)
(* its station.  All this for any stations, any advertisements of theirs   *)
(* in any order, any catalog, any registers and any number of flows.       *)
(***************************************************************************)
EXTENDS Discovery, FiniteSetTheorems, SequenceTheorems, Recursion

(* Of every address the scan has an entry, one alone: that of the          *)
(* strongest advertisement with this address (scanner.py, callback).       *)
ScanInv ==
  /\ heard \subseteq Heard /\ results \in Seq({Entry(adv) : adv \in Heard})
  /\ \A i \in DOMAIN results : \E adv \in Parseable :
       /\ results[i] = Entry(adv)
       /\ \A other \in Parseable : other.address = adv.address => Strength(other) <= Strength(adv)
  /\ \A i, j \in DOMAIN results : i # j => results[i].device.address # results[j].device.address
  /\ \A adv \in Parseable : \E i \in DOMAIN results : results[i].device.address = adv.address

Contents == Values \cup {0}

(* Of the dump: what the variables hold, a bank not asked for is neither   *)
(* read nor printed, all of the others are read when they are printed, and *)
(* what was printed of a bank is a sequence.                               *)
DumpInv ==
  /\ phase \in {"scan", "read", "print", "ended"} /\ banks \subseteq ToSet(Banks)
  /\ station \in [ToSet(Banks) -> Seq(Contents) \ {<<>>}]
  /\ current \in [ToSet(Banks) -> Seq(Contents) \cup {None}]
  /\ snapshot \in [ToSet(Banks) -> Seq(Contents) \cup {None}]
  /\ \A b \in ToSet(Banks) : snapshot[b] # None => screen[b] \in Seq(Contents \cup {Unknown})
  /\ \A b \in ToSet(Banks) : b \notin banks => snapshot[b] = None /\ current[b] = None
  /\ phase = "print" => \A b \in banks : current[b] # None

FlowStates == [step : {"none", "confirm", "choose", "resolving"}, number : Nat,
               unique : Addresses \cup {None}, info : Views \cup {None}, offered : SUBSET Views]

(* A station of the family, under its name and, if it is known, its UUID.  *)
Fits(view) ==
  /\ view.ours /\ StationAt(view.address).ours
  /\ view.name = StationAt(view.address).name
  /\ view.uuid \in {None, StationAt(view.address).uuid}

(* A flow deals with stations of the family alone, and one with a station  *)
(* of its own either finds it without an entry or is a racer.              *)
Sound(f, state) ==
  /\ state.step \in {"none", "choose"} => state.unique = None
  /\ \A view \in state.offered : Fits(view)
  /\ state.step \in {"confirm", "resolving"} =>
       /\ state.info \in Views /\ Fits(state.info) /\ state.unique = state.info.address
       /\ entries[state.unique] # None => state.step = "resolving" /\ f \in raced[state.unique]

FlowInv ==
  /\ received \in [Addresses -> Views \cup {None}] /\ started \in Nat
  /\ flow \in [Flows -> FlowStates]
  /\ entries \in [Addresses -> EntryData \cup {None}]
  /\ raced \in [Addresses -> SUBSET Flows]
  /\ \A a \in Addresses :
       /\ received[a] # None => received[a].address = a /\ (received[a].ours => Fits(received[a]))
       /\ raced[a] # {} => entries[a] # None
  /\ \A f \in Flows : Sound(f, flow[f])

-------------------------------------------------------------------------------
(* Advertisements *)

(* What an advertisement that may be heard is.                             *)
LEMMA HeardAdvertisements ==
  ASSUME NEW adv \in Heard
  PROVE  /\ Strength(adv) \in Int
         /\ \E s \in Stations, named, identified \in BOOLEAN,
              carrier \in {"service", "manufacturer", "none"} :
              adv = Advertisement(s, adv.rssi, named, identified, carrier)
BY CommandLineAssumption DEF CommandLineAssumption, Strength

(* What is parsed carries the address of its advertisement.                *)
LEMMA ParsedAddress ==
  ASSUME NEW adv, Parsed(adv) # None
  PROVE  Parsed(adv).address = adv.address
BY DEF Parsed

LEMMA EntryFields ==
  ASSUME NEW adv
  PROVE  Entry(adv).device = Parsed(adv) /\ Entry(adv).rssi = Strength(adv)
BY DEF Entry

-------------------------------------------------------------------------------
(* The places of the results *)

(* Every result has a place of its own, a stronger one or one of the same  *)
(* strength heard first a place before, and no place is empty.             *)
LEMMA Places ==
  ASSUME NEW n \in Nat, DOMAIN results = 1 .. n, \A i \in 1 .. n : results[i].rssi \in Int
  PROVE  /\ \A i \in 1 .. n : Place(i) \in 1 .. n
         /\ \A i, j \in 1 .. n : Place(i) < Place(j) => Before(i, j)
         /\ \A i, j \in 1 .. n : Place(i) = Place(j) => i = j
         /\ \A p \in 1 .. n : \E i \in 1 .. n : Place(i) = p
<1> DEFINE Upto(i) == {j \in DOMAIN results : j = i \/ Before(j, i)}
           place   == [i \in 1 .. n |-> Place(i)]
<1>1. IsFiniteSet(1 .. n) /\ Cardinality(1 .. n) = n
  BY FS_Interval
<1>2. ASSUME NEW i \in 1 .. n
      PROVE  Place(i) = Cardinality(Upto(i)) /\ IsFiniteSet(Upto(i)) /\ Place(i) \in 1 .. n
  <2>1. Place(i) = Cardinality(Upto(i))
    BY DEF Place
  <2>2. Upto(i) \in SUBSET (1 .. n) /\ Upto(i) # {}
    OBVIOUS
  <2> HIDE DEF Upto
  <2>3. IsFiniteSet(Upto(i)) /\ Cardinality(Upto(i)) <= n
    BY <1>1, <2>2, FS_Subset
  <2>4. Cardinality(Upto(i)) \in Nat /\ Cardinality(Upto(i)) # 0
    BY <2>2, <2>3, FS_CardinalityType, FS_EmptySet
  <2> QED BY <2>1, <2>3, <2>4
<1>3. ASSUME NEW i \in 1 .. n, NEW j \in 1 .. n, Before(i, j)
      PROVE  Place(i) < Place(j)
  <2>1. Upto(i) \in SUBSET Upto(j)
    BY <1>3 DEF Before
  <2>2. j \in Upto(j) /\ j \notin Upto(i)
    BY <1>3 DEF Before
  <2> HIDE DEF Upto
  <2>3. Cardinality(Upto(i)) <= Cardinality(Upto(j))
        /\ Cardinality(Upto(i)) # Cardinality(Upto(j))
    BY <1>2, <2>1, <2>2, FS_Subset
  <2> QED BY <1>2, <2>3
<1>4. \A i, j \in 1 .. n : i = j \/ Before(i, j) \/ Before(j, i)
  BY DEF Before
<1> HIDE DEF Upto
<1>5. ASSUME NEW i \in 1 .. n, NEW j \in 1 .. n, Place(i) < Place(j)
      PROVE  Before(i, j)
  <2>1. Place(i) \in Int /\ Place(j) \in Int
    BY <1>2
  <2>2. i # j /\ ~(Place(j) < Place(i))
    BY <1>5, <2>1
  <2> QED BY <1>3, <1>4, <2>2
<1>6. \A i, j \in 1 .. n : Place(i) = Place(j) => i = j
  BY <1>2, <1>3, <1>4
<1>7. place \in Injection(1 .. n, 1 .. n)
  BY <1>2, <1>6 DEF Injection, IsInjective
<1>8. place \in Surjection(1 .. n, 1 .. n)
  BY <1>1, <1>7, FS_Injection
<1>9. \A p \in 1 .. n : \E i \in 1 .. n : Place(i) = p
  BY <1>8 DEF Surjection
<1> QED BY <1>2, <1>5, <1>6, <1>9

(* What scan returns: the results, each once, the strongest first.         *)
LEMMA Sorted ==
  ASSUME ScanInv
  PROVE  \E at \in [DOMAIN results -> DOMAIN results] :
           /\ DOMAIN Listed = DOMAIN results
           /\ \A p \in DOMAIN results : Listed[p] = results[at[p]].device
           /\ \A p, q \in DOMAIN results : p < q => results[at[p]].rssi >= results[at[q]].rssi
           /\ \A p, q \in DOMAIN results : p # q => at[p] # at[q]
           /\ \A i \in DOMAIN results : \E p \in DOMAIN results : at[p] = i
<1> DEFINE n  == Len(results)
           at == [p \in 1 .. n |-> CHOOSE i \in 1 .. n : Place(i) = p]
<1>1. n \in Nat /\ DOMAIN results = 1 .. n
  BY DEF ScanInv
<1>2. \A i \in 1 .. n : results[i].rssi \in Int
  BY <1>1, HeardAdvertisements, EntryFields DEF ScanInv
<1> HIDE DEF n
<1>3. /\ \A i \in 1 .. n : Place(i) \in 1 .. n
      /\ \A i, j \in 1 .. n : Place(i) < Place(j) => Before(i, j)
      /\ \A i, j \in 1 .. n : Place(i) = Place(j) => i = j
      /\ \A p \in 1 .. n : \E i \in 1 .. n : Place(i) = p
  BY <1>1, <1>2, Places
<1>4. \A p \in 1 .. n : at[p] \in 1 .. n /\ Place(at[p]) = p
  BY <1>3
<1>5. DOMAIN Listed = 1 .. n /\ \A p \in 1 .. n : Listed[p] = results[at[p]].device
  BY <1>1 DEF Listed
<1>6. at \in [1 .. n -> 1 .. n]
  BY <1>4
<1> HIDE DEF at
<1>7. \A p, q \in 1 .. n : p < q => results[at[p]].rssi >= results[at[q]].rssi
  BY <1>2, <1>3, <1>4 DEF Before
<1>8. \A p, q \in 1 .. n : p # q => at[p] # at[q]
  BY <1>4
<1>9. \A i \in 1 .. n : \E p \in 1 .. n : at[p] = i
  BY <1>3, <1>4
<1>10. at \in [DOMAIN results -> DOMAIN results]
  BY <1>1, <1>6
<1>11. /\ DOMAIN Listed = DOMAIN results
       /\ \A p \in DOMAIN results : Listed[p] = results[at[p]].device
       /\ \A p, q \in DOMAIN results : p < q => results[at[p]].rssi >= results[at[q]].rssi
       /\ \A p, q \in DOMAIN results : p # q => at[p] # at[q]
       /\ \A i \in DOMAIN results : \E p \in DOMAIN results : at[p] = i
  BY <1>1, <1>5, <1>7, <1>8, <1>9
<1> QED BY <1>10, <1>11

-------------------------------------------------------------------------------
(* The scan *)

(* What is listed is the strongest of every station.                       *)
LEMMA ListedStrongest == ScanInv => StrongestIsKept
<1> SUFFICES ASSUME ScanInv PROVE StrongestIsKept
  OBVIOUS
<1> DEFINE D == DOMAIN results
<1>1. PICK at \in [D -> D] :
        /\ DOMAIN Listed = D
        /\ \A p \in D : Listed[p] = results[at[p]].device
        /\ \A p, q \in D : p < q => results[at[p]].rssi >= results[at[q]].rssi
        /\ \A p, q \in D : p # q => at[p] # at[q]
        /\ \A i \in D : \E p \in D : at[p] = i
  BY Sorted
<1>2. D = 1 .. Len(results) /\ Len(results) \in Nat
  BY DEF ScanInv
<1>3. ASSUME NEW adv \in Parseable
      PROVE  adv \in Heard /\ Parsed(adv).address = adv.address /\ Strength(adv) \in Int
  BY HeardAdvertisements, ParsedAddress DEF Parseable, ScanInv
<1>4. \A i \in D : \E adv \in Parseable :
        /\ results[i] = Entry(adv)
        /\ \A other \in Parseable : other.address = adv.address => Strength(other) <= Strength(adv)
  BY DEF ScanInv
<1>5. ASSUME NEW adv \in Parseable
      PROVE  \E p \in D : /\ Listed[p].address = adv.address
                          /\ results[at[p]].device.address = adv.address
  <2>1. PICK i \in D : results[i].device.address = adv.address
    BY DEF ScanInv
  <2>2. PICK p \in D : at[p] = i
    BY <1>1, <2>1
  <2>3. Listed[p] = results[i].device
    BY <1>1, <2>2
  <2> QED BY <2>1, <2>2, <2>3
<1>6. \A p \in D : \E adv \in Parseable : Listed[p].address = adv.address
  BY <1>1, <1>3, <1>4, EntryFields
<1>7. {d.address : d \in ToSet(Listed)} = {adv.address : adv \in Parseable}
  <2>1. ToSet(Listed) = {Listed[p] : p \in D}
    BY <1>1 DEF ToSet
  <2>2. ASSUME NEW adv \in Parseable PROVE \E d \in ToSet(Listed) : d.address = adv.address
    BY <1>5, <2>1
  <2>3. ASSUME NEW d \in ToSet(Listed) PROVE \E adv \in Parseable : d.address = adv.address
    BY <1>6, <2>1
  <2> QED BY <2>2, <2>3
<1>8. ASSUME NEW p \in DOMAIN Listed, NEW q \in DOMAIN Listed, p # q
      PROVE  Listed[p].address # Listed[q].address
  <2>1. /\ at[p] \in D /\ at[q] \in D /\ at[p] # at[q]
        /\ Listed[p] = results[at[p]].device /\ Listed[q] = results[at[q]].device
    <3> HIDE DEF D
    <3> QED BY <1>1, <1>8
  <2>2. results[at[p]].device.address # results[at[q]].device.address
    BY <2>1 DEF ScanInv
  <2> QED BY <2>1, <2>2
<1>9. ASSUME NEW p \in DOMAIN Listed
      PROVE  \E adv \in Parseable :
               /\ Parsed(adv) = Listed[p]
               /\ \A other \in Parseable :
                    other.address \notin {Listed[k].address : k \in 1 .. p - 1}
                      => Strength(other) <= Strength(adv)
  <2>1. PICK adv \in Parseable : results[at[p]] = Entry(adv)
    BY <1>1, <1>4
  <2>2. Parsed(adv) = Listed[p] /\ results[at[p]].rssi = Strength(adv)
    BY <1>1, <2>1, EntryFields
  <2>3. ASSUME NEW other \in Parseable,
               other.address \notin {Listed[k].address : k \in 1 .. p - 1}
        PROVE  Strength(other) <= Strength(adv)
    <3>1. PICK q \in D : Listed[q].address = other.address
                            /\ results[at[q]].device.address = other.address
      BY <1>5
    <3>2. q \notin 1 .. p - 1 /\ p \in 1 .. Len(results) /\ q \in 1 .. Len(results)
      BY <1>1, <1>2, <2>3, <3>1
    <3>3. p = q \/ p < q
      BY <1>2, <3>2
    <3>4. PICK best \in Parseable :
            /\ results[at[q]] = Entry(best)
            /\ \A o \in Parseable : o.address = best.address => Strength(o) <= Strength(best)
      BY <1>1, <1>4, <3>1
    <3>5. Strength(other) <= Strength(best) /\ results[at[q]].rssi = Strength(best)
      BY <1>3, <3>1, <3>4, EntryFields
    <3>6. Strength(best) <= Strength(adv)
      BY <1>1, <1>3, <2>2, <3>3, <3>5
    <3> QED BY <1>3, <3>5, <3>6
  <2> QED BY <2>2, <2>3
<1>10. ASSUME NEW s \in Stations, Resolved(s.address) # None
       PROVE  Resolved(s.address).address = s.address
  <2> DEFINE matches == {i \in DOMAIN Listed : s.address \in {None, Listed[i].address}}
  <2>1. matches # {} /\ Resolved(s.address) = Listed[Min(matches)]
    BY <1>10 DEF Resolved
  <2>2. \E i \in matches : \A j \in matches : i <= j
    <3> HIDE DEF matches
    <3> matches \in SUBSET Nat
      BY <1>1, <1>2 DEF matches
    <3> QED BY <2>1, Least
  <2>3. Min(matches) \in matches
    BY <2>2 DEF Min
  <2>4. s.address # None
    BY ScannerAssumption DEF ScannerAssumption
  <2> QED BY <2>1, <2>3, <2>4
<1> QED BY <1>7, <1>8, <1>9, <1>10 DEF StrongestIsKept

(* An advertisement that is parsed becomes the entry of its address, or    *)
(* leaves a stronger one there (scanner.py, callback).                     *)
LEMMA KeepsStrongest ==
  ASSUME ScanInv, NEW adv \in Heard, heard' = heard \cup {adv}, Parsed(adv) # None,
         results' = Keep(results, adv)
  PROVE  ScanInv'
<1> DEFINE Best(i, r, set) ==
             \E b \in set :
               /\ r[i] = Entry(b)
               /\ \A other \in set : other.address = b.address => Strength(other) <= Strength(b)
<1>1. heard' \subseteq Heard /\ Parseable' = Parseable \cup {adv}
  BY DEF ScanInv, Parseable
<1>2. \A b \in Parseable' : Parsed(b).address = b.address /\ Strength(b) \in Int /\ b \in Heard
  BY <1>1, HeardAdvertisements, ParsedAddress DEF Parseable
<1>3. /\ results \in Seq({Entry(b) : b \in Heard})
      /\ \A i \in DOMAIN results : Best(i, results, Parseable)
      /\ \A i, j \in DOMAIN results : i # j => results[i].device.address # results[j].device.address
      /\ \A b \in Parseable : \E i \in DOMAIN results : results[i].device.address = b.address
  BY DEF ScanInv
<1>4. Entry(adv).device.address = adv.address /\ Entry(adv).rssi = Strength(adv)
  BY <1>1, <1>2, EntryFields
<1>5. CASE \E i \in DOMAIN results : results[i].device.address = adv.address
  <2>1. PICK k \in DOMAIN results : results[k].device.address = adv.address
    BY <1>5
  <2>2. results' = [i \in DOMAIN results |->
                      IF results[i].device.address = adv.address /\ Strength(adv) > results[i].rssi
                      THEN Entry(adv) ELSE results[i]]
    BY <1>5 DEF Keep
  <2>3. results' \in Seq({Entry(b) : b \in Heard}) /\ DOMAIN results' = DOMAIN results
    BY <1>3, <2>2
  <2>4. \A i \in DOMAIN results : results'[i].device.address = results[i].device.address
    BY <1>4, <2>2
  <2>5. ASSUME NEW i \in DOMAIN results PROVE Best(i, results', Parseable')
    <3>1. PICK b \in Parseable :
            /\ results[i] = Entry(b)
            /\ \A other \in Parseable : other.address = b.address => Strength(other) <= Strength(b)
      BY <1>3
    <3>2. results[i].rssi = Strength(b) /\ results[i].device.address = b.address
            /\ Strength(b) \in Int /\ Strength(adv) \in Int
      BY <1>1, <1>2, <3>1, EntryFields
    <3>3. CASE results[i].device.address = adv.address /\ Strength(adv) > results[i].rssi
      <4>1. results'[i] = Entry(adv) /\ b.address = adv.address
        BY <2>2, <3>2, <3>3
      <4>2. \A other \in Parseable' :
              other.address = adv.address => Strength(other) <= Strength(adv)
        BY <1>1, <1>2, <3>1, <3>2, <3>3, <4>1
      <4> QED BY <1>1, <4>1, <4>2
    <3>4. CASE ~(results[i].device.address = adv.address /\ Strength(adv) > results[i].rssi)
      <4>1. results'[i] = Entry(b)
        BY <2>2, <3>1, <3>4
      <4>2. \A other \in Parseable' : other.address = b.address => Strength(other) <= Strength(b)
        BY <1>1, <1>2, <3>1, <3>2, <3>4
      <4> QED BY <1>1, <4>1, <4>2
    <3> QED BY <3>3, <3>4
  <2>6. \A b \in Parseable' : \E i \in DOMAIN results' : results'[i].device.address = b.address
    BY <1>1, <1>3, <2>1, <2>3, <2>4
  <2>7. \A i, j \in DOMAIN results' :
          i # j => results'[i].device.address # results'[j].device.address
    BY <1>3, <2>3, <2>4
  <2> QED BY <1>1, <2>3, <2>5, <2>6, <2>7 DEF ScanInv
<1>6. CASE ~\E i \in DOMAIN results : results[i].device.address = adv.address
  <2> DEFINE n == Len(results)
  <2>1. results' = Append(results, Entry(adv))
    BY <1>6 DEF Keep
  <2>2. n \in Nat /\ DOMAIN results = 1 .. n
    BY <1>3
  <2>3. /\ results' \in Seq({Entry(b) : b \in Heard}) /\ DOMAIN results' = 1 .. n + 1
        /\ results'[n + 1] = Entry(adv) /\ \A i \in 1 .. n : results'[i] = results[i]
    BY <1>3, <2>1
  <2> HIDE DEF n
  <2>4. ASSUME NEW i \in 1 .. n PROVE Best(i, results', Parseable')
    <3>1. PICK b \in Parseable :
            /\ results[i] = Entry(b)
            /\ \A other \in Parseable : other.address = b.address => Strength(other) <= Strength(b)
      BY <1>3, <2>2
    <3>2. b.address # adv.address
      BY <1>1, <1>2, <1>6, <2>2, <3>1, EntryFields
    <3> QED BY <1>1, <2>3, <3>1, <3>2
  <2>5. Best(n + 1, results', Parseable')
    <3>1. \A other \in Parseable' : other.address = adv.address => other = adv
      BY <1>1, <1>3, <1>6
    <3>2. Strength(adv) <= Strength(adv)
      BY <1>1, <1>2
    <3> QED BY <1>1, <2>3, <3>1, <3>2
  <2>6. \A i \in DOMAIN results' : i \in 1 .. n \/ i = n + 1
    BY <2>2, <2>3
  <2>7. \A i, j \in DOMAIN results' :
          i # j => results'[i].device.address # results'[j].device.address
    BY <1>3, <1>4, <1>6, <2>2, <2>3, <2>6
  <2>8. \A b \in Parseable' : \E i \in DOMAIN results' : results'[i].device.address = b.address
    <3> (1 .. n) \subseteq DOMAIN results' /\ n + 1 \in DOMAIN results'
      BY <2>2, <2>3
    <3> QED BY <1>1, <1>3, <1>4, <2>2, <2>3
  <2>9. \A i \in DOMAIN results' : Best(i, results', Parseable')
    BY <2>4, <2>5, <2>6
  <2> QED BY <1>1, <2>3, <2>7, <2>8, <2>9 DEF ScanInv
<1> QED BY <1>5, <1>6

-------------------------------------------------------------------------------
(* The identity of a station *)

(* w is u, of length k, and then v, of length l.                           *)
Joins(w, u, v, k, l) ==
  /\ w \in Seq(Byte) /\ Len(w) = k + l
  /\ \A i \in 1 .. k : w[i] = u[i]
  /\ \A i \in 1 .. l : w[k + i] = v[i]

(* Two sequences one after the other, and a part of a sequence.            *)
LEMMA Joined ==
  \A u, v \in Seq(Byte) : Joins(u \o v, u, v, Len(u), Len(v))
BY DEF Joins

LEMMA Part ==
  ASSUME NEW S, NEW u \in Seq(S), NEW v \in Seq(S), NEW k \in Nat, k + Len(v) <= Len(u),
         \A i \in 1 .. Len(v) : u[k + i] = v[i]
  PROVE  SubSeq(u, k + 1, k + Len(v)) = v
<1> DEFINE part == SubSeq(u, k + 1, k + Len(v))
<1>1. Len(v) \in Nat /\ Len(u) \in Nat
  OBVIOUS
<1>2. part \in Seq(S) /\ Len(part) = Len(v)
  BY <1>1
<1>3. \A i \in 1 .. Len(v) : part[i] = u[k + i]
  BY <1>1
<1>4. \A i \in 1 .. Len(v) : part[i] = v[i]
  BY <1>3
<1> HIDE DEF part
<1>5. part = v
  BY <1>2, <1>4, SeqEqual
<1> QED BY <1>5 DEF part

(* The bytes a station broadcasts.                                         *)
LEMMA BroadcastBytes ==
  ASSUME NEW s \in Stations, NEW o, o = IF s.prefixed THEN 1 ELSE 0
  PROVE  LET bytes == Broadcast(s)
         IN /\ bytes \in Seq(Byte)
            /\ Len(bytes) = o + 7 + IF s.serial = None THEN 0 ELSE SerialLength
            /\ s.prefixed => bytes[1] = LegacyPrefix
            /\ ~s.prefixed => bytes[1] = s.id[1]
            /\ SubSeq(bytes, o + 1, o + 6) = s.id /\ bytes[o + 7] = s.status
            /\ s.serial # None => SubSeq(bytes, o + 8, Len(bytes)) = s.serial
<1> DEFINE head  == IF s.prefixed THEN <<LegacyPrefix>> ELSE <<>>
           tail  == IF s.serial = None THEN <<>> ELSE s.serial
           front == head \o s.id
           most  == front \o <<s.status>>
           bytes == most \o tail
<1>1. /\ s.id \in Seq(Byte) /\ Len(s.id) = 6 /\ s.status \in Byte /\ s.prefixed \in BOOLEAN
      /\ s.serial # None => s.serial \in Seq(Byte) /\ Len(s.serial) = SerialLength
  BY ScannerAssumption DEF ScannerAssumption
<1>2. LegacyPrefix \in Byte /\ SerialLength = 16
  BY DEF LegacyPrefix, Byte, SerialLength
<1>3. /\ head \in Seq(Byte) /\ Len(head) = o /\ o \in {0, 1}
      /\ s.prefixed => head[1] = LegacyPrefix
  <2>1. CASE s.prefixed
    <3>1. head = <<LegacyPrefix>> /\ o = 1
      BY <2>1
    <3> QED BY <1>2, <2>1, <3>1
  <2>2. CASE ~s.prefixed
    <3>1. head = <<>> /\ o = 0
      BY <2>2
    <3>2. <<>> \in Seq(Byte) /\ Len(<<>>) = 0
      OBVIOUS
    <3> QED BY <2>2, <3>1, <3>2
  <2> QED BY <1>1, <2>1, <2>2
<1>4. tail \in Seq(Byte) /\ Len(tail) = IF s.serial = None THEN 0 ELSE SerialLength
  <2>1. CASE s.serial = None
    <3>1. <<>> \in Seq(Byte) /\ Len(<<>>) = 0
      OBVIOUS
    <3> QED BY <2>1, <3>1
  <2>2. CASE s.serial # None
    BY <1>1, <2>2
  <2> QED BY <2>1, <2>2
<1>5. bytes = Broadcast(s)
  BY DEF Broadcast
<1> HIDE DEF head, tail
<1> DEFINE l == Len(tail)
<1>6. /\ front \in Seq(Byte) /\ Len(front) = o + 6
      /\ \A i \in 1 .. o : front[i] = head[i]
      /\ \A i \in 1 .. 6 : front[o + i] = s.id[i]
  <2>1. /\ front = head \o s.id /\ o = Len(head) /\ 6 = Len(s.id)
        /\ head \in Seq(Byte) /\ s.id \in Seq(Byte)
    BY <1>1, <1>3
  <2> HIDE DEF front
  <2>2. Joins(front, head, s.id, o, 6)
    BY <2>1, Joined, Zenon
  <2> QED BY <2>2, <2>1 DEF Joins
<1> HIDE DEF front
<1>7. /\ most \in Seq(Byte) /\ Len(most) = o + 7 /\ most[o + 7] = s.status
      /\ \A i \in 1 .. o + 6 : most[i] = front[i]
  <2> DEFINE last == <<s.status>>
  <2>1. /\ last \in Seq(Byte) /\ 1 = Len(last) /\ last[1] = s.status /\ most = front \o last
        /\ front \in Seq(Byte) /\ o + 6 = Len(front)
    BY <1>1, <1>6
  <2> HIDE DEF last, most
  <2>2. Joins(most, front, last, o + 6, 1)
    BY <2>1, Joined, Zenon
  <2>3. (o + 6) + 1 = o + 7 /\ 1 \in 1 .. 1
    BY <1>3
  <2>4. most[(o + 6) + 1] = last[1]
    BY <2>2, <2>3, Zenon DEF Joins
  <2> QED BY <2>1, <2>2, <2>3, <2>4, Zenon DEF Joins
<1> HIDE DEF most
<1>8. /\ bytes \in Seq(Byte) /\ Len(bytes) = (o + 7) + l
      /\ \A i \in 1 .. o + 7 : bytes[i] = most[i]
      /\ \A i \in 1 .. l : bytes[(o + 7) + i] = tail[i]
  <2>1. /\ bytes = most \o tail /\ o + 7 = Len(most) /\ l = Len(tail)
        /\ most \in Seq(Byte) /\ tail \in Seq(Byte)
    BY <1>4, <1>7
  <2> HIDE DEF bytes, l
  <2>2. Joins(bytes, most, tail, o + 7, l)
    BY <2>1, Joined, Zenon
  <2> QED BY <2>2 DEF Joins
<1> l \in Nat
  BY <1>4
<1> HIDE DEF bytes, l
<1>9. SubSeq(bytes, o + 1, o + 6) = s.id
  <2>1. ASSUME NEW i \in 1 .. 6 PROVE bytes[o + i] = s.id[i]
    <3>1. o + i \in 1 .. o + 7 /\ o + i \in 1 .. o + 6
      BY <1>3
    <3> QED BY <1>6, <1>7, <1>8, <3>1
  <2>2. o \in Nat /\ o + 6 <= Len(bytes)
    BY <1>3, <1>8
  <2>3. \A i \in 1 .. Len(s.id) : bytes[o + i] = s.id[i]
    BY <1>1, <2>1
  <2>4. o + Len(s.id) <= Len(bytes)
    BY <1>1, <2>2
  <2>5. SubSeq(bytes, o + 1, o + Len(s.id)) = s.id
    BY <1>1, <1>8, <2>2, <2>3, <2>4, Part, Zenon
  <2> QED BY <1>1, <2>5
<1>10. ASSUME s.serial # None
       PROVE  SubSeq(bytes, o + 8, Len(bytes)) = s.serial
  <2>1. tail = s.serial
    BY <1>10 DEF tail
  <2>2. o + 7 \in Nat /\ (o + 7) + l <= Len(bytes) /\ (o + 7) + 1 = o + 8 /\ l = Len(tail)
    BY <1>3, <1>8 DEF l
  <2>3. SubSeq(bytes, (o + 7) + 1, (o + 7) + l) = tail
    BY <1>4, <1>8, <2>2, Part, Zenon
  <2> QED BY <1>8, <2>1, <2>2, <2>3
<1>11. bytes[o + 7] = s.status
  BY <1>3, <1>7, <1>8
<1>12. bytes[1] = IF s.prefixed THEN LegacyPrefix ELSE s.id[1]
  <2>1. 1 \in 1 .. o + 7 /\ 1 \in 1 .. o + 6
    BY <1>3
  <2>2. bytes[1] = front[1]
    BY <1>7, <1>8, <2>1
  <2>3. CASE s.prefixed
    <3>1. 1 \in 1 .. o
      BY <2>3
    <3> QED BY <1>3, <1>6, <2>2, <2>3, <3>1
  <2>4. CASE ~s.prefixed
    <3>1. 1 \in 1 .. 6 /\ o + 1 = 1
      BY <2>4
    <3>2. front[o + 1] = s.id[1]
      BY <1>6, <3>1
    <3> QED BY <2>2, <2>4, <3>1, <3>2
  <2> QED BY <1>1, <2>3, <2>4
<1>13. Len(bytes) = o + 7 + IF s.serial = None THEN 0 ELSE SerialLength
  BY <1>3, <1>4, <1>8 DEF l
<1> QED BY <1>1, <1>5, <1>8, <1>9, <1>10, <1>11, <1>12, <1>13

(* The payload of an advertisement is what the station broadcasts, in      *)
(* whichever way it came (scanner.py, _parse_advertisement).               *)
LEMMA PayloadIsBroadcast ==
  ASSUME NEW s \in Stations, NEW rssi, NEW named, NEW identified,
         NEW carrier \in {"service", "manufacturer", "none"},
         NEW adv, adv = Advertisement(s, rssi, named, identified, carrier),
         adv.service # None \/ adv.company # None
  PROVE  Payload(adv) = Broadcast(s)
<1> DEFINE bytes == Broadcast(s)
<1>1. bytes \in Seq(Byte) /\ Len(bytes) \in Nat /\ Len(bytes) >= 7
  <2>1. PICK o : o = IF s.prefixed THEN 1 ELSE 0
    OBVIOUS
  <2>2. /\ bytes \in Seq(Byte)
        /\ Len(bytes) = o + 7 + IF s.serial = None THEN 0 ELSE SerialLength
    BY <2>1, BroadcastBytes
  <2> QED BY <2>1, <2>2 DEF SerialLength
<1>2. /\ adv.service = IF carrier = "service" THEN bytes ELSE None
      /\ adv.company = IF carrier = "manufacturer" THEN bytes[1] + 256 * bytes[2] ELSE None
      /\ adv.rest = IF carrier = "manufacturer" THEN SubSeq(bytes, 3, Len(bytes)) ELSE <<>>
  BY DEF Advertisement
<1> HIDE DEF bytes
<1>3. None \notin Int /\ bytes # None
  BY <1>1, ScannerAssumption DEF ScannerAssumption
<1>4. CASE carrier = "service"
  <2>1. adv.service = bytes
    BY <1>2, <1>4
  <2> QED BY <1>3, <2>1 DEF Payload, bytes
<1>5. CASE carrier = "manufacturer"
  <2> DEFINE x == bytes[1]
             y == bytes[2]
             rest == SubSeq(bytes, 3, Len(bytes))
             all  == <<x, y>> \o rest
  <2>1. x \in 0 .. 255 /\ y \in 0 .. 255
    <3>1. x \in Byte /\ y \in Byte
      BY <1>1
    <3> QED BY <3>1 DEF Byte
  <2>2. (x + 256 * y) % 256 = x /\ (x + 256 * y) \div 256 = y
    <3> HIDE DEF x, y
    <3> QED BY <2>1
  <2>3. adv.service = None /\ adv.company = x + 256 * y /\ adv.rest = rest
    BY <1>2, <1>5
  <2>4. adv.company # None
    <3> HIDE DEF x, y
    <3> QED BY <1>3, <2>1, <2>3
  <2>5. Payload(adv) = <<adv.company % 256, adv.company \div 256>> \o adv.rest
    BY <2>3, <2>4 DEF Payload
  <2>6. Payload(adv) = all
    <3> HIDE DEF x, y
    <3> QED BY <2>2, <2>3, <2>5
  <2>7. /\ rest \in Seq(Byte) /\ Len(rest) = Len(bytes) - 2
        /\ \A i \in 1 .. Len(bytes) - 2 : rest[i] = bytes[i + 2]
    BY <1>1
  <2>8. <<x, y>> \in Seq(Byte) /\ Len(<<x, y>>) = 2 /\ <<x, y>>[1] = x /\ <<x, y>>[2] = y
    BY <2>1 DEF Byte
  <2>9. /\ all \in Seq(Byte) /\ Len(all) = Len(bytes)
        /\ \A i \in 1 .. Len(bytes) : all[i] = IF i = 1 THEN x ELSE IF i = 2 THEN y ELSE rest[i - 2]
    <3> HIDE DEF x, y, rest
    <3> QED BY <1>1, <2>7, <2>8
  <2> HIDE DEF all
  <2>10. \A i \in 1 .. Len(bytes) : all[i] = bytes[i]
    <3>1. \A i \in 1 .. Len(bytes) :
            i = 1 \/ i = 2 \/ (i - 2 \in 1 .. Len(bytes) - 2 /\ (i - 2) + 2 = i)
      BY <1>1
    <3> QED BY <2>7, <2>9, <3>1
  <2>11. all = bytes
    BY <1>1, <2>9, <2>10
  <2> QED BY <2>6, <2>11 DEF bytes
<1>6. CASE carrier = "none"
  <2>1. adv.service = None /\ adv.company = None
    BY <1>2, <1>6
  <2> QED BY <2>1
<1> QED BY <1>4, <1>5, <1>6

(* What is parsed is the station's own (scanner.py, _parse_advertisement). *)
LEMMA IdentityRead == ScanInv => IdentityIsRead
<1> SUFFICES ASSUME ScanInv, NEW adv \in Parseable,
                    adv.service # None \/ adv.company # None,
                    NEW s, s = StationOf(adv), NEW d, d = Parsed(adv),
                    NEW legacy, legacy = (d.params.protocol_version = 0),
                    s.prefixed => legacy,
                    ~(legacy /\ ~s.prefixed /\ s.id[1] = LegacyPrefix)
             PROVE  d.advertis = s.id /\ d.init_status = s.status /\ d.serial_no = s.serial
  BY DEF IdentityIsRead
<1>1. adv \in Heard /\ Parsed(adv) # None
  BY DEF Parseable, ScanInv
<1>2. PICK t \in Stations, named \in BOOLEAN, identified \in BOOLEAN,
           carrier \in {"service", "manufacturer", "none"} :
        adv = Advertisement(t, adv.rssi, named, identified, carrier)
  BY <1>1, HeardAdvertisements
<1>3. s = t
  <2>1. adv.address = t.address
    BY <1>2 DEF Advertisement
  <2>2. \A r \in Stations : r.address = adv.address => r = t
    BY <2>1, ScannerAssumption DEF ScannerAssumption
  <2> QED BY <2>1, <2>2 DEF StationOf
<1>4. s \in Stations /\ Payload(adv) = Broadcast(s)
  BY <1>2, <1>3, PayloadIsBroadcast
<1> DEFINE bytes  == Payload(adv)
           params == OrDefaults(DeviceParams(<<adv.uuid, adv.name>>))
           offset == IF params.protocol_version = 0 /\ bytes # <<>> /\ bytes[1] = LegacyPrefix
                     THEN 1 ELSE 0
<1>5. d = [address     |-> adv.address,
           params      |-> params,
           advertis    |-> IF Len(bytes) >= offset + 6 THEN SubSeq(bytes, offset + 1, offset + 6)
                           ELSE <<>>,
           init_status |-> IF Len(bytes) >= offset + 7 THEN bytes[offset + 7] ELSE 0,
           serial_no   |-> IF Len(bytes) = offset + 7 + SerialLength
                           THEN SubSeq(bytes, offset + 8, Len(bytes)) ELSE None]
  BY <1>1 DEF Parsed
<1>6. legacy = (params.protocol_version = 0)
  BY <1>5
<1> DEFINE o == IF s.prefixed THEN 1 ELSE 0
<1>7. /\ bytes \in Seq(Byte)
      /\ Len(bytes) = o + 7 + IF s.serial = None THEN 0 ELSE SerialLength
      /\ s.prefixed => bytes[1] = LegacyPrefix
      /\ ~s.prefixed => bytes[1] = s.id[1]
      /\ SubSeq(bytes, o + 1, o + 6) = s.id /\ bytes[o + 7] = s.status
      /\ s.serial # None => SubSeq(bytes, o + 8, Len(bytes)) = s.serial
  <2>1. s \in Stations /\ bytes = Broadcast(s) /\ o = IF s.prefixed THEN 1 ELSE 0
    BY <1>4
  <2> HIDE DEF bytes, o
  <2> QED BY <2>1, BroadcastBytes, Zenon
<1>8. bytes # <<>> /\ SerialLength = 16 /\ o \in {0, 1}
  <2>1. SerialLength = 16 /\ o \in {0, 1}
    BY DEF SerialLength
  <2>2. Len(bytes) # 0
    BY <1>7, <2>1
  <2> QED BY <2>1, <2>2
<1>9. offset = o
  <2> HIDE DEF params, bytes
  <2>1. CASE s.prefixed
    BY <1>6, <1>7, <1>8, <2>1
  <2>2. CASE ~s.prefixed
    BY <1>6, <1>7, <1>8, <2>2
  <2> QED BY <2>1, <2>2
<1> HIDE DEF bytes, params, offset, o
<1>10. Len(bytes) >= o + 6 /\ Len(bytes) >= o + 7
       /\ (Len(bytes) = o + 7 + SerialLength <=> s.serial # None)
  BY <1>7, <1>8
<1>11. d.advertis = SubSeq(bytes, o + 1, o + 6) /\ d.init_status = bytes[o + 7]
  <2>1. /\ d.advertis = IF Len(bytes) >= offset + 6 THEN SubSeq(bytes, offset + 1, offset + 6)
                        ELSE <<>>
        /\ d.init_status = IF Len(bytes) >= offset + 7 THEN bytes[offset + 7] ELSE 0
    BY <1>5
  <2> QED BY <1>9, <1>10, <2>1
<1>12. d.serial_no = IF s.serial # None THEN SubSeq(bytes, o + 8, Len(bytes)) ELSE None
  BY <1>5, <1>9, <1>10
<1> QED BY <1>7, <1>11, <1>12

-------------------------------------------------------------------------------
(* The dump *)

LEMMA TheBanks == ToSet(Banks) = {"holding", "input"}
<1>1. /\ DOMAIN Banks = {1, 2} /\ Banks[1] = "holding" /\ Banks[2] = "input"
  BY DEF Banks
<1> HIDE DEF Banks
<1> QED BY <1>1 DEF ToSet

(* What is printed of a bank, on top of what was, agrees with what was     *)
(* read (cli.py, print_bank and print_changes).                            *)
LEMMA ShownAgrees ==
  ASSUME NEW shown \in Seq(Contents \cup {Unknown}), NEW before \in Seq(Contents),
         NEW after \in Seq(Contents), Len(shown) = Len(before),
         \A i \in DOMAIN before : shown[i] \in {before[i], Unknown}
  PROVE  LET now == ChangesShown(shown, before, after)
         IN /\ now \in Seq(Contents \cup {Unknown}) /\ Len(now) = Len(after)
            /\ \A i \in DOMAIN after : now[i] \in {after[i], Unknown}
<1> DEFINE now == ChangesShown(shown, before, after)
           n   == Len(after)
<1>1. /\ n \in Nat /\ DOMAIN after = 1 .. n /\ Len(before) \in Nat
      /\ DOMAIN before = 1 .. Len(before) /\ DOMAIN shown = 1 .. Len(before)
  OBVIOUS
<1>2. CASE Len(before) # Len(after)
  <2>1. now = [i \in 1 .. n |-> Unknown]
    BY <1>1, <1>2 DEF ChangesShown
  <2> HIDE DEF now, n
  <2>2. now \in Seq(Contents \cup {Unknown}) /\ Len(now) = n
    BY <1>1, <2>1
  <2>3. \A i \in 1 .. n : now[i] = Unknown
    BY <2>1
  <2> QED BY <1>1, <2>2, <2>3 DEF n, now
<1>3. CASE Len(before) = Len(after)
  <2>1. now = [i \in 1 .. n |-> IF before[i] # after[i] THEN after[i] ELSE shown[i]]
    BY <1>1, <1>3 DEF ChangesShown
  <2>2. \A i \in 1 .. n : after[i] \in Contents /\ shown[i] \in Contents \cup {Unknown}
                             /\ shown[i] \in {before[i], Unknown}
    BY <1>1, <1>3
  <2> HIDE DEF now, n
  <2>3. now \in Seq(Contents \cup {Unknown}) /\ Len(now) = n
    BY <1>1, <2>1, <2>2
  <2>4. \A i \in 1 .. n : now[i] \in {after[i], Unknown}
    BY <2>1, <2>2
  <2> QED BY <1>1, <2>3, <2>4 DEF n, now
<1> QED BY <1>2, <1>3

(* A round is printed (cli.py, dump).                                      *)
LEMMA ShowKeeps ==
  ASSUME DumpInv, WatchTellsEverything, Show
  PROVE  DumpInv' /\ WatchTellsEverything'
<1>1. /\ phase = "print" /\ phase' \in {"read", "ended"}
      /\ snapshot' = current /\ current' = Nothing
      /\ banks' = banks /\ station' = station
  BY DEF Show, TakeOver
<1>2. screen' = [b \in ToSet(Banks) |->
         IF b \notin banks \/ snapshot[b] = None THEN current[b]
         ELSE ChangesShown(screen[b], snapshot[b], current[b])]
  BY DEF Show
<1>3. /\ banks \subseteq ToSet(Banks) /\ None \notin Seq(Contents)
      /\ current \in [ToSet(Banks) -> Seq(Contents) \cup {None}]
      /\ snapshot \in [ToSet(Banks) -> Seq(Contents) \cup {None}]
      /\ \A b \in banks : current[b] # None
      /\ \A b \in ToSet(Banks) : b \notin banks => snapshot[b] = None /\ current[b] = None
      /\ \A b \in ToSet(Banks) : snapshot[b] # None => screen[b] \in Seq(Contents \cup {Unknown})
  BY <1>1, CommandLineAssumption DEF DumpInv, CommandLineAssumption, Contents
<1>4. ASSUME NEW b \in banks
      PROVE  /\ screen'[b] \in Seq(Contents \cup {Unknown}) /\ Len(screen'[b]) = Len(current[b])
             /\ \A i \in DOMAIN current[b] : screen'[b][i] \in {current[b][i], Unknown}
  <2>1. b \in ToSet(Banks) /\ current[b] \in Seq(Contents)
    BY <1>3
  <2>2. CASE snapshot[b] = None
    <3>1. screen'[b] = current[b]
      BY <1>2, <2>1, <2>2
    <3>2. current[b] \in Seq(Contents \cup {Unknown})
      BY <2>1
    <3> QED BY <3>1, <3>2
  <2>3. CASE snapshot[b] # None
    <3>1. screen'[b] = ChangesShown(screen[b], snapshot[b], current[b])
      BY <1>2, <2>1, <2>3
    <3>2. /\ screen[b] \in Seq(Contents \cup {Unknown}) /\ snapshot[b] \in Seq(Contents)
          /\ Len(screen[b]) = Len(snapshot[b])
          /\ \A i \in DOMAIN snapshot[b] : screen[b][i] \in {snapshot[b][i], Unknown}
      BY <1>3, <2>1, <2>3 DEF WatchTellsEverything
    <3> DEFINE now == ChangesShown(screen[b], snapshot[b], current[b])
    <3>3. /\ now \in Seq(Contents \cup {Unknown}) /\ Len(now) = Len(current[b])
          /\ \A i \in DOMAIN current[b] : now[i] \in {current[b][i], Unknown}
      BY <2>1, <3>2, ShownAgrees
    <3> HIDE DEF now
    <3>4. screen'[b] = now
      BY <3>1 DEF now
    <3> QED BY <3>3, <3>4
  <2> QED BY <2>2, <2>3
<1>5. \A b \in ToSet(Banks) : snapshot'[b] # None => screen'[b] \in Seq(Contents \cup {Unknown})
  BY <1>1, <1>3, <1>4
<1>6. WatchTellsEverything'
  BY <1>1, <1>4 DEF WatchTellsEverything
<1>7. /\ current' \in [ToSet(Banks) -> Seq(Contents) \cup {None}]
      /\ \A b \in ToSet(Banks) : current'[b] = None
  BY <1>1 DEF Nothing
<1>8. phase' # "print" /\ phase' \in {"scan", "read", "print", "ended"}
  BY <1>1
<1> QED BY <1>1, <1>3, <1>5, <1>6, <1>7, <1>8 DEF DumpInv

(* Every step of the command line.                                         *)
LEMMA DumpStep ==
  ASSUME DumpInv, WatchTellsEverything, CliNext
  PROVE  DumpInv' /\ WatchTellsEverything'
<1>1. ASSUME UNCHANGED <<banks, station, current, snapshot, screen>>,
             phase' \in {"scan", "read", "ended"}
      PROVE  DumpInv' /\ WatchTellsEverything'
  BY <1>1 DEF DumpInv, WatchTellsEverything
<1>2. CASE Hear
  BY <1>1, <1>2 DEF Hear
<1>3. CASE Resolve
  BY <1>1, <1>3 DEF Resolve
<1>4. CASE StationChanges
  <2>1. PICK b \in banks :
          \/ \E i \in DOMAIN station[b], v \in Values : station' = [station EXCEPT ![b][i] = v]
          \/ station' = [station EXCEPT ![b] = IF Len(@) = 1 THEN Append(@, 0) ELSE <<Head(@)>>]
    BY <1>4 DEF StationChanges
  <2>2. /\ b \in ToSet(Banks) /\ station \in [ToSet(Banks) -> Seq(Contents) \ {<<>>}]
        /\ station[b] \in Seq(Contents) /\ station[b] # <<>>
    BY DEF DumpInv
  <2>3. \E new \in Seq(Contents) \ {<<>>} : station' = [station EXCEPT ![b] = new]
    <3>1. CASE \E i \in DOMAIN station[b], v \in Values : station' = [station EXCEPT ![b][i] = v]
      <4>1. PICK i \in DOMAIN station[b], v \in Values : station' = [station EXCEPT ![b][i] = v]
        BY <3>1
      <4> DEFINE new == [station[b] EXCEPT ![i] = v]
      <4>2. new \in Seq(Contents) /\ new # <<>> /\ station' = [station EXCEPT ![b] = new]
        <5>1. v \in Contents /\ i \in 1 .. Len(station[b])
          BY <2>2 DEF Contents
        <5>2. new \in Seq(Contents) /\ Len(new) = Len(station[b])
          BY <2>2, <5>1, ExceptSeq
        <5>3. new # <<>>
          BY <2>2, <5>1, <5>2
        <5>4. station' = [station EXCEPT ![b] = new]
          BY <2>2, <4>1
        <5> QED BY <5>2, <5>3, <5>4
      <4> QED BY <4>2
    <3>2. CASE station' = [station EXCEPT ![b] = IF Len(@) = 1 THEN Append(@, 0) ELSE <<Head(@)>>]
      <4> DEFINE longer == Append(station[b], 0)
                 one    == <<Head(station[b])>>
      <4>1. longer \in Seq(Contents) /\ longer # <<>>
        BY <2>2 DEF Contents
      <4>2. one \in Seq(Contents) /\ one # <<>>
        <5>1. Head(station[b]) \in Contents
          BY <2>2
        <5> QED BY <5>1
      <4>3. station' = [station EXCEPT ![b] = IF Len(station[b]) = 1 THEN longer ELSE one]
        BY <2>2, <3>2
      <4> QED BY <4>1, <4>2, <4>3
    <3> QED BY <2>1, <3>1, <3>2
  <2>4. station' \in [ToSet(Banks) -> Seq(Contents) \ {<<>>}]
    BY <2>2, <2>3
  <2>5. UNCHANGED <<phase, banks, current, snapshot, screen>>
    BY <1>4 DEF StationChanges
  <2> QED BY <2>4, <2>5 DEF DumpInv, WatchTellsEverything
<1>5. CASE ReadBank
  <2>1. PICK b \in banks :
          /\ current[b] = None /\ current' = [current EXCEPT ![b] = station[b]]
          /\ phase' = IF \E c \in banks \ {b} : current[c] = None THEN "read" ELSE "print"
    BY <1>5 DEF ReadBank
  <2>2. UNCHANGED <<banks, station, snapshot, screen>>
    BY <1>5 DEF ReadBank
  <2>3. b \in ToSet(Banks) /\ station[b] \in Seq(Contents) /\ station[b] # None
    BY CommandLineAssumption DEF DumpInv, CommandLineAssumption, Contents
  <2>4. /\ current' \in [ToSet(Banks) -> Seq(Contents) \cup {None}]
        /\ \A c \in ToSet(Banks) : current'[c] = IF c = b THEN station[b] ELSE current[c]
    BY <2>1, <2>3 DEF DumpInv
  <2>5. phase' = "print" => \A c \in banks : current'[c] # None
    BY <2>1, <2>3, <2>4 DEF DumpInv
  <2>6. phase' \in {"read", "print"}
    BY <2>1
  <2> QED BY <2>2, <2>4, <2>5, <2>6 DEF DumpInv, WatchTellsEverything
<1>6. CASE Show
  BY <1>6, ShowKeeps
<1>7. CASE Stop
  BY <1>1, <1>7 DEF Stop
<1>8. CASE RunAgain
  <2>1. /\ phase' = "scan" /\ station' = station
        /\ snapshot' = Nothing /\ current' = Nothing
        /\ banks' \in {{"holding"}, {"input"}, ToSet(Banks)}
    BY <1>8 DEF RunAgain
  <2>2. /\ Nothing \in [ToSet(Banks) -> Seq(Contents) \cup {None}]
        /\ \A b \in ToSet(Banks) : Nothing[b] = None
    BY DEF Nothing
  <2>3. banks' \subseteq ToSet(Banks)
    BY <2>1, TheBanks
  <2>4. WatchTellsEverything'
    BY <2>1, <2>2, <2>3 DEF WatchTellsEverything
  <2>5. station' \in [ToSet(Banks) -> Seq(Contents) \ {<<>>}]
    BY <2>1 DEF DumpInv
  <2> QED BY <2>1, <2>2, <2>3, <2>4, <2>5 DEF DumpInv
<1> QED BY <1>2, <1>3, <1>4, <1>5, <1>6, <1>7, <1>8 DEF CliNext

-------------------------------------------------------------------------------
(* The flows *)

LEMMA StationHere ==
  ASSUME NEW s \in Stations
  PROVE  s.address \in Addresses /\ StationAt(s.address) = s
BY ScannerAssumption DEF ScannerAssumption, StationAt, Addresses

LEMMA ParamsKind ==
  ASSUME NEW info
  PROVE  ParamsFromServiceInfo(info) \in {k.params : k \in Known} \cup {Defaults}
<1>1. ASSUME NEW key
      PROVE  DeviceParams(key) = None \/ DeviceParams(key) \in {k.params : k \in Known}
  <2> DEFINE found == {k \in Known : k.key = key}
  <2>1. CASE found = {}
    BY <2>1 DEF DeviceParams
  <2>2. CASE found # {}
    <3>1. (CHOOSE k \in found : TRUE) \in found
      BY <2>2
    <3>2. DeviceParams(key) = (CHOOSE k \in found : TRUE).params
      BY <2>2 DEF DeviceParams
    <3> QED BY <3>1, <3>2
  <2> QED BY <2>1, <2>2
<1> QED BY <1>1 DEF ParamsFromServiceInfo, OrDefaults

(* What the scanner would resolve for the same station.                    *)
LEMMA ParamsOfTheStation ==
  ASSUME NEW s \in Stations, s.ours
  PROVE  Parsed(Advertisement(s, -60, TRUE, TRUE, "service")).params
           = OrDefaults(DeviceParams(<<s.uuid, s.name>>))
<1> DEFINE adv == Advertisement(s, -60, TRUE, TRUE, "service")
<1>1. adv.ours /\ adv.uuid = s.uuid /\ adv.name = s.name /\ s.uuid # None
  BY ScannerAssumption DEF ScannerAssumption, Advertisement
<1> HIDE DEF adv
<1>2. Parsed(adv).params = OrDefaults(DeviceParams(<<adv.uuid, adv.name>>))
  BY <1>1 DEF Parsed
<1> QED BY <1>1, <1>2 DEF adv

LEMMA IdleFlow ==
  /\ Idle \in FlowStates
  /\ \A f : Sound(f, Idle)
BY DEF Idle, FlowStates, Sound

(* One flow goes on, and no entry is touched.                              *)
LEMMA OneFlow ==
  ASSUME FlowInv, EntryFitsTheStation, NEW f \in Flows, NEW state \in FlowStates, Sound(f, state),
         flow' = [flow EXCEPT ![f] = state], started' \in Nat,
         UNCHANGED <<received, entries, raced>>
  PROVE  FlowInv' /\ EntryFitsTheStation'
<1>1. /\ flow' \in [Flows -> FlowStates]
      /\ \A g \in Flows : flow'[g] = IF g = f THEN state ELSE flow[g]
  BY DEF FlowInv
<1>2. \A g \in Flows : Sound(g, flow[g])'
  BY <1>1 DEF FlowInv, Sound
<1> QED BY <1>1, <1>2 DEF FlowInv, EntryFitsTheStation

(* The steps of a flow, up to its entry (config_flow.py).                  *)
LEMMA FlowGoesOn ==
  ASSUME FlowInv, EntryFitsTheStation, NEW f \in Flows,
         StepBluetooth(f) \/ Confirm(f) \/ StepUser(f) \/ Submit(f) \/ Dismiss(f)
  PROVE  FlowInv' /\ EntryFitsTheStation'
<1>1. /\ flow[f] \in FlowStates /\ Sound(f, flow[f]) /\ started \in Nat
      /\ received \in [Addresses -> Views \cup {None}] /\ flow \in [Flows -> FlowStates]
  BY DEF FlowInv
<1>2. CASE StepBluetooth(f)
  <2>1. PICK a \in Addresses :
          /\ received[a] # None /\ entries[a] = None /\ received[a].ours
          /\ Begin(f, [Idle EXCEPT !.step = "confirm", !.unique = a, !.info = received[a]])
    BY <1>2 DEF StepBluetooth
  <2> DEFINE base  == [Idle EXCEPT !.step = "confirm", !.unique = a, !.info = received[a]]
             state == [base EXCEPT !.number = started + 1]
  <2>2. /\ flow' = [flow EXCEPT ![f] = state] /\ started' = started + 1 /\ started' \in Nat
        /\ UNCHANGED <<received, entries, raced>>
    <3> HIDE DEF base
    <3> QED BY <1>1, <2>1 DEF Begin, base
  <2>3. received[a] \in Views /\ Fits(received[a]) /\ received[a].address = a
    BY <1>1, <2>1 DEF FlowInv
  <2>4. /\ base \in FlowStates /\ base.step = "confirm" /\ base.unique = a
        /\ base.info = received[a] /\ base.offered = {}
    BY <2>3, IdleFlow DEF FlowStates, Idle
  <2> HIDE DEF base
  <2>5. /\ state \in FlowStates /\ state.step = "confirm" /\ state.unique = a
        /\ state.info = received[a] /\ state.offered = {}
    BY <1>1, <2>4 DEF FlowStates
  <2> HIDE DEF state
  <2>6. Sound(f, state)
    BY <2>1, <2>3, <2>5 DEF Sound
  <2> QED BY <2>2, <2>5, <2>6, OneFlow
<1>3. CASE Confirm(f)
  <2> DEFINE state == [flow[f] EXCEPT !.step = "resolving"]
  <2>1. /\ flow[f].step = "confirm" /\ flow' = [flow EXCEPT ![f] = state]
        /\ UNCHANGED <<received, entries, raced, started>>
    BY <1>1, <1>3 DEF Confirm
  <2>2. state \in FlowStates
    BY <1>1 DEF FlowStates
  <2>3. /\ state.step = "resolving" /\ state.unique = flow[f].unique /\ state.info = flow[f].info
        /\ state.offered = flow[f].offered
    BY <1>1 DEF FlowStates
  <2> HIDE DEF state
  <2>4. Sound(f, state)
    BY <1>1, <2>1, <2>3 DEF Sound
  <2> QED BY <1>1, <2>1, <2>2, <2>4, OneFlow
<1>4. CASE StepUser(f)
  <2> DEFINE offered == {received[a] : a \in {b \in Addresses : /\ received[b] # None
                                                               /\ entries[b] = None
                                                               /\ received[b].ours}}
             base    == [Idle EXCEPT !.step = "choose", !.offered = offered]
             state   == [base EXCEPT !.number = started + 1]
  <2>1. /\ flow' = [flow EXCEPT ![f] = state] /\ started' = started + 1 /\ started' \in Nat
        /\ UNCHANGED <<received, entries, raced>>
    <3> HIDE DEF base
    <3> QED BY <1>1, <1>4 DEF StepUser, Begin, base
  <2>2. offered \subseteq Views /\ \A view \in offered : Fits(view)
    BY <1>1 DEF FlowInv
  <2> HIDE DEF offered
  <2>3. /\ base \in FlowStates /\ base.step = "choose" /\ base.unique = None
        /\ base.offered = offered
    BY <2>2, IdleFlow DEF FlowStates, Idle
  <2> HIDE DEF base
  <2>4. /\ state \in FlowStates /\ state.step = "choose" /\ state.unique = None
        /\ state.offered = offered
    BY <1>1, <2>3 DEF FlowStates
  <2> HIDE DEF state
  <2>5. Sound(f, state)
    BY <2>2, <2>4 DEF Sound
  <2> QED BY <2>1, <2>4, <2>5, OneFlow
<1>5. CASE Submit(f)
  <2>1. PICK info \in flow[f].offered :
          flow' = [flow EXCEPT ![f] =
            IF Configured(info.address) THEN Idle ELSE Chosen(flow[f], info)]
    BY <1>5 DEF Submit
  <2>2. UNCHANGED <<received, entries, raced, started>>
    BY <1>5 DEF Submit
  <2> DEFINE state == [flow[f] EXCEPT !.step = "resolving", !.unique = info.address,
                                      !.info = info, !.offered = {}]
  <2>3. info \in Views /\ Fits(info) /\ info.address \in Addresses
    BY <1>1 DEF FlowStates, Sound, Views
  <2>4. state \in FlowStates
    BY <1>1, <2>3 DEF FlowStates
  <2>5. /\ state.step = "resolving" /\ state.unique = info.address
        /\ state.info = info /\ state.offered = {}
    BY <1>1 DEF FlowStates
  <2>6. flow' = [flow EXCEPT ![f] = IF Configured(info.address) THEN Idle ELSE state]
    BY <2>1 DEF Chosen
  <2> HIDE DEF state
  <2>7. CASE Configured(info.address)
    BY <1>1, <2>2, <2>6, <2>7, IdleFlow, OneFlow
  <2>8. CASE ~Configured(info.address)
    <3>1. Sound(f, state)
      BY <2>3, <2>5, <2>8 DEF Sound, Configured
    <3>2. flow' = [flow EXCEPT ![f] = state]
      BY <2>6, <2>8
    <3> QED BY <1>1, <2>2, <2>4, <3>1, <3>2, OneFlow
  <2> QED BY <2>7, <2>8
<1>6. CASE Dismiss(f)
  BY <1>1, <1>6, IdleFlow, OneFlow DEF Dismiss
<1> QED BY <1>2, <1>3, <1>4, <1>5, <1>6

(* An entry is created (config_flow.py, async_create_entry).               *)
LEMMA EntryCreated ==
  ASSUME FlowInv, EntryFitsTheStation, NEW f \in Flows, CreateEntry(f)
  PROVE  FlowInv' /\ EntryFitsTheStation'
<1> DEFINE a      == flow[f].unique
           info   == flow[f].info
           others == {g \in Flows \ {f} : flow[g].unique = a}
           past   == {g \in others : flow[g].step = "resolving"}
           data   == [number |-> flow[f].number, name |-> info.name, key |-> info.uuid,
                      params |-> ParamsFromServiceInfo(info)]
<1>1. PICK running \in SUBSET past :
        /\ raced' = [raced EXCEPT ![a] = running]
        /\ flow' = [g \in Flows |-> IF g \in {f} \cup (others \ running) THEN Idle ELSE flow[g]]
  BY DEF CreateEntry
<1>2. flow[f].step = "resolving" /\ entries' = [entries EXCEPT ![a] = data]
      /\ UNCHANGED <<received, started>>
  BY DEF CreateEntry
<1>3. /\ flow[f] \in FlowStates /\ Sound(f, flow[f]) /\ flow \in [Flows -> FlowStates]
      /\ entries \in [Addresses -> EntryData \cup {None}] /\ raced \in [Addresses -> SUBSET Flows]
  BY DEF FlowInv
<1>4. info \in Views /\ Fits(info) /\ a = info.address /\ a \in Addresses /\ a # None
  <2>1. info \in Views /\ Fits(info) /\ a = info.address
    BY <1>2, <1>3 DEF Sound
  <2>2. a \in Addresses
    BY <2>1 DEF Views
  <2>3. None \notin Addresses
    BY ScannerAssumption DEF ScannerAssumption, Addresses
  <2> QED BY <2>1, <2>2, <2>3
<1>5. data \in EntryData /\ data # None
  <2>1. flow[f].number \in Nat /\ info.name \in Names /\ info.uuid \in Uuids
    BY <1>3, <1>4 DEF FlowStates, Views
  <2>2. data \in EntryData
    BY <2>1, ParamsKind DEF EntryData
  <2> QED BY <2>2, ConfigFlowAssumption DEF ConfigFlowAssumption
<1>6. StationAt(a).ours /\ data.name = StationAt(a).name /\ data.key \in {None, StationAt(a).uuid}
  BY <1>4 DEF Fits
<1>7. data.params = IF data.key = None THEN Defaults
                    ELSE Parsed(Advertisement(StationAt(a), -60, TRUE, TRUE, "service")).params
  <2>1. CASE info.uuid = None
    BY <2>1 DEF ParamsFromServiceInfo
  <2>2. CASE info.uuid # None
    <3>1. StationAt(a) \in Stations
      BY <1>4, StationHere DEF Addresses
    <3>2. info.uuid = StationAt(a).uuid /\ info.name = StationAt(a).name /\ StationAt(a).ours
      BY <1>4, <2>2 DEF Fits
    <3>3. data.params = OrDefaults(DeviceParams(<<StationAt(a).uuid, StationAt(a).name>>))
      BY <2>2, <3>2 DEF ParamsFromServiceInfo
    <3>4. Parsed(Advertisement(StationAt(a), -60, TRUE, TRUE, "service")).params
            = OrDefaults(DeviceParams(<<StationAt(a).uuid, StationAt(a).name>>))
      BY <3>1, <3>2, ParamsOfTheStation
    <3>5. data.key # None
      BY <2>2
    <3> QED BY <3>3, <3>4, <3>5
  <2> QED BY <2>1, <2>2
<1> HIDE DEF data
<1>8. /\ entries' \in [Addresses -> EntryData \cup {None}]
      /\ \A b \in Addresses : entries'[b] = IF b = a THEN data ELSE entries[b]
  BY <1>2, <1>3, <1>4, <1>5
<1>9. EntryFitsTheStation'
  BY <1>6, <1>7, <1>8 DEF EntryFitsTheStation
<1>10. running \subseteq Flows
  OBVIOUS
<1>11. /\ raced' \in [Addresses -> SUBSET Flows]
       /\ \A b \in Addresses : raced'[b] = IF b = a THEN running ELSE raced[b]
  BY <1>1, <1>3, <1>4, <1>10
<1>12. /\ flow' \in [Flows -> FlowStates]
       /\ \A g \in Flows : flow'[g] = IF g \in {f} \cup (others \ running) THEN Idle ELSE flow[g]
  BY <1>1, <1>3, IdleFlow
<1>13. ASSUME NEW g \in Flows PROVE Sound(g, flow[g])'
  <2>1. CASE g \in {f} \cup (others \ running)
    <3>1. flow'[g] = Idle
      BY <1>12, <2>1
    <3> QED BY <3>1 DEF Sound, Idle
  <2>2. CASE g \notin {f} \cup (others \ running)
    <3>1. flow'[g] = flow[g] /\ Sound(g, flow[g])
      BY <1>12, <2>2 DEF FlowInv
    <3>2. CASE flow[g].step \in {"confirm", "resolving"}
      <4>1. flow[g].info \in Views /\ flow[g].unique = flow[g].info.address
        BY <3>1, <3>2 DEF Sound
      <4>2. flow[g].unique \in Addresses
        BY <4>1 DEF Views
      <4>3. CASE flow[g].unique = a
        <5>1. g \in running /\ flow[g].step = "resolving"
          BY <2>2, <4>3
        <5>2. raced'[a] = running
          BY <1>4, <1>11
        <5> QED BY <3>1, <4>3, <5>1, <5>2 DEF Sound
      <4>4. CASE flow[g].unique # a
        <5>1. entries'[flow[g].unique] = entries[flow[g].unique]
              /\ raced'[flow[g].unique] = raced[flow[g].unique]
          BY <1>8, <1>11, <4>2, <4>4
        <5> QED BY <3>1, <5>1 DEF Sound
      <4> QED BY <4>3, <4>4
    <3>3. CASE flow[g].step \notin {"confirm", "resolving"}
      BY <3>1, <3>3 DEF Sound
    <3> QED BY <3>2, <3>3
  <2> QED BY <2>1, <2>2
<1>14. \A b \in Addresses :
         /\ received'[b] # None =>
              received'[b].address = b /\ (received'[b].ours => Fits(received'[b]))
         /\ raced'[b] # {} => entries'[b] # None
  BY <1>2, <1>5, <1>8, <1>11 DEF FlowInv
<1>15. received' \in [Addresses -> Views \cup {None}] /\ started' \in Nat
  BY <1>2 DEF FlowInv
<1> QED BY <1>8, <1>9, <1>11, <1>12, <1>13, <1>14, <1>15 DEF FlowInv

(* Every step of the flows, of Home Assistant's and of the user's.         *)
LEMMA FlowStep ==
  ASSUME FlowInv, EntryFitsTheStation, FlowNext
  PROVE  FlowInv' /\ EntryFitsTheStation'
<1>1. CASE Receive
  <2>1. PICK s \in Stations, named \in BOOLEAN, identified \in BOOLEAN :
          LET before == received[s.address]
              name == named \/ (before # None /\ before.name # None)
              uuid == identified \/ (before # None /\ before.uuid # None)
          IN received' = [received EXCEPT ![s.address] =
               [address |-> s.address, name |-> IF name THEN s.name ELSE None,
                ours |-> name /\ s.ours, uuid |-> IF uuid THEN s.uuid ELSE None]]
    BY <1>1 DEF Receive
  <2>2. \E name \in BOOLEAN, uuid \in BOOLEAN :
          received' = [received EXCEPT ![s.address] =
            [address |-> s.address, name |-> IF name THEN s.name ELSE None,
             ours |-> name /\ s.ours, uuid |-> IF uuid THEN s.uuid ELSE None]]
    <3> DEFINE before == received[s.address]
               name == named \/ (before # None /\ before.name # None)
               uuid == identified \/ (before # None /\ before.uuid # None)
    <3>1. name \in BOOLEAN /\ uuid \in BOOLEAN
      OBVIOUS
    <3> QED BY <2>1, <3>1
  <2>3. PICK name \in BOOLEAN, uuid \in BOOLEAN :
          received' = [received EXCEPT ![s.address] =
            [address |-> s.address, name |-> IF name THEN s.name ELSE None,
             ours |-> name /\ s.ours, uuid |-> IF uuid THEN s.uuid ELSE None]]
    BY <2>2
  <2> DEFINE view == [address |-> s.address, name |-> IF name THEN s.name ELSE None,
                      ours |-> name /\ s.ours, uuid |-> IF uuid THEN s.uuid ELSE None]
  <2>4. s.address \in Addresses /\ StationAt(s.address) = s /\ s.ours \in BOOLEAN
    BY StationHere, ScannerAssumption DEF ScannerAssumption
  <2>5. view \in Views
    BY <2>4 DEF Views, Names, Uuids
  <2>6. view.address = s.address /\ (view.ours => Fits(view))
    BY <2>4 DEF Fits
  <2> HIDE DEF view
  <2>7. received' = [received EXCEPT ![s.address] = view]
    BY <2>3 DEF view
  <2>8. /\ received' \in [Addresses -> Views \cup {None}]
        /\ \A a \in Addresses : received'[a] = IF a = s.address THEN view ELSE received[a]
    BY <2>4, <2>5, <2>7 DEF FlowInv
  <2>9. UNCHANGED <<flow, entries, raced, started>>
    BY <1>1 DEF Receive
  <2>10. \A f \in Flows : Sound(f, flow[f])'
    BY <2>9 DEF FlowInv, Sound
  <2> QED BY <2>6, <2>8, <2>9, <2>10 DEF FlowInv, EntryFitsTheStation
<1>2. CASE RemoveEntry
  <2>1. PICK a \in Addresses : /\ entries' = [entries EXCEPT ![a] = None]
                               /\ raced' = [raced EXCEPT ![a] = {}]
    BY <1>2 DEF RemoveEntry
  <2>2. UNCHANGED <<received, flow, started>>
    BY <1>2 DEF RemoveEntry
  <2>3. /\ entries \in [Addresses -> EntryData \cup {None}]
        /\ raced \in [Addresses -> SUBSET Flows]
    BY DEF FlowInv
  <2>4. /\ entries' \in [Addresses -> EntryData \cup {None}]
        /\ \A b \in Addresses : entries'[b] = IF b = a THEN None ELSE entries[b]
    BY <2>1, <2>3
  <2>5. /\ raced' \in [Addresses -> SUBSET Flows]
        /\ \A b \in Addresses : raced'[b] = IF b = a THEN {} ELSE raced[b]
    BY <2>1, <2>3
  <2>6. ASSUME NEW f \in Flows PROVE Sound(f, flow[f])'
    <3>1. Sound(f, flow[f]) /\ flow'[f] = flow[f]
      BY <2>2 DEF FlowInv
    <3>2. CASE flow[f].step \in {"confirm", "resolving"}
      <4>1. flow[f].unique \in Addresses
        BY <3>1, <3>2 DEF Sound, Views
      <4>2. entries'[flow[f].unique] # None =>
              /\ entries[flow[f].unique] # None
              /\ raced'[flow[f].unique] = raced[flow[f].unique]
        BY <2>4, <2>5, <4>1
      <4> QED BY <3>1, <4>2 DEF Sound
    <3>3. CASE flow[f].step \notin {"confirm", "resolving"}
      BY <3>1, <3>3 DEF Sound
    <3> QED BY <3>2, <3>3
  <2>7. \A b \in Addresses :
          /\ received'[b] # None =>
               received'[b].address = b /\ (received'[b].ours => Fits(received'[b]))
          /\ raced'[b] # {} => entries'[b] # None
    BY <2>2, <2>4, <2>5 DEF FlowInv
  <2>8. EntryFitsTheStation'
    BY <2>4 DEF EntryFitsTheStation
  <2>9. flow' \in [Flows -> FlowStates] /\ received' \in [Addresses -> Views \cup {None}]
        /\ started' \in Nat
    BY <2>2 DEF FlowInv
  <2> QED BY <2>4, <2>5, <2>6, <2>7, <2>8, <2>9 DEF FlowInv
<1>3. ASSUME NEW f \in Flows,
             StepBluetooth(f) \/ Confirm(f) \/ StepUser(f) \/ Submit(f) \/ Dismiss(f)
      PROVE  FlowInv' /\ EntryFitsTheStation'
  BY <1>3, FlowGoesOn
<1>4. ASSUME NEW f \in Flows, CreateEntry(f) PROVE FlowInv' /\ EntryFitsTheStation'
  BY <1>4, EntryCreated
<1> QED BY <1>1, <1>2, <1>3, <1>4 DEF FlowNext

(* An entry is replaced by a flow past its check alone (config_flow.py).   *)
LEMMA RacersAlone ==
  ASSUME FlowInv, FlowNext, NEW a \in Addresses, entries[a] # None,
         entries'[a] \notin {entries[a], None}
  PROVE  \E f \in raced[a] : flow[f].step = "resolving" /\ flow[f].unique = a
<1>1. /\ ~Receive
      /\ \A f \in Flows :
           ~(StepBluetooth(f) \/ Confirm(f) \/ StepUser(f) \/ Submit(f) \/ Dismiss(f))
  BY DEF Receive, StepBluetooth, Confirm, StepUser, Submit, Dismiss, Begin
<1>2. ~RemoveEntry
  BY DEF RemoveEntry, FlowInv
<1>3. PICK f \in Flows : CreateEntry(f)
  BY <1>1, <1>2 DEF FlowNext
<1>4. /\ flow[f].step = "resolving" /\ entries \in [Addresses -> EntryData \cup {None}]
      /\ \E data : entries' = [entries EXCEPT ![flow[f].unique] = data]
  BY <1>3 DEF CreateEntry, FlowInv
<1>5. flow[f].unique = a
  BY <1>4
<1>6. f \in raced[a]
  BY <1>4, <1>5 DEF FlowInv, Sound
<1> QED BY <1>4, <1>5, <1>6

-------------------------------------------------------------------------------
(* The theorems *)

ProgramInv == program \in {"sydpower", "homeassistant"}
IInv == ProgramInv /\ ScanInv /\ DumpInv /\ WatchTellsEverything /\ FlowInv /\ EntryFitsTheStation

(* The scan goes on, or is not touched, or is over and forgotten.          *)
LEMMA ScanStep ==
  ASSUME ScanInv, CliNext
  PROVE  ScanInv'
<1>1. CASE UNCHANGED <<heard, results>>
  BY <1>1 DEF ScanInv, Parseable, Entry
<1>2. CASE Hear
  <2>1. PICK adv \in Heard :
          /\ heard' = heard \cup {adv}
          /\ results' = IF Parsed(adv) = None THEN results ELSE Keep(results, adv)
    BY <1>2 DEF Hear
  <2>2. CASE Parsed(adv) = None
    <3>1. heard' \subseteq Heard /\ Parseable' = Parseable /\ results' = results
      BY <2>1, <2>2 DEF Parseable, ScanInv
    <3> QED BY <3>1 DEF ScanInv
  <2>3. CASE Parsed(adv) # None
    BY <2>1, <2>3, KeepsStrongest
  <2> QED BY <2>2, <2>3
<1>3. CASE Resolve
  <2>1. heard' = {} /\ results' = <<>>
    BY <1>3 DEF Resolve
  <2>2. Parseable' = {} /\ DOMAIN results' = {} /\ <<>> \in Seq({Entry(adv) : adv \in Heard})
    BY <2>1 DEF Parseable
  <2> QED BY <2>1, <2>2 DEF ScanInv
<1> QED BY <1>1, <1>2, <1>3 DEF CliNext, StationChanges, ReadBank, Show, Stop, RunAgain

LEMMA InitInv == Init => IInv
<1> SUFFICES ASSUME Init PROVE IInv
  OBVIOUS
<1>1. ScanInv
  <2>1. Parseable = {} /\ DOMAIN results = {} /\ results \in Seq({Entry(adv) : adv \in Heard})
        /\ heard = {}
    BY DEF Init, CliInit, Parseable
  <2> QED BY <2>1 DEF ScanInv
<1>2. /\ Nothing \in [ToSet(Banks) -> Seq(Contents) \cup {None}]
      /\ \A b \in ToSet(Banks) : Nothing[b] = None
  BY DEF Nothing
<1>3. /\ phase = "scan" /\ snapshot = Nothing /\ current = Nothing
      /\ banks \in {{"holding"}, {"input"}, ToSet(Banks)}
      /\ station = [b \in ToSet(Banks) |-> <<0, 0>>]
  BY DEF Init, CliInit
<1>4. banks \subseteq ToSet(Banks)
  BY <1>3, TheBanks
<1>5. station \in [ToSet(Banks) -> Seq(Contents) \ {<<>>}]
  <2>1. <<0, 0>> \in Seq(Contents) /\ <<0, 0>> # <<>>
    BY DEF Contents
  <2> QED BY <1>3, <2>1
<1>6. DumpInv /\ WatchTellsEverything
  BY <1>2, <1>3, <1>4, <1>5 DEF DumpInv, WatchTellsEverything
<1>7. FlowInv /\ EntryFitsTheStation
  <2>1. /\ received = [a \in Addresses |-> None] /\ flow = [f \in Flows |-> Idle]
        /\ entries = [a \in Addresses |-> None] /\ raced = [a \in Addresses |-> {}] /\ started = 0
    BY DEF Init, FlowInit
  <2> QED BY <2>1, IdleFlow DEF FlowInv, EntryFitsTheStation
<1> QED BY <1>1, <1>6, <1>7 DEF IInv, ProgramInv, Init

(* What the theorems below rest on: of every address the strongest         *)
(* advertisement, what was printed of every bank, and of every flow its    *)
(* station (cli.py, scanner.py and config_flow.py).                        *)
THEOREM Inductive == Spec => []IInv
<1>1. Init => IInv
  BY InitInv
<1>2. IInv /\ [Next]_discoveryVars => IInv'
  <2> SUFFICES ASSUME IInv, [Next]_discoveryVars PROVE IInv'
    OBVIOUS
  <2>1. ASSUME UNCHANGED cliVars PROVE (ScanInv /\ DumpInv /\ WatchTellsEverything)'
    BY <2>1 DEF IInv, cliVars, ScanInv, Parseable, Entry, DumpInv, WatchTellsEverything
  <2>2. ASSUME UNCHANGED flowVars PROVE (FlowInv /\ EntryFitsTheStation)'
    BY <2>2 DEF IInv, flowVars, FlowInv, Sound, EntryFitsTheStation
  <2>3. CASE CliNext /\ UNCHANGED <<program, flowVars>>
    BY <2>2, <2>3, ScanStep, DumpStep DEF IInv, ProgramInv
  <2>4. CASE FlowNext /\ UNCHANGED <<program, cliVars>>
    BY <2>1, <2>4, FlowStep DEF IInv, ProgramInv
  <2>5. CASE UNCHANGED discoveryVars
    BY <2>1, <2>2, <2>5 DEF IInv, ProgramInv, discoveryVars
  <2> QED BY <2>3, <2>4, <2>5 DEF Next
<1> QED BY <1>1, <1>2, PTL DEF Spec

(* A bank is printed once it is read, a flow that has chosen is told of    *)
(* its station, and a racer has an entry to race for.                      *)
THEOREM TypeCorrect == Spec => []TypeOK
<1>1. IInv => TypeOK
  <2> SUFFICES ASSUME IInv PROVE TypeOK
    OBVIOUS
  <2>1. ASSUME NEW f \in Flows
        PROVE  /\ flow[f].step \in {"none", "confirm", "choose", "resolving"}
               /\ flow[f].step \in {"confirm", "resolving"} => flow[f].info.address = flow[f].unique
               /\ flow[f].step \in {"none", "choose"} => flow[f].unique = None
    BY DEF IInv, FlowInv, FlowStates, Sound
  <2> QED BY <2>1 DEF IInv, DumpInv, FlowInv, TypeOK
<1> QED BY <1>1, Inductive, PTL

(* Of each station the scan lists the strongest advertisement, once, the   *)
(* strongest station first (scanner.py, scan and callback).                *)
THEOREM StrongestListed == Spec => []StrongestIsKept
<1>1. IInv => StrongestIsKept
  BY ListedStrongest DEF IInv
<1> QED BY <1>1, Inductive, PTL

(* Identifier, status and serial number are read from the bytes where the  *)
(* station put them, whichever way they came (scanner.py,                  *)
(* _parse_advertisement).                                                  *)
THEOREM IdentityOfStation == Spec => []IdentityIsRead
<1>1. IInv => IdentityIsRead
  BY IdentityRead DEF IInv
<1> QED BY <1>1, Inductive, PTL

(* The printed changes add up to what was read last (cli.py, dump).        *)
THEOREM WatchComplete == Spec => []WatchTellsEverything
<1>1. IInv => WatchTellsEverything
  BY DEF IInv
<1> QED BY <1>1, Inductive, PTL

(* An entry is of a station of the family, with its name and parameters    *)
(* (config_flow.py, async_create_entry).                                   *)
THEOREM EntryFits == Spec => []EntryFitsTheStation
<1>1. IInv => EntryFitsTheStation
  BY DEF IInv
<1> QED BY <1>1, Inductive, PTL

(* No flow replaces an entry but one that had passed its last check before *)
(* the entry was created (config_flow.py, _abort_if_unique_id_configured). *)
THEOREM RacersReplace == Spec => OnlyRacersReplace
<1> DEFINE Racers == \A a \in Addresses :
             entries[a] # None /\ entries'[a] \notin {entries[a], None} =>
               \E f \in raced[a] : flow[f].step = "resolving" /\ flow[f].unique = a
<1>1. IInv /\ [Next]_discoveryVars => [Racers]_flowVars
  <2> SUFFICES ASSUME IInv, [Next]_discoveryVars PROVE [Racers]_flowVars
    OBVIOUS
  <2>1. CASE FlowNext
    BY <2>1, RacersAlone DEF IInv
  <2>2. CASE UNCHANGED flowVars
    BY <2>2
  <2> QED BY <2>1, <2>2 DEF Next, discoveryVars
<1> QED BY <1>1, Inductive, PTL DEF Spec, OnlyRacersReplace
===============================================================================
