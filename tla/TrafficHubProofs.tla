-------------------------- MODULE TrafficHubProofs --------------------------
(***************************************************************************)
(* Proofs about TrafficHub, for any names, instances, sampling and bounds: *)
(* a counter leaves the hub exactly with its last handle, samples are      *)
(* counted once each, and the summary lists what runs.                     *)
(***************************************************************************)
EXTENDS TrafficHub, FiniteSetTheorems, TLAPS

Records == [name : Names \cup {None}, counter : Counters \cup {0},
            handle : {"none", "open", "detached", "unregistered", "closing"},
            add : {"no", "checked", "adding"}]

TypeInv ==
  /\ counters \in [Names -> Counters \cup {0}] /\ made \in Counters \cup {0}
  /\ refs \in [Counters -> Int] /\ seen \in [Counters -> Nat]
  /\ packets \in [Counters -> Int] /\ last \in [Counters -> Int]
  /\ users \in [Users -> Records]
  /\ spare \in [Tasks -> Counters \cup {0}] /\ registered \in [Tasks -> Users \cup {None}]
  /\ sender \in [Senders -> {"new", "open", "closed"}] /\ senderEntry \in Senders \cup {None}
  /\ senderSeq \in Nat /\ senderId \in [Senders -> Nat]
  /\ flush \in {"idle", "adding", "log"} /\ cs \subseteq [name : Names, counter : Counters]
  /\ seenTask \subseteq Tasks /\ listed \in [Tasks -> Nat] /\ throughout \subseteq Tasks

\* What the record of an instance may be. Instances of a task do not overlap, the one
\* that serves is registered, and while it hands its handle on it is detached.
UserInv ==
  \A u \in Users :
    LET i == users[u] IN
    /\ i.name = None => i = Idle
    /\ i.name # None => i.counter # 0 /\ i.counter <= made
    /\ i.name \in Receivers => i.handle \in {"open", "closing", "none"}
    /\ i.name \in Tasks =>
         /\ i.handle # "none"
         /\ i.handle \in {"unregistered", "closing"} => i.add = "no"
         /\ i.handle \in {"open", "detached"} => registered[i.name] = u
         /\ spare[i.name] # 0 => i.handle = "detached"
         /\ \A v \in Users : users[v].name = i.name => v = u

\* Who has a handle of the name, the handle a task has left for its next instance, and
\* the references on the name's counter.
Holds(i, n) == i.name = n /\ i.handle \in {"open", "unregistered", "closing"}
Holders(n) == {u \in Users : Holds(users[u], n)}
Passed(n) == IF n \in Tasks /\ spare[n] # 0 THEN 1 ELSE 0
RefOf(n) == IF counters[n] = 0 THEN 0 ELSE refs[counters[n]]

\* Names do not share counters, and a counter that is not made has no references.
MapInv ==
  /\ \A n \in Names : counters[n] <= made
  /\ \A n, m \in Names : counters[n] = counters[m] /\ counters[n] # 0 => n = m
  /\ \A c \in Counters : c > made => refs[c] = 0

\* refs counts the handles of the name, and all of them have its counter.
ShareInv ==
  \A n \in Names :
    /\ RefOf(n) = Cardinality(Holders(n)) + Passed(n)
    /\ \A u \in Holders(n) : users[u].counter = counters[n]
    /\ Passed(n) = 1 => spare[n] = counters[n]

\* Who has seen a full group that is not in packets yet, and so what packets is.
Adding(c) == {u \in Users : users[u].counter = c /\ users[u].add = "adding"}

SampleInv ==
  \A c \in Counters :
    /\ packets[c] = Sample * (seen[c] \div Sample - Cardinality(Adding(c)))
    /\ last[c] <= packets[c]

\* What flush has listed, and that it reads each name once.
FlushInv ==
  /\ flush = "adding" =>
       /\ \A t \in Tasks : listed[t] = IF t \in seenTask THEN 1 ELSE 0
       /\ \A e, f \in cs : e.name = f.name => e = f
       /\ \A e \in cs : e.name \notin seenTask
       /\ \A t \in throughout : registered[t] # None
  /\ flush = "log" => \A t \in Tasks : /\ listed[t] <= 1
                                       /\ t \in throughout => listed[t] = 1

\* The ids of senders, and the entry of their name.
SenderInv ==
  /\ \A s \in Senders : /\ sender[s] = "new" <=> senderId[s] = 0
                        /\ senderId[s] <= senderSeq
                        /\ senderId[s] = senderSeq /\ sender[s] = "open" => senderEntry = s
  /\ \A s, q \in Senders : senderId[s] = senderId[q] /\ senderId[s] # 0 => s = q
  /\ senderEntry # None => sender[senderEntry] = "open"

\* The inductive invariant.
HubInv == /\ TypeInv /\ UserInv /\ MapInv /\ ShareInv
          /\ SampleInv /\ FlushInv /\ SenderInv
-----------------------------------------------------------------------------
(* Sets of users, and the arithmetic of sampling.                          *)

\* A set of users that gains one has one more.
LEMMA OneMore ==
  ASSUME NEW S \in SUBSET Users, NEW T, NEW u \in Users, u \notin S, T = S \cup {u}
  PROVE  Cardinality(T) = Cardinality(S) + 1
  <1>1. IsFiniteSet(S)
    BY UsersAssumption, FS_Subset
  <1> QED BY <1>1, FS_AddElement

\* A set of users that loses one has one less.
LEMMA OneLess ==
  ASSUME NEW S \in SUBSET Users, NEW T, NEW u \in S, T = S \ {u}
  PROVE  Cardinality(T) = Cardinality(S) - 1
  <1>1. IsFiniteSet(S)
    BY UsersAssumption, FS_Subset
  <1> QED BY <1>1, FS_RemoveElement

\* Sets of users are finite.
LEMMA UserSets ==
  ASSUME NEW S \in SUBSET Users
  PROVE  /\ Cardinality(S) \in Nat
         /\ Cardinality(S) = 0 <=> S = {}
  <1>1. IsFiniteSet(S)
    BY UsersAssumption, FS_Subset
  <1> QED BY <1>1, FS_CardinalityType, FS_EmptySet

\* A group of samples is full with the sample that Hit finds and with no other.
LEMMA Groups ==
  ASSUME NEW a \in Nat
  PROVE  /\ a \div Sample \in Nat /\ (a + 1) \div Sample \in Nat
         /\ Hit(a + 1) => (a + 1) \div Sample = a \div Sample + 1
         /\ ~Hit(a + 1) => (a + 1) \div Sample = a \div Sample
  <1>0. Sample \in Nat /\ Sample > 0
    BY BoundsAssumption
  <1>1. PICK m \in Nat : m = Sample
    BY <1>0
  <1>2. PICK q \in Int : q = a \div m
    BY <1>0, <1>1
  <1>3. PICK r \in Int : r = a % m
    BY <1>0, <1>1
  <1>4. a = m * q + r /\ 0 <= r /\ r < m /\ q >= 0
    BY <1>0, <1>1, <1>2, <1>3
  <1>5. PICK p \in Int : p = (a + 1) \div m
    BY <1>0, <1>1
  <1>6. PICK s \in Int : s = (a + 1) % m
    BY <1>0, <1>1
  <1>7. a + 1 = m * p + s /\ 0 <= s /\ s < m /\ p >= 0
    BY <1>0, <1>1, <1>5, <1>6
  <1>8. m * (p - q) = r + 1 - s
    BY <1>4, <1>7
  <1>9. p - q \in {0, 1}
    <2>1. PICK d \in Int : d = p - q
      OBVIOUS
    <2>2. m * d = r + 1 - s
      BY <1>8, <2>1
    <2>3. m * d <= m /\ m * d > -m
      BY <2>2, <1>4, <1>7
    <2>4. d <= 1
      <3>1. d > 1 => m * d >= m * 2
        BY <1>0, <1>1
      <3> QED BY <3>1, <2>3, <1>0, <1>1
    <2>5. d >= 0
      <3>1. d < 0 => m * d <= -m
        BY <1>0, <1>1
      <3> QED BY <3>1, <2>3, <1>0, <1>1
    <2> QED BY <2>1, <2>4, <2>5
  <1>10. s = 0 => p = q + 1
    <2>1. p = q => m * (p - q) = 0
      OBVIOUS
    <2> QED BY <2>1, <1>8, <1>9, <1>4
  <1>11. s # 0 => p = q
    <2>1. p = q + 1 => m * (p - q) = m
      OBVIOUS
    <2> QED BY <2>1, <1>8, <1>9, <1>4, <1>7
  <1>12. Hit(a + 1) <=> s = 0
    BY <1>1, <1>6 DEF Hit
  <1> QED BY <1>1, <1>2, <1>4, <1>5, <1>7, <1>10, <1>11, <1>12
-----------------------------------------------------------------------------
(* The map of counters under acquire and release.                          *)

\* acquire gives the name one reference more on the counter it has from then on.
IsAcquired(n, c) ==
  /\ c \in Counters /\ counters' = [counters EXCEPT ![n] = c]
  /\ counters' \in [Names -> Counters \cup {0}] /\ made' \in Counters \cup {0}
  /\ refs' \in [Counters -> Int]
  /\ c <= made' /\ made <= made'
  /\ counters[n] # 0 => c = counters[n]
  /\ RefOf(n)' = RefOf(n) + 1
  /\ \A m \in Names \ {n} : RefOf(m)' = RefOf(m)
  /\ MapInv'

LEMMA AcquireEffect ==
  ASSUME TypeInv, MapInv, NEW n \in Names, acquire(n)
  PROVE  IsAcquired(n, Acquired(n))
  <1> DEFINE c == Acquired(n)
  <1>1. /\ counters \in [Names -> Counters \cup {0}] /\ made \in Counters \cup {0}
        /\ refs \in [Counters -> Int] /\ MaxCounters \in Nat
    BY BoundsAssumption DEF TypeInv
  <1>2. /\ c \in Counters /\ made' = (IF c > made THEN c ELSE made)
        /\ refs' = [refs EXCEPT ![c] = @ + 1] /\ counters' = [counters EXCEPT ![n] = c]
    BY DEF acquire
  <1>3. c = IF counters[n] # 0 THEN counters[n] ELSE made + 1
    BY DEF Acquired
  <1>4. /\ \A m \in Names : counters[m] <= made
        /\ \A k, m \in Names : counters[k] = counters[m] /\ counters[k] # 0 => k = m
        /\ \A d \in Counters : d > made => refs[d] = 0
    BY DEF MapInv
  <1> HIDE DEF c
  <1>5. c \in 1..MaxCounters /\ made \in 0..MaxCounters
    BY <1>1, <1>2 DEF Counters
  <1>6. /\ counters' \in [Names -> Counters \cup {0}] /\ made' \in Counters \cup {0}
        /\ refs' \in [Counters -> Int] /\ c <= made' /\ made <= made'
    BY <1>1, <1>2, <1>5 DEF Counters
  <1>7. /\ counters'[n] = c /\ \A m \in Names \ {n} : counters'[m] = counters[m]
        /\ refs'[c] = refs[c] + 1 /\ \A d \in Counters \ {c} : refs'[d] = refs[d]
    BY <1>1, <1>2
  <1>8. \A m \in Names \ {n} : counters[m] # c
    BY <1>1, <1>3, <1>4, <1>5
  <1>9. RefOf(n)' = RefOf(n) + 1
    <2>1. counters[n] = 0 => refs[c] = 0
      BY <1>2, <1>3, <1>4, <1>5
    <2>2. RefOf(n)' = refs[c] + 1
      BY <1>5, <1>7 DEF RefOf
    <2> QED BY <2>1, <2>2, <1>3 DEF RefOf
  <1>10. \A m \in Names \ {n} : RefOf(m)' = RefOf(m)
    BY <1>1, <1>7, <1>8 DEF RefOf
  <1>11. MapInv'
    <2>1. \A m \in Names : counters'[m] <= made'
      <3>1. \A m \in Names \ {n} : counters'[m] \in Int /\ counters'[m] <= made
        BY <1>1, <1>4, <1>7 DEF Counters
      <3>2. made \in Int /\ made' \in Int
        BY <1>1, <1>6 DEF Counters
      <3> QED BY <3>1, <3>2, <1>6, <1>7
    <2>2. \A k, m \in Names : counters'[k] = counters'[m] /\ counters'[k] # 0 => k = m
      BY <1>4, <1>7, <1>8
    <2>3. \A d \in Counters : d > made' => refs'[d] = 0
      <3>1. \A d \in Counters : d > made' => d > made /\ d # c
        BY <1>1, <1>5, <1>6 DEF Counters
      <3> QED BY <3>1, <1>4, <1>7
    <2> QED BY <2>1, <2>2, <2>3 DEF MapInv
  <1>12. counters[n] # 0 => c = counters[n]
    BY <1>3
  <1> QED BY <1>2, <1>6, <1>9, <1>10, <1>11, <1>12 DEF IsAcquired, c

\* release takes one reference from it, and with the last one the counter goes.
IsReleased(n) ==
  /\ made' = made
  /\ counters' \in [Names -> Counters \cup {0}] /\ refs' \in [Counters -> Int]
  /\ RefOf(n) > 1 => counters'[n] = counters[n]
  /\ \A m \in Names \ {n} : counters'[m] = counters[m] /\ RefOf(m)' = RefOf(m)
  /\ RefOf(n)' = RefOf(n) - 1
  /\ MapInv'

LEMMA ReleaseEffect ==
  ASSUME TypeInv, MapInv, NEW n \in Names, release(n), RefOf(n) >= 1
  PROVE  IsReleased(n)
  <1>1. /\ counters \in [Names -> Counters \cup {0}] /\ made \in Counters \cup {0}
        /\ refs \in [Counters -> Int] /\ MaxCounters \in Nat
    BY BoundsAssumption DEF TypeInv
  <1>2. PICK c \in Counters \cup {0} : c = counters[n]
    BY <1>1
  <1>3. c # 0 /\ refs[c] >= 1 /\ RefOf(n) = refs[c] /\ c \in Counters
    BY <1>2 DEF RefOf
  <1>4. /\ made' = made /\ refs' = [refs EXCEPT ![c] = @ - 1]
        /\ counters' = IF refs[c] - 1 <= 0 THEN [counters EXCEPT ![n] = 0] ELSE counters
    BY <1>2, <1>3 DEF release
  <1>5. /\ \A m \in Names : counters[m] <= made
        /\ \A k, m \in Names : counters[k] = counters[m] /\ counters[k] # 0 => k = m
        /\ \A d \in Counters : d > made => refs[d] = 0
    BY DEF MapInv
  <1>6. /\ counters' \in [Names -> Counters \cup {0}] /\ refs' \in [Counters -> Int]
    BY <1>1, <1>3, <1>4
  <1>7. /\ counters'[n] = (IF refs[c] > 1 THEN c ELSE 0)
        /\ \A m \in Names \ {n} : counters'[m] = counters[m]
        /\ refs'[c] = refs[c] - 1 /\ \A d \in Counters \ {c} : refs'[d] = refs[d]
    BY <1>1, <1>2, <1>3, <1>4
  <1>8. RefOf(n)' = RefOf(n) - 1
    <2>1. RefOf(n)' = IF counters'[n] = 0 THEN 0 ELSE refs'[counters'[n]]
      BY DEF RefOf
    <2>2. refs[c] \in Int
      BY <1>1, <1>3
    <2> QED BY <2>1, <2>2, <1>3, <1>7
  <1>9. \A m \in Names \ {n} : RefOf(m)' = RefOf(m)
    BY <1>1, <1>2, <1>3, <1>5, <1>7 DEF RefOf
  <1>10. MapInv'
    <2>1. \A m \in Names : counters'[m] <= made'
      BY <1>1, <1>2, <1>4, <1>5, <1>7 DEF Counters
    <2>2. \A k, m \in Names : counters'[k] = counters'[m] /\ counters'[k] # 0 => k = m
      BY <1>2, <1>5, <1>7
    <2>3. \A d \in Counters : d > made' => refs'[d] = 0
      <3>1. c <= made
        BY <1>2, <1>5
      <3> QED BY <3>1, <1>1, <1>4, <1>5, <1>7 DEF Counters
    <2> QED BY <2>1, <2>2, <2>3 DEF MapInv
  <1> QED BY <1>2, <1>3, <1>4, <1>6, <1>7, <1>8, <1>9, <1>10 DEF IsReleased
-----------------------------------------------------------------------------
(* What leaves a part of the invariant alone.                              *)

\* Steps that touch neither the hub nor who holds what.
LEMMA ShareFrame ==
  ASSUME ShareInv, UNCHANGED <<hub, spare>>, NEW u \in Users, NEW i \in Records,
         users \in [Users -> Records],
         users' = [users EXCEPT ![u] = i],
         \A n \in Names : /\ Holds(i, n) <=> Holds(users[u], n)
                          /\ Holds(i, n) => i.counter = users[u].counter
  PROVE  ShareInv'
  <1>1. \A n \in Names : RefOf(n)' = RefOf(n) /\ Passed(n)' = Passed(n)
    BY DEF RefOf, Passed, hub
  <1>2. \A v \in Users : users'[v] = IF v = u THEN i ELSE users[v]
    OBVIOUS
  <1>3. \A n \in Names : Holders(n)' = Holders(n)
    BY <1>2 DEF Holders
  <1>4. \A n \in Names : \A v \in Holders(n) : users'[v].counter = users[v].counter
    BY <1>2 DEF Holders
  <1>5. UNCHANGED <<counters, spare>>
    BY DEF hub
  <1> QED BY <1>1, <1>3, <1>4, <1>5 DEF ShareInv

\* Steps that touch no sample and who adds none.
LEMMA SampleFrame ==
  ASSUME SampleInv, UNCHANGED counts, NEW u \in Users, NEW i \in Records,
         users \in [Users -> Records],
         users' = [users EXCEPT ![u] = i],
         \/ users[u].add # "adding" /\ i.add # "adding"
         \/ users[u].add = i.add /\ users[u].counter = i.counter
  PROVE  SampleInv'
  <1>1. \A v \in Users : users'[v] = IF v = u THEN i ELSE users[v]
    OBVIOUS
  <1>2. \A c \in Counters : Adding(c)' = Adding(c)
    BY <1>1 DEF Adding
  <1> QED BY <1>2 DEF SampleInv, counts

\* Steps of the users that flush does not see.
LEMMA FlushFrame ==
  ASSUME FlushInv, UNCHANGED <<summary, registered, throughout>>
  PROVE  FlushInv'
  BY DEF FlushInv, summary

\* Steps of others than senders.
LEMMA SenderFrame ==
  ASSUME SenderInv, UNCHANGED sending
  PROVE  SenderInv'
  BY DEF SenderInv, sending

\* Steps of the hub, the senders and flush only.
LEMMA UserFrame ==
  ASSUME HubInv, UNCHANGED <<hub, users, spare, registered>>
  PROVE  UserInv' /\ MapInv' /\ ShareInv'
  <1>1. UserInv'
    BY DEF HubInv, UserInv, hub
  <1>2. MapInv'
    BY DEF HubInv, MapInv, hub
  <1>3. ShareInv'
    BY DEF HubInv, ShareInv, RefOf, Holders, Passed, hub
  <1> QED BY <1>1, <1>2, <1>3

\* Records with some of the fields changed.
LEMMA RecordType ==
  /\ Idle \in Records
  /\ \A i \in Records :
       /\ \A a \in {"no", "checked", "adding"} : [i EXCEPT !.add = a] \in Records
       /\ \A h \in {"none", "open", "detached", "unregistered", "closing"} :
            [i EXCEPT !.handle = h] \in Records
       /\ Settled(i) \in Records
       /\ i.handle # "none" \/ i.add # "no" => Settled(i) = i
       /\ i.handle = "none" /\ i.add = "no" => Settled(i) = Idle
  /\ \A n \in Names, c \in Counters : Opened(n, c) \in Records
  BY DEF Records, Idle, Settled, Opened

LEMMA AddField ==
  ASSUME NEW r \in Records, NEW a \in {"no", "checked", "adding"}
  PROVE  \E i \in Records : /\ i = [r EXCEPT !.add = a] /\ i.name = r.name
                           /\ i.counter = r.counter /\ i.handle = r.handle /\ i.add = a
  <1> DEFINE i == [r EXCEPT !.add = a]
  <1>1. i \in Records
    BY RecordType
  <1>2. i.name = r.name /\ i.counter = r.counter /\ i.handle = r.handle /\ i.add = a
    BY DEF Records
  <1> QED BY <1>1, <1>2

LEMMA HandleField ==
  ASSUME NEW r \in Records,
         NEW h \in {"none", "open", "detached", "unregistered", "closing"}
  PROVE  \E i \in Records : /\ i = [r EXCEPT !.handle = h] /\ i.name = r.name
                           /\ i.counter = r.counter /\ i.handle = h /\ i.add = r.add
  <1> DEFINE i == [r EXCEPT !.handle = h]
  <1>1. i \in Records
    BY RecordType
  <1>2. i.name = r.name /\ i.counter = r.counter /\ i.handle = h /\ i.add = r.add
    BY DEF Records
  <1> QED BY <1>1, <1>2

\* The fields of one user's record.
LEMMA UserType ==
  ASSUME TypeInv, UserInv, NEW u \in Users
  PROVE  /\ users[u] \in Records
         /\ users[u].name \in Names \cup {None} /\ users[u].counter \in Counters \cup {0}
         /\ users[u].name # None => users[u].counter \in Counters
         /\ users[u].handle # "none" \/ users[u].add # "no" => users[u].name \in Names
  <1>1. users[u] \in Records
    BY DEF TypeInv
  <1>2. users[u].name \in Names \cup {None} /\ users[u].counter \in Counters \cup {0}
    BY <1>1 DEF Records
  <1>3. users[u].name # None => users[u].counter # 0
    BY DEF UserInv
  <1>4. users[u].name = None => users[u].handle = "none" /\ users[u].add = "no"
    BY DEF UserInv, Idle
  <1> QED BY <1>1, <1>2, <1>3, <1>4
-----------------------------------------------------------------------------
(* A step of one instance u of the name n that leaves the record i.        *)

\* The other instances see nothing of it.
LEMMA UserChange ==
  ASSUME TypeInv, UserInv, NEW n \in Names, NEW u \in Users, NEW i \in Records,
         users' = [users EXCEPT ![u] = i], users[u].name \in {n, None},
         made' \in Counters \cup {0}, made <= made',
         n \in Tasks => \A v \in Users \ {u} : users[v].name # n,
         \A t \in Tasks \ {n} : spare'[t] = spare[t] /\ registered'[t] = registered[t],
         i = Idle \/
           /\ i.name = n /\ i.counter # 0 /\ i.counter <= made'
           /\ n \in Receivers => i.handle \in {"open", "closing", "none"}
           /\ n \in Tasks =>
                /\ i.handle # "none"
                /\ i.handle \in {"unregistered", "closing"} => i.add = "no"
                /\ i.handle \in {"open", "detached"} => registered'[n] = u
                /\ spare'[n] # 0 => i.handle = "detached"
  PROVE  UserInv'
  <1>1. users'[u] = i /\ \A v \in Users \ {u} : users'[v] = users[v]
    BY DEF TypeInv
  <1>2. None \notin Names
    BY NamesAssumption
  <1>3. i.name \in {n, None}
    BY DEF Idle
  <1>4. SUFFICES ASSUME NEW v \in Users
                 PROVE  LET j == users'[v] IN
                        /\ j.name = None => j = Idle
                        /\ j.name # None => j.counter # 0 /\ j.counter <= made'
                        /\ j.name \in Receivers => j.handle \in {"open", "closing", "none"}
                        /\ j.name \in Tasks =>
                             /\ j.handle # "none"
                             /\ j.handle \in {"unregistered", "closing"} => j.add = "no"
                             /\ j.handle \in {"open", "detached"} => registered'[j.name] = v
                             /\ spare'[j.name] # 0 => j.handle = "detached"
                             /\ \A w \in Users : users'[w].name = j.name => w = v
    BY DEF UserInv
  <1>5. CASE v = u
    <2>1. i = Idle => i.name = None /\ None \notin Receivers \cup Tasks
      BY <1>2 DEF Idle, Names
    <2>2. i # Idle /\ n \in Tasks => \A w \in Users : users'[w].name = n => w = u
      BY <1>1
    <2> QED BY <1>1, <1>2, <1>5, <2>1, <2>2
  <1>6. CASE v # u
    <2>1. PICK j \in Records : j = users[v] /\ j = users'[v]
      BY <1>1, <1>6 DEF TypeInv
    <2>2. /\ j.name = None => j = Idle
          /\ j.name # None => j.counter # 0 /\ j.counter <= made
          /\ j.name \in Receivers => j.handle \in {"open", "closing", "none"}
          /\ j.name \in Tasks =>
               /\ j.handle # "none"
               /\ j.handle \in {"unregistered", "closing"} => j.add = "no"
               /\ j.handle \in {"open", "detached"} => registered[j.name] = v
               /\ spare[j.name] # 0 => j.handle = "detached"
               /\ \A w \in Users : users[w].name = j.name => w = v
      BY <2>1 DEF UserInv
    <2>3. j.name \in Tasks => j.name # n
      BY <2>1, <1>6
    <2>4. j.name \in Tasks => \A w \in Users : users'[w].name = j.name => w = v
      BY <2>2, <2>3, <1>1, <1>2, <1>3 DEF Names
    <2>5. j.counter <= made => j.counter <= made'
      <3>1. j.counter \in Int /\ made \in Int /\ made' \in Int
        BY DEF Records, Counters, TypeInv
      <3> QED BY <3>1
    <2> QED BY <2>1, <2>2, <2>3, <2>4, <2>5
  <1> QED BY <1>5, <1>6

\* Who holds the name's counter after it.
LEMMA HoldersChange ==
  ASSUME TypeInv, NEW n \in Names, NEW u \in Users, NEW i \in Records,
         users' = [users EXCEPT ![u] = i]
  PROVE  /\ Holders(n) \in SUBSET Users
         /\ Holds(users[u], n) <=> u \in Holders(n)
         /\ (Holds(i, n) <=> Holds(users[u], n)) => Holders(n)' = Holders(n)
         /\ Holds(i, n) /\ ~Holds(users[u], n) =>
              /\ Holders(n)' = Holders(n) \cup {u}
              /\ Cardinality(Holders(n)') = Cardinality(Holders(n)) + 1
         /\ ~Holds(i, n) /\ Holds(users[u], n) =>
              /\ Holders(n)' = Holders(n) \ {u}
              /\ Cardinality(Holders(n)') = Cardinality(Holders(n)) - 1
  <1>1. \A v \in Users : users'[v] = IF v = u THEN i ELSE users[v]
    BY DEF TypeInv
  <1>2. Holders(n) \in SUBSET Users /\ (Holds(users[u], n) <=> u \in Holders(n))
    BY DEF Holders
  <1>3. \A v \in Users : v \in Holders(n)' <=> IF v = u THEN Holds(i, n) ELSE v \in Holders(n)
    BY <1>1 DEF Holders
  <1>4. Holders(n)' \in SUBSET Users
    BY DEF Holders
  <1>5. (Holds(i, n) <=> Holds(users[u], n)) => Holders(n)' = Holders(n)
    BY <1>2, <1>3, <1>4
  <1>6. Holds(i, n) /\ ~Holds(users[u], n) => Holders(n)' = Holders(n) \cup {u}
    BY <1>2, <1>3, <1>4
  <1>7. ~Holds(i, n) /\ Holds(users[u], n) => Holders(n)' = Holders(n) \ {u}
    BY <1>2, <1>3, <1>4
  <1>8. Holds(i, n) /\ ~Holds(users[u], n) =>
          Cardinality(Holders(n)') = Cardinality(Holders(n)) + 1
    BY <1>2, <1>6, OneMore
  <1>9. ~Holds(i, n) /\ Holds(users[u], n) =>
          Cardinality(Holders(n)') = Cardinality(Holders(n)) - 1
    BY <1>2, <1>7, OneLess
  <1> QED BY <1>2, <1>5, <1>6, <1>7, <1>8, <1>9

\* The references of the other names stay what they were.
LEMMA ShareChange ==
  ASSUME TypeInv, ShareInv, NEW n \in Names, NEW u \in Users, NEW i \in Records,
         users' = [users EXCEPT ![u] = i], users[u].name \in {n, None}, i.name \in {n, None},
         \A m \in Names \ {n} : counters'[m] = counters[m] /\ RefOf(m)' = RefOf(m),
         \A t \in Tasks \ {n} : spare'[t] = spare[t],
         RefOf(n)' = Cardinality(Holders(n)') + Passed(n)',
         \A v \in Holders(n)' : users'[v].counter = counters'[n],
         Passed(n)' = 1 => spare'[n] = counters'[n]
  PROVE  ShareInv'
  <1>1. None \notin Names
    BY NamesAssumption
  <1>2. SUFFICES ASSUME NEW m \in Names \ {n}
                 PROVE  /\ RefOf(m)' = Cardinality(Holders(m)') + Passed(m)'
                        /\ \A v \in Holders(m)' : users'[v].counter = counters'[m]
                        /\ Passed(m)' = 1 => spare'[m] = counters'[m]
    BY DEF ShareInv
  <1>3. ~Holds(i, m) /\ ~Holds(users[u], m)
    BY <1>1 DEF Holds
  <1>4. Holders(m)' = Holders(m) /\ u \notin Holders(m)
    BY <1>3, HoldersChange
  <1>5. Passed(m)' = Passed(m)
    BY DEF Passed
  <1>6. \A v \in Holders(m) : users'[v] = users[v]
    BY <1>4 DEF Holders, TypeInv
  <1>7. Passed(m)' = 1 => spare'[m] = spare[m]
    BY DEF Passed
  <1> QED BY <1>4, <1>5, <1>6, <1>7 DEF ShareInv

\* It changes no sample that is being added.
LEMMA AddingKept ==
  ASSUME TypeInv, NEW u \in Users, NEW i \in Records, users' = [users EXCEPT ![u] = i],
         NEW c \in Counters,
         (i.counter = c /\ i.add = "adding") <=> (users[u].counter = c /\ users[u].add = "adding")
  PROVE  Adding(c)' = Adding(c)
  <1>1. \A v \in Users : users'[v] = IF v = u THEN i ELSE users[v]
    BY DEF TypeInv
  <1> QED BY <1>1 DEF Adding
-----------------------------------------------------------------------------
(* The initial state.                                                      *)

LEMMA HubInit == Init => HubInv
  <1> SUFFICES ASSUME Init PROVE HubInv
    OBVIOUS
  <1>1. MaxCounters \in Nat /\ Sample \in Nat \ {0} /\ None \notin Names
    BY BoundsAssumption, NamesAssumption
  <1>2. TypeInv
    BY RecordType DEF Init, TypeInv
  <1>3. UserInv
    BY <1>1 DEF Init, UserInv, Idle, Names
  <1>4. MapInv
    BY DEF Init, MapInv
  <1>5. ShareInv
    <2>1. \A n \in Names : Holders(n) = {}
      BY DEF Init, Holders, Holds, Idle
    <2>2. \A n \in Names : RefOf(n) = 0 /\ Passed(n) = 0
      BY DEF Init, RefOf, Passed
    <2> QED BY <2>1, <2>2, FS_EmptySet DEF ShareInv
  <1>6. SampleInv
    <2>1. \A c \in Counters : Adding(c) = {}
      BY DEF Init, Adding, Idle
    <2>2. PICK m \in Nat \ {0} : m = Sample
      BY <1>1
    <2>3. 0 \div m = 0
      OBVIOUS
    <2>4. m * (0 - 0) = 0
      OBVIOUS
    <2>5. Cardinality({}) = 0
      BY FS_EmptySet
    <2>6. \A c \in Counters : packets[c] = 0 /\ seen[c] = 0 /\ last[c] = 0
      BY DEF Init
    <2>7. Sample * (0 \div Sample - Cardinality({})) = 0
      BY <2>2, <2>3, <2>4, <2>5
    <2> QED BY <2>1, <2>6, <2>7 DEF SampleInv
  <1>7. FlushInv
    BY DEF Init, FlushInv
  <1>8. SenderInv
    BY NamesAssumption DEF Init, SenderInv
  <1> QED BY <1>2, <1>3, <1>4, <1>5, <1>6, <1>7, <1>8 DEF HubInv
-----------------------------------------------------------------------------
(* Steps that start an instance.                                           *)

\* A new instance that gets its handle from acquire is one more holder.
LEMMA AcquireShare ==
  ASSUME TypeInv, UserInv, MapInv, ShareInv, NEW n \in Names, NEW u \in Users,
         NEW c, c = Acquired(n), acquire(n), users[u] = Idle,
         users' = [users EXCEPT ![u] = Opened(n, c)],
         Passed(n) = 0, Passed(n)' = 0, \A t \in Tasks \ {n} : spare'[t] = spare[t]
  PROVE  /\ IsAcquired(n, c) /\ c # 0 /\ Opened(n, c) \in Records
         /\ ShareInv'
  <1> DEFINE i == Opened(n, c)
  <1>1. None \notin Names
    BY NamesAssumption
  <1>2. IsAcquired(n, c)
    BY AcquireEffect
  <1>3. /\ c \in Counters /\ counters' = [counters EXCEPT ![n] = c]
        /\ counters[n] # 0 => c = counters[n]
        /\ RefOf(n)' = RefOf(n) + 1
        /\ \A m \in Names \ {n} : RefOf(m)' = RefOf(m)
    BY <1>2 DEF IsAcquired
  <1>4. i \in Records /\ i.name = n /\ i.counter = c /\ i.handle = "open"
    BY <1>3, RecordType DEF Opened
  <1>5. c # 0 /\ users[u].name = None
    BY <1>3 DEF Counters, Idle
  <1> HIDE DEF i
  <1>6. Holds(i, n) /\ ~Holds(users[u], n)
    BY <1>1, <1>4, <1>5 DEF Holds
  <1>7. /\ Holders(n)' = Holders(n) \cup {u} /\ Holders(n) \in SUBSET Users
        /\ Cardinality(Holders(n)') = Cardinality(Holders(n)) + 1
        /\ u \notin Holders(n)
    BY <1>4, <1>6, HoldersChange DEF i
  <1>8. RefOf(n)' = Cardinality(Holders(n)') + Passed(n)'
    <2>1. RefOf(n) = Cardinality(Holders(n)) + Passed(n)
      BY DEF ShareInv
    <2>2. Cardinality(Holders(n)) \in Nat
      BY <1>7, UserSets
    <2> QED BY <1>3, <1>7, <2>1, <2>2
  <1>9. counters'[n] = c /\ \A m \in Names \ {n} : counters'[m] = counters[m]
    BY <1>3 DEF TypeInv
  <1>10. \A v \in Holders(n)' : users'[v].counter = counters'[n]
    <2>1. \A v \in Holders(n) : users[v].counter = counters[n]
      BY DEF ShareInv
    <2>2. \A v \in Holders(n) : users[v].counter # 0
      <3>1. \A v \in Holders(n) : v \in Users /\ users[v].name # None
        BY <1>1 DEF Holders, Holds
      <3> QED BY <3>1 DEF UserInv
    <2>3. \A v \in Holders(n) : users'[v].counter = users[v].counter
      BY <1>7 DEF TypeInv, i
    <2>4. users'[u].counter = c
      BY <1>4 DEF TypeInv, i
    <2> QED BY <1>3, <1>7, <1>9, <2>1, <2>2, <2>3, <2>4
  <1>11. ShareInv'
    <2>1. users[u].name \in {n, None} /\ i.name \in {n, None}
      BY <1>4, <1>5
    <2>2. Passed(n)' = 1 => spare'[n] = counters'[n]
      OBVIOUS
    <2>3. \A m \in Names \ {n} : counters'[m] = counters[m] /\ RefOf(m)' = RefOf(m)
      BY <1>3, <1>9
    <2>4. users' = [users EXCEPT ![u] = i]
      BY DEF i
    <2>5. \A t \in Tasks \ {n} : spare'[t] = spare[t]
      OBVIOUS
    <2>6. i \in Records
      BY <1>4
    <2> QED BY <1>8, <1>10, <2>1, <2>2, <2>3, <2>4, <2>5, <2>6, ShareChange
  <1> QED BY <1>2, <1>4, <1>5, <1>11 DEF i

LEMMA StartReceiverStep ==
  ASSUME HubInv, NEW u \in Users, NEW n \in Receivers, StartReceiver(u, n)
  PROVE  HubInv'
  <1>0. PICK c : c = Acquired(n)
    OBVIOUS
  <1> DEFINE i == Opened(n, c)
  <1>1. /\ users[u] = Idle /\ acquire(n) /\ users' = [users EXCEPT ![u] = i]
        /\ UNCHANGED <<counts, spare, registered, throughout, sending, summary>>
    BY <1>0 DEF StartReceiver
  <1>2. TypeInv /\ UserInv /\ MapInv /\ ShareInv /\ SampleInv /\ FlushInv /\ SenderInv
    BY DEF HubInv
  <1>3. n \in Names /\ n \notin Tasks /\ None \notin Names
    BY NamesAssumption DEF Names
  <1>4. Passed(n) = 0 /\ Passed(n)' = 0 /\ \A t \in Tasks \ {n} : spare'[t] = spare[t]
    BY <1>1, <1>3 DEF Passed
  <1>5. /\ IsAcquired(n, c) /\ c # 0 /\ i \in Records
        /\ ShareInv'
    BY <1>0, <1>1, <1>2, <1>3, <1>4, AcquireShare
  <1>6. /\ c \in Counters /\ c <= made' /\ made <= made' /\ made' \in Counters \cup {0}
        /\ counters' \in [Names -> Counters \cup {0}] /\ refs' \in [Counters -> Int]
        /\ MapInv'
    BY <1>5 DEF IsAcquired
  <1>7. i.name = n /\ i.counter = c /\ i.handle = "open" /\ i.add = "no"
    BY DEF Opened
  <1>8. users[u].name = None /\ users[u].add = "no"
    BY <1>1 DEF Idle
  <1> HIDE DEF i
  <1>9. TypeInv'
    BY <1>1, <1>2, <1>5, <1>6 DEF TypeInv, counts, sending, summary
  <1>10. UserInv'
    <2>1. \A t \in Tasks \ {n} : spare'[t] = spare[t] /\ registered'[t] = registered[t]
      BY <1>1
    <2> QED BY <1>1, <1>2, <1>3, <1>5, <1>6, <1>7, <1>8, <2>1, UserChange
  <1>11. SampleInv'
    <2>1. users \in [Users -> Records] /\ users[u].add # "adding" /\ i.add # "adding"
      BY <1>2, <1>7, <1>8 DEF TypeInv
    <2>2. UNCHANGED counts
      BY <1>1
    <2> QED BY <1>1, <1>2, <1>5, <2>1, <2>2, SampleFrame
  <1>12. FlushInv' /\ SenderInv'
    BY <1>1, <1>2, FlushFrame, SenderFrame
  <1> QED BY <1>5, <1>6, <1>9, <1>10, <1>11, <1>12 DEF HubInv

\* The first handle of a task, or the one its last instance has left.
LEMMA StartTaskStep ==
  ASSUME HubInv, NEW u \in Users, NEW t \in Tasks, StartTask(u, t)
  PROVE  HubInv'
  <1>1. /\ users[u] = Idle /\ \A v \in Users : users[v].name # t
        /\ \/ spare[t] # 0 /\ UNCHANGED hub /\ users' = [users EXCEPT ![u] = Opened(t, spare[t])]
           \/ spare[t] = 0 /\ acquire(t) /\ users' = [users EXCEPT ![u] = Opened(t, Acquired(t))]
        /\ spare' = [spare EXCEPT ![t] = 0] /\ registered' = [registered EXCEPT ![t] = u]
        /\ UNCHANGED <<counts, throughout, sending, summary>>
    BY DEF StartTask, RegisterTaskRuntimeStats
  <1>2. TypeInv /\ UserInv /\ MapInv /\ ShareInv /\ SampleInv /\ FlushInv /\ SenderInv
    BY DEF HubInv
  <1>3. t \in Names /\ t \notin Receivers /\ None \notin Names /\ None \notin Users
    BY NamesAssumption DEF Names
  <1>4. /\ spare'[t] = 0 /\ \A k \in Tasks \ {t} : spare'[k] = spare[k]
        /\ registered'[t] = u /\ \A k \in Tasks \ {t} : registered'[k] = registered[k]
        /\ Passed(t)' = 0
    BY <1>1, <1>2 DEF TypeInv, Passed
  <1>5. PICK c : /\ users' = [users EXCEPT ![u] = Opened(t, c)]
                 /\ \/ spare[t] # 0 /\ UNCHANGED hub /\ c = spare[t]
                    \/ spare[t] = 0 /\ acquire(t) /\ c = Acquired(t)
    BY <1>1
  <1> DEFINE i == Opened(t, c)
  <1>6. /\ c # 0 /\ i \in Records /\ c \in Counters /\ c <= made' /\ made <= made'
        /\ made' \in Counters \cup {0} /\ counters' \in [Names -> Counters \cup {0}]
        /\ refs' \in [Counters -> Int] /\ MapInv' /\ ShareInv'
    <2>1. CASE spare[t] = 0 /\ acquire(t) /\ c = Acquired(t)
      <3>1. Passed(t) = 0
        BY <2>1 DEF Passed
      <3>2. IsAcquired(t, c) /\ c # 0 /\ i \in Records /\ ShareInv'
        BY <1>1, <1>2, <1>3, <1>4, <1>5, <2>1, <3>1, AcquireShare
      <3> QED BY <3>2 DEF IsAcquired
    <2>2. CASE spare[t] # 0 /\ UNCHANGED hub /\ c = spare[t]
      <3>1. Passed(t) = 1
        BY <2>2 DEF Passed
      <3>2. c = counters[t] /\ RefOf(t) = Cardinality(Holders(t)) + 1
        BY <1>2, <1>3, <2>2, <3>1 DEF ShareInv
      <3>3. c \in Counters /\ c # 0 /\ UNCHANGED <<counters, made, refs>>
        BY <1>2, <2>2 DEF TypeInv, hub
      <3>4. i \in Records /\ i.name = t /\ i.counter = c /\ i.handle = "open"
        BY <1>3, <3>3, RecordType DEF Opened
      <3>5. c <= made /\ MapInv'
        BY <1>2, <1>3, <3>2, <3>3 DEF MapInv
      <3>6. Holds(i, t) /\ ~Holds(users[u], t)
        BY <1>1, <3>4 DEF Holds
      <3>7. /\ Holders(t)' = Holders(t) \cup {u} /\ Holders(t) \in SUBSET Users
            /\ Cardinality(Holders(t)') = Cardinality(Holders(t)) + 1
        BY <1>2, <1>3, <1>5, <3>4, <3>6, HoldersChange
      <3>8. Holders(t) = {}
        BY <1>1 DEF Holders, Holds
      <3>9. users'[u].counter = c
        BY <1>2, <1>5, <3>4 DEF TypeInv
      <3>10. RefOf(t)' = Cardinality(Holders(t)') + Passed(t)'
        <4>1. RefOf(t)' = RefOf(t)
          BY <3>3 DEF RefOf
        <4>2. Cardinality(Holders(t)) \in Nat
          BY <3>7, UserSets
        <4> QED BY <1>4, <3>2, <3>7, <4>1, <4>2
      <3>11. ShareInv'
        <4>1. \A m \in Names \ {t} : counters'[m] = counters[m] /\ RefOf(m)' = RefOf(m)
          BY <3>3 DEF RefOf
        <4>2. \A v \in Holders(t)' : users'[v].counter = counters'[t]
          BY <3>2, <3>3, <3>7, <3>8, <3>9
        <4>3. users[u].name \in {t, None} /\ i.name \in {t, None}
          BY <1>1, <3>4 DEF Idle
        <4>4. Passed(t)' = 1 => spare'[t] = counters'[t]
          BY <1>4
        <4> HIDE DEF i
        <4>5. users' = [users EXCEPT ![u] = i]
          BY <1>5 DEF i
        <4> QED BY <1>2, <1>3, <1>4, <3>4, <3>10, <4>1, <4>2, <4>3, <4>4, <4>5, ShareChange
      <3>12. made <= made
        BY <1>2 DEF TypeInv, Counters
      <3> QED BY <1>2, <3>3, <3>4, <3>5, <3>11, <3>12 DEF TypeInv
    <2> QED BY <1>5, <2>1, <2>2
  <1>7. i.name = t /\ i.counter = c /\ i.handle = "open" /\ i.add = "no"
    BY DEF Opened
  <1>8. users[u].name = None /\ users[u].add = "no" /\ users' = [users EXCEPT ![u] = i]
    BY <1>1, <1>5 DEF Idle
  <1> HIDE DEF i
  <1>9. TypeInv'
    <2>1. spare' \in [Tasks -> Counters \cup {0}] /\ registered' \in [Tasks -> Users \cup {None}]
      BY <1>1, <1>2 DEF TypeInv
    <2> QED BY <1>1, <1>2, <1>6, <1>8, <2>1 DEF TypeInv, counts, sending, summary
  <1>10. UserInv'
    <2>1. \A v \in Users \ {u} : users[v].name # t
      BY <1>1
    <2> QED BY <1>2, <1>3, <1>4, <1>6, <1>7, <1>8, <2>1, UserChange
  <1>11. SampleInv'
    <2>1. users \in [Users -> Records] /\ users[u].add # "adding" /\ i.add # "adding"
      BY <1>2, <1>7, <1>8 DEF TypeInv
    <2>2. UNCHANGED counts
      BY <1>1
    <2> QED BY <1>2, <1>6, <1>8, <2>1, <2>2, SampleFrame
  <1>12. FlushInv'
    <2>1. \A k \in Tasks : registered[k] # None => registered'[k] # None
      BY <1>3, <1>4
    <2>2. throughout \subseteq Tasks
      BY <1>2 DEF TypeInv
    <2> QED BY <1>1, <1>2, <2>1, <2>2 DEF FlushInv, summary
  <1>13. SenderInv'
    BY <1>1, <1>2, SenderFrame
  <1> QED BY <1>6, <1>9, <1>10, <1>11, <1>12, <1>13 DEF HubInv
-----------------------------------------------------------------------------
(* AddBytes and Close.                                                     *)

\* The name of an instance that has a handle or is in AddBytes, what the invariant
\* says of it, and the facts that most steps need.
LEMMA OwnName ==
  ASSUME HubInv, NEW u \in Users, users[u].handle # "none" \/ users[u].add # "no"
  PROVE  /\ users[u] \in Records /\ users[u].name \in Names /\ users[u].counter \in Counters
         /\ users[u].counter # 0 /\ users[u].counter <= made /\ made \in Counters \cup {0}
         /\ made <= made
         /\ users[u].name \in Receivers => users[u].handle \in {"open", "closing", "none"}
         /\ users[u].name \in Tasks =>
              /\ users[u].handle # "none"
              /\ users[u].handle \in {"unregistered", "closing"} => users[u].add = "no"
              /\ users[u].handle \in {"open", "detached"} => registered[users[u].name] = u
              /\ spare[users[u].name] # 0 => users[u].handle = "detached"
              /\ \A v \in Users \ {u} : users[v].name # users[u].name
  <1>1. TypeInv /\ UserInv
    BY DEF HubInv
  <1>2. /\ users[u] \in Records /\ users[u].name \in Names
        /\ users[u].name # None /\ users[u].counter \in Counters
    BY <1>1, UserType, NamesAssumption
  <1>3. made \in Counters \cup {0} /\ made <= made
    BY <1>1 DEF TypeInv, Counters
  <1> QED BY <1>1, <1>2, <1>3 DEF UserInv

\* Steps that keep who holds and who adds.
LEMMA QuietStep ==
  ASSUME HubInv, NEW u \in Users, NEW i \in Records, users' = [users EXCEPT ![u] = i],
         users[u].handle # "none" \/ users[u].add # "no",
         i.name = users[u].name, i.counter = users[u].counter,
         i.handle = users[u].handle
           \/ (/\ users[u].handle \in {"open", "unregistered"} /\ i.handle = "closing"
               /\ i.name \in Tasks => users[u].handle = "unregistered" /\ i.add = "no"),
         i.name \in Tasks /\ i.add # "no" => i.handle \in {"open", "detached"},
         \/ users[u].add # "adding" /\ i.add # "adding"
         \/ users[u].add = i.add,
         UNCHANGED <<hub, counts, spare, registered, throughout, sending, summary>>
  PROVE  HubInv'
  <1>1. TypeInv /\ UserInv /\ MapInv /\ ShareInv /\ SampleInv /\ FlushInv /\ SenderInv
    BY DEF HubInv
  <1>2. PICK n \in Names : n = users[u].name
    BY OwnName
  <1>3. /\ UNCHANGED <<counters, made, refs, spare, registered>> /\ UNCHANGED counts
        /\ UNCHANGED <<summary, registered, throughout>> /\ UNCHANGED sending
        /\ UNCHANGED <<hub, spare>>
    BY DEF hub
  <1>4. TypeInv'
    BY <1>1, <1>3 DEF TypeInv, counts, sending, summary
  <1>5. UserInv'
    <2>1. /\ i.name = n /\ i.counter # 0 /\ i.counter <= made'
          /\ n \in Receivers => i.handle \in {"open", "closing", "none"}
          /\ n \in Tasks =>
               /\ i.handle # "none"
               /\ i.handle \in {"unregistered", "closing"} => i.add = "no"
               /\ i.handle \in {"open", "detached"} => registered'[n] = u
               /\ spare'[n] # 0 => i.handle = "detached"
      BY <1>2, <1>3, OwnName
    <2>2. made' \in Counters \cup {0} /\ made <= made'
      BY <1>3, OwnName
    <2>3. n \in Tasks => \A v \in Users \ {u} : users[v].name # n
      BY <1>2, OwnName
    <2>4. \A t \in Tasks \ {n} : spare'[t] = spare[t] /\ registered'[t] = registered[t]
      BY <1>3
    <2>5. users[u].name \in {n, None}
      BY <1>2
    <2> QED BY <1>1, <2>1, <2>2, <2>3, <2>4, <2>5, UserChange
  <1>6. MapInv'
    BY <1>1, <1>3 DEF MapInv
  <1>7. users \in [Users -> Records]
    BY <1>1 DEF TypeInv
  <1>8. ShareInv'
    <2>1. \A m \in Names : /\ Holds(i, m) <=> Holds(users[u], m)
                           /\ Holds(i, m) => i.counter = users[u].counter
      BY DEF Holds
    <2> QED BY <1>1, <1>3, <1>7, <2>1, ShareFrame
  <1>9. SampleInv'
    BY <1>1, <1>3, <1>7, SampleFrame
  <1>10. FlushInv' /\ SenderInv'
    BY <1>1, <1>3, FlushFrame, SenderFrame
  <1> QED BY <1>4, <1>5, <1>6, <1>8, <1>9, <1>10 DEF HubInv

LEMMA AddBeginStep ==
  ASSUME HubInv, NEW u \in Users, AddBegin(u)
  PROVE  HubInv'
  <1>1. /\ users[u].handle = "open" /\ users[u].add = "no"
        /\ users' = [users EXCEPT ![u] = [users[u] EXCEPT !.add = "checked"]]
        /\ UNCHANGED <<hub, counts, spare, registered, throughout, sending, summary>>
    BY DEF AddBegin
  <1>2. users[u] \in Records
    BY <1>1, OwnName
  <1>3. PICK i \in Records : /\ i = [users[u] EXCEPT !.add = "checked"]
                             /\ i.name = users[u].name /\ i.counter = users[u].counter
                             /\ i.handle = users[u].handle /\ i.add = "checked"
    BY <1>2, AddField
  <1> QED BY <1>1, <1>3, QuietStep

LEMMA CloseBeginStep ==
  ASSUME HubInv, NEW u \in Users, CloseBegin(u)
  PROVE  HubInv'
  <1>1. /\ users[u].handle = (IF users[u].name \in Tasks THEN "unregistered" ELSE "open")
        /\ users' = [users EXCEPT ![u] = [users[u] EXCEPT !.handle = "closing"]]
        /\ UNCHANGED <<hub, counts, spare, registered, throughout, sending, summary>>
    BY DEF CloseBegin
  <1>2. users[u].handle # "none"
    BY <1>1
  <1>3. /\ users[u] \in Records
        /\ users[u].name \in Tasks => users[u].add = "no"
    BY <1>1, <1>2, OwnName
  <1>4. PICK i \in Records : /\ i = [users[u] EXCEPT !.handle = "closing"]
                             /\ i.name = users[u].name /\ i.counter = users[u].counter
                             /\ i.handle = "closing" /\ i.add = users[u].add
    BY <1>3, HandleField
  <1> QED BY <1>1, <1>2, <1>3, <1>4, QuietStep

\* Steps of AddBytes that count: the user leaves the record i, settled if it was the
\* last of a closed handle.
LEMMA CountStep ==
  ASSUME HubInv, NEW u \in Users, users[u].add # "no", NEW a \in {"no", "adding"},
         NEW d, d = users[u].counter,
         users' = [users EXCEPT ![u] = Settled([users[u] EXCEPT !.add = a])],
         UNCHANGED <<hub, last, spare, registered, throughout, sending, summary>>,
         seen' \in [Counters -> Nat], packets' \in [Counters -> Int]
  PROVE  /\ TypeInv' /\ UserInv' /\ MapInv' /\ ShareInv' /\ FlushInv' /\ SenderInv'
         /\ \A c \in Counters : c # d => Adding(c)' = Adding(c)
         /\ u \in Adding(d)' <=> a = "adding"
         /\ \A v \in Users \ {u} : v \in Adding(d)' <=> v \in Adding(d)
  <1>1. TypeInv /\ UserInv /\ MapInv /\ ShareInv /\ SampleInv /\ FlushInv /\ SenderInv
    BY DEF HubInv
  <1>2. users[u] \in Records
    BY OwnName
  <1>2a. PICK j : j = [users[u] EXCEPT !.add = a]
    OBVIOUS
  <1>3. /\ j \in Records /\ j.name = users[u].name /\ j.counter = users[u].counter
        /\ j.handle = users[u].handle /\ j.add = a
    BY <1>2a, <1>2 DEF Records
  <1>3a. PICK i : i = Settled(j)
    OBVIOUS
  <1>4. /\ i \in Records
        /\ i = j \/ (i = Idle /\ j.handle = "none" /\ j.add = "no")
    BY <1>3, <1>3a, RecordType
  <1>5. users' = [users EXCEPT ![u] = i]
    BY <1>2a, <1>3a
  <1>6. PICK n \in Names : n = users[u].name
    BY OwnName
  <1>7. /\ UNCHANGED <<counters, made, refs, spare, registered, last>>
        /\ UNCHANGED <<summary, registered, throughout>> /\ UNCHANGED sending
        /\ UNCHANGED <<hub, spare>>
    BY DEF hub
  <1>8. TypeInv'
    BY <1>1, <1>4, <1>5, <1>7 DEF TypeInv, sending, summary
  <1>9. UserInv'
    <2>1. i = j =>
            /\ i.name = n /\ i.counter # 0 /\ i.counter <= made'
            /\ n \in Receivers => i.handle \in {"open", "closing", "none"}
            /\ n \in Tasks =>
                 /\ i.handle # "none"
                 /\ i.handle \in {"unregistered", "closing"} => i.add = "no"
                 /\ i.handle \in {"open", "detached"} => registered'[n] = u
                 /\ spare'[n] # 0 => i.handle = "detached"
      BY <1>3, <1>6, <1>7, OwnName
    <2>2. made' \in Counters \cup {0} /\ made <= made'
      BY <1>7, OwnName
    <2>3. n \in Tasks => \A v \in Users \ {u} : users[v].name # n
      BY <1>6, OwnName
    <2>4. \A t \in Tasks \ {n} : spare'[t] = spare[t] /\ registered'[t] = registered[t]
      BY <1>7
    <2>5. users[u].name \in {n, None}
      BY <1>6
    <2>6. i = Idle \/ i = j
      BY <1>4
    <2> QED BY <1>1, <1>4, <1>5, <2>1, <2>2, <2>3, <2>4, <2>5, <2>6, UserChange
  <1>10. MapInv'
    BY <1>1, <1>7 DEF MapInv
  <1>11. ShareInv'
    <2>1. \A m \in Names : /\ Holds(i, m) <=> Holds(users[u], m)
                           /\ Holds(i, m) => i.counter = users[u].counter
      <3>1. i = Idle => i.handle = "none"
        BY DEF Idle
      <3> QED BY <1>3, <1>4, <3>1 DEF Holds
    <2>2. users \in [Users -> Records]
      BY <1>1 DEF TypeInv
    <2> QED BY <1>1, <1>4, <1>5, <1>7, <2>1, <2>2, ShareFrame
  <1>12. FlushInv' /\ SenderInv'
    BY <1>1, <1>7, FlushFrame, SenderFrame
  <1>13. /\ i.add = a
         /\ a = "adding" => i.counter = users[u].counter
    <2>1. i = Idle => i.add = "no"
      BY DEF Idle
    <2> QED BY <1>3, <1>4, <2>1
  <1>14. \A v \in Users : users'[v] = IF v = u THEN i ELSE users[v]
    BY <1>1, <1>5 DEF TypeInv
  <1>15. \A c \in Counters : c # d => Adding(c)' = Adding(c)
    BY <1>13, <1>14 DEF Adding
  <1>16. u \in Adding(d)' <=> a = "adding"
    <2>1. users'[u] = i
      BY <1>14
    <2> QED BY <1>13, <2>1 DEF Adding
  <1>17. \A v \in Users \ {u} : v \in Adding(d)' <=> v \in Adding(d)
    BY <1>14 DEF Adding
  <1> QED BY <1>8, <1>9, <1>10, <1>11, <1>12, <1>15, <1>16, <1>17

LEMMA AddSeenStep ==
  ASSUME HubInv, NEW u \in Users, AddSeen(u)
  PROVE  HubInv'
  <1>1. users[u].add = "checked" /\ users[u].counter \in Counters
    BY OwnName DEF AddSeen
  <1>2. PICK c \in Counters : c = users[u].counter
    BY <1>1
  <1>3. PICK a \in {"no", "adding"} : a = IF Hit(seen[c] + 1) THEN "adding" ELSE "no"
    OBVIOUS
  <1>4. /\ seen' = [seen EXCEPT ![c] = @ + 1]
        /\ users' = [users EXCEPT ![u] = Settled([users[u] EXCEPT !.add = a])]
        /\ UNCHANGED <<hub, packets, last, spare, registered, throughout, sending, summary>>
    BY <1>2, <1>3 DEF AddSeen
  <1>5. TypeInv /\ SampleInv
    BY DEF HubInv
  <1>6. seen' \in [Counters -> Nat] /\ packets' \in [Counters -> Int]
    BY <1>4, <1>5 DEF TypeInv
  <1>7. /\ TypeInv' /\ UserInv' /\ MapInv' /\ ShareInv' /\ FlushInv' /\ SenderInv'
        /\ \A d \in Counters : d # c => Adding(d)' = Adding(d)
        /\ u \in Adding(c)' <=> a = "adding"
        /\ \A v \in Users \ {u} : v \in Adding(c)' <=> v \in Adding(c)
    BY <1>1, <1>2, <1>3, <1>4, <1>6, CountStep
  <1>8. /\ Adding(c) \in SUBSET Users /\ Adding(c)' \in SUBSET Users /\ u \notin Adding(c)
    BY <1>1 DEF Adding
  <1>9. PICK n \in Nat : n = Cardinality(Adding(c))
    BY <1>8, UserSets
  <1>10. Cardinality(Adding(c)') = IF a = "adding" THEN n + 1 ELSE n
    <2>1. CASE a = "adding"
      <3>1. Adding(c)' = Adding(c) \cup {u}
        BY <1>7, <1>8, <2>1
      <3> QED BY <1>8, <1>9, <2>1, <3>1, OneMore
    <2>2. CASE a # "adding"
      <3>1. Adding(c)' = Adding(c)
        BY <1>7, <1>8, <2>2
      <3> QED BY <1>9, <2>2, <3>1
    <2> QED BY <2>1, <2>2
  <1>11. PICK x \in Nat : x = seen[c]
    BY <1>5 DEF TypeInv
  <1>12. PICK p \in Nat : p = x \div Sample
    BY <1>11, Groups
  <1>13. (x + 1) \div Sample = IF a = "adding" THEN p + 1 ELSE p
    BY <1>3, <1>11, <1>12, Groups
  <1>14. packets[c] = Sample * (p - n) /\ last[c] <= packets[c]
    BY <1>5, <1>9, <1>11, <1>12 DEF SampleInv
  <1>15. seen'[c] = x + 1 /\ \A d \in Counters \ {c} : seen'[d] = seen[d]
    BY <1>4, <1>5, <1>11 DEF TypeInv
  <1>16. seen'[c] \div Sample - Cardinality(Adding(c)') = p - n
    BY <1>10, <1>13, <1>15
  <1>17. SampleInv'
    <2>1. packets'[c] = Sample * (seen'[c] \div Sample - Cardinality(Adding(c)'))
      BY <1>4, <1>14, <1>16
    <2>2. \A d \in Counters \ {c} :
            packets'[d] = Sample * (seen'[d] \div Sample - Cardinality(Adding(d)'))
      BY <1>4, <1>5, <1>7, <1>15 DEF SampleInv
    <2>3. \A d \in Counters : last'[d] <= packets'[d]
      BY <1>4, <1>5 DEF SampleInv
    <2> QED BY <2>1, <2>2, <2>3 DEF SampleInv
  <1> QED BY <1>7, <1>17 DEF HubInv

LEMMA AddPacketsStep ==
  ASSUME HubInv, NEW u \in Users, AddPackets(u)
  PROVE  HubInv'
  <1>1. users[u].add = "adding" /\ users[u].counter \in Counters
    BY OwnName DEF AddPackets
  <1>2. PICK c \in Counters : c = users[u].counter
    BY <1>1
  <1>3. /\ packets' = [packets EXCEPT ![c] = @ + Sample]
        /\ users' = [users EXCEPT ![u] = Settled([users[u] EXCEPT !.add = "no"])]
        /\ UNCHANGED <<hub, seen, last, spare, registered, throughout, sending, summary>>
    BY <1>2 DEF AddPackets
  <1>4. TypeInv /\ SampleInv
    BY DEF HubInv
  <1>5. PICK m \in Nat : m = Sample
    BY BoundsAssumption
  <1>6. seen' \in [Counters -> Nat] /\ packets' \in [Counters -> Int]
    BY <1>3, <1>4, <1>5 DEF TypeInv
  <1>7. /\ TypeInv' /\ UserInv' /\ MapInv' /\ ShareInv' /\ FlushInv' /\ SenderInv'
        /\ \A d \in Counters : d # c => Adding(d)' = Adding(d)
        /\ u \notin Adding(c)'
        /\ \A v \in Users \ {u} : v \in Adding(c)' <=> v \in Adding(c)
    BY <1>1, <1>2, <1>3, <1>6, CountStep
  <1>8. /\ Adding(c) \in SUBSET Users /\ Adding(c)' \in SUBSET Users /\ u \in Adding(c)
    BY <1>1, <1>2 DEF Adding
  <1>9. PICK n \in Nat : n = Cardinality(Adding(c))
    BY <1>8, UserSets
  <1>10. Cardinality(Adding(c)') = n - 1
    <2>1. Adding(c)' = Adding(c) \ {u}
      BY <1>7, <1>8
    <2> QED BY <1>8, <1>9, <2>1, OneLess
  <1>11. PICK p \in Nat : p = seen[c] \div Sample
    BY <1>4, Groups DEF TypeInv
  <1>12. packets[c] = m * (p - n) /\ last[c] <= packets[c]
    BY <1>4, <1>5, <1>9, <1>11 DEF SampleInv
  <1>13. packets'[c] = packets[c] + m /\ \A d \in Counters \ {c} : packets'[d] = packets[d]
    BY <1>3, <1>4, <1>5 DEF TypeInv
  <1>14. m * (p - n) + m = m * (p - (n - 1))
    OBVIOUS
  <1>15. SampleInv'
    <2>1. packets'[c] = Sample * (seen'[c] \div Sample - Cardinality(Adding(c)'))
      BY <1>3, <1>5, <1>10, <1>11, <1>12, <1>13, <1>14
    <2>2. \A d \in Counters \ {c} :
            packets'[d] = Sample * (seen'[d] \div Sample - Cardinality(Adding(d)'))
      BY <1>3, <1>4, <1>7, <1>13 DEF SampleInv
    <2>3. \A d \in Counters \ {c} : last'[d] <= packets'[d]
      BY <1>3, <1>4, <1>13 DEF SampleInv
    <2>4. last'[c] <= packets'[c]
      <3>1. last[c] \in Int /\ packets[c] \in Int
        BY <1>4 DEF TypeInv
      <3> QED BY <1>3, <1>12, <1>13, <3>1
    <2> QED BY <2>1, <2>2, <2>3, <2>4 DEF SampleInv
  <1> QED BY <1>7, <1>15 DEF HubInv
-----------------------------------------------------------------------------
(* The end of an instance.                                                 *)

LEMMA DetachStep ==
  ASSUME HubInv, NEW u \in Users, DetachTrafficCounter(u)
  PROVE  HubInv'
  <1>1. /\ users[u].handle = "open" /\ users[u].name \in Tasks
        /\ spare' = [spare EXCEPT ![users[u].name] = users[u].counter]
        /\ users' = [users EXCEPT ![u] = [users[u] EXCEPT !.handle = "detached"]]
        /\ UNCHANGED <<hub, counts, registered, throughout, sending, summary>>
    BY DEF DetachTrafficCounter
  <1>2. TypeInv /\ UserInv /\ MapInv /\ ShareInv /\ SampleInv /\ FlushInv /\ SenderInv
    BY DEF HubInv
  <1>3. PICK n \in Tasks : n = users[u].name
    BY <1>1
  <1>4. PICK c \in Counters : c = users[u].counter
    BY <1>1, OwnName
  <1>5. /\ users[u] \in Records /\ c # 0 /\ c <= made /\ n \in Names
        /\ made \in Counters \cup {0} /\ made <= made
        /\ registered[n] = u /\ spare[n] = 0
        /\ \A v \in Users \ {u} : users[v].name # n
    BY <1>1, <1>3, <1>4, OwnName
  <1>6. PICK i \in Records : /\ i = [users[u] EXCEPT !.handle = "detached"]
                             /\ i.name = n /\ i.counter = c
                             /\ i.handle = "detached" /\ i.add = users[u].add
    BY <1>3, <1>4, <1>5, HandleField
  <1>7. /\ spare' = [spare EXCEPT ![n] = c] /\ users' = [users EXCEPT ![u] = i]
        /\ UNCHANGED <<counters, made, refs, registered>> /\ UNCHANGED counts
        /\ UNCHANGED <<summary, registered, throughout>> /\ UNCHANGED sending
    BY <1>1, <1>3, <1>4, <1>6 DEF hub
  <1>8. spare'[n] = c /\ \A t \in Tasks \ {n} : spare'[t] = spare[t]
    BY <1>2, <1>7 DEF TypeInv
  <1>9. TypeInv'
    BY <1>2, <1>4, <1>6, <1>7 DEF TypeInv, counts, sending, summary
  <1>10. UserInv'
    <2>1. \A t \in Tasks \ {n} : spare'[t] = spare[t] /\ registered'[t] = registered[t]
      BY <1>7, <1>8
    <2>2. /\ i.name = n /\ i.counter # 0 /\ i.counter <= made'
          /\ n \in Receivers => i.handle \in {"open", "closing", "none"}
          /\ n \in Tasks =>
               /\ i.handle # "none"
               /\ i.handle \in {"unregistered", "closing"} => i.add = "no"
               /\ i.handle \in {"open", "detached"} => registered'[n] = u
               /\ spare'[n] # 0 => i.handle = "detached"
      BY <1>3, <1>5, <1>6, <1>7, NamesAssumption
    <2>3. made' \in Counters \cup {0} /\ made <= made' /\ users[u].name \in {n, None}
      BY <1>3, <1>5, <1>7
    <2> QED BY <1>2, <1>5, <1>6, <1>7, <2>1, <2>2, <2>3, UserChange
  <1>11. MapInv'
    BY <1>2, <1>7 DEF MapInv
  <1>12. ShareInv'
    <2>1. ~Holds(i, n) /\ Holds(users[u], n)
      BY <1>1, <1>3, <1>6 DEF Holds
    <2>2. /\ Holders(n)' = Holders(n) \ {u} /\ Holders(n) \in SUBSET Users /\ u \in Holders(n)
          /\ Cardinality(Holders(n)') = Cardinality(Holders(n)) - 1
      BY <1>2, <1>5, <1>6, <1>7, <2>1, HoldersChange
    <2>3. \A m \in Names : counters'[m] = counters[m] /\ RefOf(m)' = RefOf(m)
      BY <1>7 DEF RefOf
    <2>4. Passed(n) = 0 /\ Passed(n)' = 1
      BY <1>5, <1>8 DEF Passed
    <2>5. RefOf(n)' = Cardinality(Holders(n)') + Passed(n)'
      <3>1. RefOf(n) = Cardinality(Holders(n)) + Passed(n)
        BY <1>2, <1>5 DEF ShareInv
      <3>2. Cardinality(Holders(n)) \in Nat
        BY <2>2, UserSets
      <3> QED BY <1>5, <2>2, <2>3, <2>4, <3>1, <3>2
    <2>6. \A v \in Holders(n) : users[v].counter = counters[n]
      BY <1>2, <1>5 DEF ShareInv
    <2>7. \A v \in Holders(n)' : users'[v].counter = counters'[n]
      <3>1. \A v \in Holders(n)' : users'[v] = users[v]
        BY <1>2, <1>7, <2>2 DEF TypeInv
      <3> QED BY <1>5, <2>2, <2>3, <2>6, <3>1
    <2>8. spare'[n] = counters'[n]
      BY <1>4, <1>5, <1>8, <2>2, <2>3, <2>6
    <2>9. users[u].name \in {n, None} /\ i.name \in {n, None}
      BY <1>3, <1>6
    <2> QED BY <1>2, <1>5, <1>6, <1>7, <1>8, <2>3, <2>5, <2>7, <2>8, <2>9, ShareChange
  <1>13. SampleInv'
    <2>1. users \in [Users -> Records]
      BY <1>2 DEF TypeInv
    <2>2. users[u].add = i.add /\ users[u].counter = i.counter
      BY <1>4, <1>6
    <2> QED BY <1>2, <1>6, <1>7, <2>1, <2>2, SampleFrame
  <1>14. FlushInv' /\ SenderInv'
    BY <1>2, <1>7, FlushFrame, SenderFrame
  <1> QED BY <1>9, <1>10, <1>11, <1>12, <1>13, <1>14 DEF HubInv

LEMMA UnregisterTaskStep ==
  ASSUME HubInv, NEW u \in Users, UnregisterTask(u)
  PROVE  HubInv'
  <1>1. /\ users[u].name \in Tasks /\ users[u].handle \in {"open", "detached"}
        /\ users[u].add = "no"
    BY DEF UnregisterTask
  <1>2. TypeInv /\ UserInv /\ MapInv /\ ShareInv /\ SampleInv /\ FlushInv /\ SenderInv
    BY DEF HubInv
  <1>3. PICK n \in Tasks : n = users[u].name
    BY <1>1
  <1>4. PICK h \in {"unregistered", "none"} :
          h = IF users[u].handle = "open" THEN "unregistered" ELSE "none"
    OBVIOUS
  <1>5. /\ registered' = [registered EXCEPT ![n] = None]
        /\ throughout' = throughout \ {n}
        /\ users' = [users EXCEPT ![u] = Settled([users[u] EXCEPT !.handle = h])]
        /\ UNCHANGED <<counters, made, refs, spare>> /\ UNCHANGED counts
        /\ UNCHANGED summary /\ UNCHANGED sending /\ UNCHANGED <<hub, spare>>
    BY <1>3, <1>4 DEF UnregisterTask, hub
  <1>6. /\ users[u] \in Records /\ users[u].counter # 0 /\ users[u].counter <= made
        /\ made \in Counters \cup {0} /\ made <= made /\ n \in Names
        /\ spare[n] # 0 => users[u].handle = "detached"
        /\ \A v \in Users \ {u} : users[v].name # n
    BY <1>1, <1>3, OwnName
  <1>7. PICK j : j = [users[u] EXCEPT !.handle = h]
    OBVIOUS
  <1>8. /\ j \in Records /\ j.name = n /\ j.counter = users[u].counter
        /\ j.handle = h /\ j.add = "no"
    BY <1>1, <1>3, <1>4, <1>6, <1>7 DEF Records
  <1>9. PICK i : i = Settled(j)
    OBVIOUS
  <1>10. /\ i \in Records
         /\ \/ h = "unregistered" /\ i = j
            \/ h = "none" /\ i = Idle
    <2>1. CASE h = "unregistered"
      BY <1>8, <1>9, <2>1, RecordType
    <2>2. CASE h = "none"
      BY <1>8, <1>9, <2>2, RecordType
    <2> QED BY <2>1, <2>2
  <1>11. users' = [users EXCEPT ![u] = i]
    BY <1>5, <1>7, <1>9
  <1>12. users \in [Users -> Records] /\ registered' \in [Tasks -> Users \cup {None}]
         /\ throughout' \subseteq Tasks
    BY <1>2, <1>5 DEF TypeInv
  <1>13. TypeInv'
    BY <1>2, <1>5, <1>10, <1>11, <1>12 DEF TypeInv, counts, sending, summary
  <1>14. \A t \in Tasks \ {n} : spare'[t] = spare[t] /\ registered'[t] = registered[t]
    BY <1>2, <1>5 DEF TypeInv
  <1>15. UserInv'
    <2>1. i = Idle \/
            /\ i.name = n /\ i.counter # 0 /\ i.counter <= made'
            /\ n \in Receivers => i.handle \in {"open", "closing", "none"}
            /\ n \in Tasks =>
                 /\ i.handle # "none"
                 /\ i.handle \in {"unregistered", "closing"} => i.add = "no"
                 /\ i.handle \in {"open", "detached"} => registered'[n] = u
                 /\ spare'[n] # 0 => i.handle = "detached"
      <3>1. CASE h = "none"
        BY <1>10, <3>1
      <3>2. CASE h = "unregistered"
        <4>1. i = j /\ spare[n] = 0
          BY <1>4, <1>6, <1>10, <3>2
        <4> QED BY <1>3, <1>5, <1>6, <1>8, <3>2, <4>1, NamesAssumption
      <3> QED BY <3>1, <3>2
    <2>2. made' \in Counters \cup {0} /\ made <= made' /\ users[u].name \in {n, None}
      BY <1>3, <1>5, <1>6
    <2> QED BY <1>2, <1>6, <1>10, <1>11, <1>14, <2>1, <2>2, UserChange
  <1>16. MapInv'
    BY <1>2, <1>5 DEF MapInv
  <1>17. ShareInv'
    <2>1. \A m \in Names : /\ Holds(i, m) <=> Holds(users[u], m)
                           /\ Holds(i, m) => i.counter = users[u].counter
      <3>1. CASE h = "none"
        <4>1. i.handle = "none" /\ users[u].handle = "detached"
          BY <1>1, <1>4, <1>10, <3>1 DEF Idle
        <4> QED BY <4>1 DEF Holds
      <3>2. CASE h = "unregistered"
        BY <1>1, <1>3, <1>4, <1>8, <1>10, <3>2 DEF Holds
      <3> QED BY <3>1, <3>2
    <2> QED BY <1>2, <1>5, <1>10, <1>11, <1>12, <2>1, ShareFrame
  <1>18. SampleInv'
    <2>1. users[u].add # "adding" /\ i.add # "adding"
      BY <1>1, <1>8, <1>10 DEF Idle
    <2> QED BY <1>2, <1>5, <1>10, <1>11, <1>12, <2>1, SampleFrame
  <1>19. FlushInv'
    <2>1. \A t \in throughout' : t \in throughout /\ registered'[t] = registered[t]
      BY <1>5, <1>12, <1>14
    <2> QED BY <1>2, <1>5, <2>1 DEF FlushInv, summary
  <1>20. SenderInv'
    BY <1>2, <1>5, SenderFrame
  <1> QED BY <1>13, <1>15, <1>16, <1>17, <1>18, <1>19, <1>20 DEF HubInv

\* release by the last call of Close: a holder and a reference less.
LEMMA CloseEndStep ==
  ASSUME HubInv, NEW u \in Users, CloseEnd(u)
  PROVE  HubInv'
  <1>1. users[u].handle = "closing"
    BY DEF CloseEnd
  <1>2. TypeInv /\ UserInv /\ MapInv /\ ShareInv /\ SampleInv /\ FlushInv /\ SenderInv
    BY DEF HubInv
  <1>3. PICK n \in Names : n = users[u].name
    BY <1>1, OwnName
  <1>4. /\ release(n)
        /\ users' = [users EXCEPT ![u] = Settled([users[u] EXCEPT !.handle = "none"])]
        /\ UNCHANGED counts /\ UNCHANGED <<summary, registered, throughout>>
        /\ UNCHANGED sending /\ UNCHANGED <<spare, registered>>
    BY <1>3 DEF CloseEnd
  <1>5. /\ users[u] \in Records /\ users[u].counter # 0 /\ users[u].counter <= made
        /\ made \in Counters \cup {0} /\ made <= made
        /\ n \in Tasks => users[u].add = "no" /\ spare[n] = 0
        /\ n \in Tasks => \A v \in Users \ {u} : users[v].name # n
    BY <1>1, <1>3, OwnName
  <1>6. PICK j : j = [users[u] EXCEPT !.handle = "none"]
    OBVIOUS
  <1>7. /\ j \in Records /\ j.name = n /\ j.counter = users[u].counter
        /\ j.handle = "none" /\ j.add = users[u].add
    BY <1>3, <1>5, <1>6 DEF Records
  <1>8. PICK i : i = Settled(j)
    OBVIOUS
  <1>9. /\ i \in Records
        /\ \/ users[u].add = "no" /\ i = Idle
           \/ users[u].add # "no" /\ i = j
    <2>1. CASE users[u].add = "no"
      BY <1>7, <1>8, <2>1, RecordType
    <2>2. CASE users[u].add # "no"
      BY <1>7, <1>8, <2>2, RecordType
    <2> QED BY <2>1, <2>2
  <1>10. users' = [users EXCEPT ![u] = i]
    BY <1>4, <1>6, <1>8
  <1>11. i.name \in {n, None} /\ i.handle = "none" /\ users[u].name \in {n, None}
    BY <1>3, <1>7, <1>9 DEF Idle
  <1>12. ~Holds(i, n) /\ Holds(users[u], n)
    BY <1>1, <1>3, <1>11 DEF Holds
  <1>13. /\ Holders(n)' = Holders(n) \ {u} /\ Holders(n) \in SUBSET Users /\ u \in Holders(n)
         /\ Cardinality(Holders(n)') = Cardinality(Holders(n)) - 1
    BY <1>2, <1>9, <1>10, <1>12, HoldersChange
  <1>14. PICK k \in Nat : k = Cardinality(Holders(n)) /\ k >= 1
    <2>1. Cardinality(Holders(n)) \in Nat /\ Cardinality(Holders(n)) # 0
      BY <1>13, UserSets
    <2> QED BY <2>1
  <1>15. Passed(n) = 0 /\ Passed(n)' = 0
    BY <1>4, <1>5 DEF Passed
  <1>16. RefOf(n) = k
    <2>1. RefOf(n) = k + 0
      BY <1>2, <1>14, <1>15 DEF ShareInv
    <2> QED BY <2>1
  <1>17. IsReleased(n)
    BY <1>2, <1>4, <1>14, <1>16, ReleaseEffect
  <1>18. /\ made' = made /\ counters' \in [Names -> Counters \cup {0}]
         /\ refs' \in [Counters -> Int]
         /\ k > 1 => counters'[n] = counters[n]
         /\ \A m \in Names \ {n} : counters'[m] = counters[m] /\ RefOf(m)' = RefOf(m)
         /\ RefOf(n)' = k - 1 /\ MapInv'
    BY <1>16, <1>17 DEF IsReleased
  <1>19. TypeInv'
    BY <1>2, <1>4, <1>9, <1>10, <1>18 DEF TypeInv, counts, sending, summary
  <1>20. UserInv'
    <2>1. i = Idle \/
            /\ i.name = n /\ i.counter # 0 /\ i.counter <= made'
            /\ n \in Receivers => i.handle \in {"open", "closing", "none"}
            /\ n \in Tasks =>
                 /\ i.handle # "none"
                 /\ i.handle \in {"unregistered", "closing"} => i.add = "no"
                 /\ i.handle \in {"open", "detached"} => registered'[n] = u
                 /\ spare'[n] # 0 => i.handle = "detached"
      <3>1. CASE users[u].add = "no"
        BY <1>9, <3>1
      <3>2. CASE users[u].add # "no"
        <4>1. i = j /\ n \notin Tasks
          BY <1>5, <1>9, <3>2
        <4> QED BY <1>5, <1>7, <1>18, <4>1
      <3> QED BY <3>1, <3>2
    <2>2. made' \in Counters \cup {0} /\ made <= made'
      BY <1>5, <1>18
    <2>3. \A t \in Tasks \ {n} : spare'[t] = spare[t] /\ registered'[t] = registered[t]
      BY <1>4
    <2> QED BY <1>2, <1>5, <1>9, <1>10, <1>11, <2>1, <2>2, <2>3, UserChange
  <1>21. ShareInv'
    <2>1. RefOf(n)' = Cardinality(Holders(n)') + Passed(n)'
      BY <1>13, <1>14, <1>15, <1>18
    <2>2. \A v \in Holders(n)' : users'[v].counter = counters'[n]
      <3>1. CASE k > 1
        <4>1. \A v \in Holders(n) : users[v].counter = counters[n]
          BY <1>2 DEF ShareInv
        <4>2. \A v \in Holders(n)' : v \in Holders(n) /\ users'[v] = users[v]
          BY <1>2, <1>10, <1>13 DEF TypeInv
        <4> QED BY <1>18, <3>1, <4>1, <4>2
      <3>2. CASE k = 1
        <4>1. Holders(n)' \in SUBSET Users /\ Cardinality(Holders(n)') = 0
          BY <1>13, <1>14, <3>2
        <4>2. Holders(n)' = {}
          BY <4>1, UserSets
        <4> QED BY <4>2
      <3> QED BY <1>14, <3>1, <3>2
    <2>3. \A t \in Tasks \ {n} : spare'[t] = spare[t]
      BY <1>4
    <2>4. Passed(n)' = 1 => spare'[n] = counters'[n]
      BY <1>15
    <2> QED BY <1>2, <1>9, <1>10, <1>11, <1>18, <2>1, <2>2, <2>3, <2>4, ShareChange
  <1>22. SampleInv'
    <2>1. users \in [Users -> Records]
      BY <1>2 DEF TypeInv
    <2>2. \/ users[u].add # "adding" /\ i.add # "adding"
          \/ users[u].add = i.add /\ users[u].counter = i.counter
      BY <1>7, <1>9 DEF Idle
    <2> QED BY <1>2, <1>4, <1>9, <1>10, <2>1, <2>2, SampleFrame
  <1>23. FlushInv' /\ SenderInv'
    BY <1>2, <1>4, FlushFrame, SenderFrame
  <1> QED BY <1>18, <1>19, <1>20, <1>21, <1>22, <1>23 DEF HubInv

\* The handle of a task that could not be built again is released.
LEMMA StartFailsStep ==
  ASSUME HubInv, NEW t \in Tasks, StartFails(t)
  PROVE  HubInv'
  <1>1. /\ spare[t] # 0 /\ \A v \in Users : users[v].name # t
        /\ spare' = [spare EXCEPT ![t] = 0] /\ release(t)
        /\ UNCHANGED counts /\ UNCHANGED <<summary, registered, throughout>>
        /\ UNCHANGED sending /\ UNCHANGED <<users, registered>>
    BY DEF StartFails
  <1>2. TypeInv /\ UserInv /\ MapInv /\ ShareInv /\ SampleInv /\ FlushInv /\ SenderInv
    BY DEF HubInv
  <1>3. t \in Names
    BY DEF Names
  <1>4. Holders(t) = {} /\ \A m \in Names : Holders(m)' = Holders(m)
    BY <1>1 DEF Holders, Holds
  <1>5. spare'[t] = 0 /\ \A k \in Tasks \ {t} : spare'[k] = spare[k]
    BY <1>1, <1>2 DEF TypeInv
  <1>6. Passed(t) = 1 /\ Passed(t)' = 0 /\ \A m \in Names \ {t} : Passed(m)' = Passed(m)
    BY <1>1, <1>5 DEF Passed
  <1>7. RefOf(t) = 1
    <2>1. RefOf(t) = Cardinality({}) + 1
      BY <1>2, <1>3, <1>4, <1>6 DEF ShareInv
    <2> QED BY <2>1, FS_EmptySet
  <1>8. IsReleased(t)
    BY <1>1, <1>2, <1>3, <1>7, ReleaseEffect
  <1>9. /\ made' = made /\ counters' \in [Names -> Counters \cup {0}]
        /\ refs' \in [Counters -> Int]
        /\ \A m \in Names \ {t} : counters'[m] = counters[m] /\ RefOf(m)' = RefOf(m)
        /\ RefOf(t)' = 0 /\ MapInv'
    BY <1>7, <1>8 DEF IsReleased
  <1>10. TypeInv'
    <2>1. spare' \in [Tasks -> Counters \cup {0}]
      BY <1>1, <1>2 DEF TypeInv
    <2> QED BY <1>1, <1>2, <1>9, <2>1 DEF TypeInv, counts, sending, summary
  <1>11. UserInv'
    <2>1. \A k \in Tasks : spare'[k] # 0 => spare[k] # 0
      BY <1>5
    <2> QED BY <1>1, <1>2, <1>9, <2>1 DEF UserInv
  <1>12. ShareInv'
    <2>1. RefOf(t)' = Cardinality(Holders(t)') + Passed(t)'
      <3>1. Holders(t)' = {} /\ Cardinality({}) = 0
        BY <1>3, <1>4, FS_EmptySet
      <3> QED BY <1>6, <1>9, <3>1
    <2>2. \A m \in Names \ {t} : Passed(m)' = 1 => spare'[m] = spare[m]
      BY <1>5 DEF Passed
    <2> QED BY <1>1, <1>2, <1>3, <1>4, <1>6, <1>9, <2>1, <2>2 DEF ShareInv
  <1>13. SampleInv'
    BY <1>1, <1>2 DEF SampleInv, Adding, counts
  <1>14. FlushInv' /\ SenderInv'
    BY <1>1, <1>2, FlushFrame, SenderFrame
  <1> QED BY <1>9, <1>10, <1>11, <1>12, <1>13, <1>14 DEF HubInv
-----------------------------------------------------------------------------
(* Senders and flush.                                                      *)

LEMMA RegisterSenderStep ==
  ASSUME HubInv, NEW s \in Senders, RegisterSender(s)
  PROVE  HubInv'
  <1>1. /\ sender[s] = "new" /\ sender' = [sender EXCEPT ![s] = "open"]
        /\ senderSeq' = senderSeq + 1 /\ senderId' = [senderId EXCEPT ![s] = senderSeq + 1]
        /\ senderEntry' = s
        /\ UNCHANGED <<hub, counts, users, spare, registered, throughout, summary>>
    BY DEF RegisterSender
  <1>2. TypeInv /\ SampleInv /\ FlushInv /\ SenderInv
    BY DEF HubInv
  <1>3. TypeInv'
    BY <1>1, <1>2 DEF TypeInv, hub, counts, summary
  <1>4. UserInv' /\ MapInv' /\ ShareInv'
    BY <1>1, UserFrame
  <1>5. SampleInv'
    BY <1>1, <1>2 DEF SampleInv, Adding, counts
  <1>6. FlushInv'
    BY <1>1, <1>2, FlushFrame
  <1>7. SenderInv'
    <2>1. /\ senderSeq \in Nat /\ senderId \in [Senders -> Nat]
          /\ sender'[s] = "open" /\ senderId'[s] = senderSeq + 1
          /\ \A q \in Senders \ {s} : sender'[q] = sender[q] /\ senderId'[q] = senderId[q]
      BY <1>1, <1>2 DEF TypeInv
    <2>2. \A q \in Senders : /\ sender[q] = "new" <=> senderId[q] = 0
                             /\ senderId[q] \in Nat /\ senderId[q] <= senderSeq
      BY <1>2, <2>1 DEF SenderInv
    <2>3. \A q \in Senders \ {s} : senderId'[q] <= senderSeq /\ senderId'[q] \in Nat
      BY <2>1, <2>2
    <2>4. \A q \in Senders : /\ sender'[q] = "new" <=> senderId'[q] = 0
                             /\ senderId'[q] <= senderSeq'
                             /\ senderId'[q] = senderSeq' /\ sender'[q] = "open" =>
                                  senderEntry' = q
      BY <1>1, <2>1, <2>2, <2>3
    <2>5. \A r, q \in Senders : senderId'[r] = senderId'[q] /\ senderId'[r] # 0 => r = q
      <3>1. \A r, q \in Senders : senderId[r] = senderId[q] /\ senderId[r] # 0 => r = q
        BY <1>2 DEF SenderInv
      <3>2. \A q \in Senders \ {s} : senderId'[q] # senderId'[s]
        BY <2>1, <2>3
      <3> QED BY <2>1, <3>1, <3>2
    <2> QED BY <1>1, <2>1, <2>4, <2>5 DEF SenderInv
  <1> QED BY <1>3, <1>4, <1>5, <1>6, <1>7 DEF HubInv

LEMMA UnregisterSenderStep ==
  ASSUME HubInv, NEW s \in Senders, UnregisterSender(s)
  PROVE  HubInv'
  <1>1. /\ sender[s] = "open" /\ sender' = [sender EXCEPT ![s] = "closed"]
        /\ senderEntry' = (IF senderEntry # None /\ senderId[senderEntry] = senderId[s]
                           THEN None ELSE senderEntry)
        /\ UNCHANGED <<hub, counts, users, spare, registered, throughout, senderSeq,
                       senderId, summary>>
    BY DEF UnregisterSender, DeleteOwnEntry
  <1>2. TypeInv /\ SampleInv /\ FlushInv /\ SenderInv
    BY DEF HubInv
  <1>3. TypeInv'
    BY <1>1, <1>2 DEF TypeInv, hub, counts, summary
  <1>4. UserInv' /\ MapInv' /\ ShareInv'
    BY <1>1, UserFrame
  <1>5. SampleInv'
    BY <1>1, <1>2 DEF SampleInv, Adding, counts
  <1>6. FlushInv'
    BY <1>1, <1>2, FlushFrame
  <1>7. SenderInv'
    <2>1. /\ sender'[s] = "closed"
          /\ \A q \in Senders \ {s} : sender'[q] = sender[q]
          /\ senderEntry \in Senders \cup {None}
      BY <1>1, <1>2 DEF TypeInv
    <2>2. /\ \A q \in Senders : /\ sender[q] = "new" <=> senderId[q] = 0
                                /\ senderId[q] <= senderSeq
                                /\ senderId[q] = senderSeq /\ sender[q] = "open" =>
                                     senderEntry = q
          /\ \A r, q \in Senders : senderId[r] = senderId[q] /\ senderId[r] # 0 => r = q
          /\ senderEntry # None => sender[senderEntry] = "open"
      BY <1>2 DEF SenderInv
    <2>3. senderEntry' = IF senderEntry = s THEN None ELSE senderEntry
      <3>1. s # None
        BY NamesAssumption
      <3>2. senderEntry # None /\ senderId[senderEntry] = senderId[s] => senderEntry = s
        BY <1>1, <2>1, <2>2
      <3> QED BY <1>1, <3>1, <3>2
    <2>4. senderEntry' # None => sender'[senderEntry'] = "open"
      BY <2>1, <2>2, <2>3
    <2>5. \A q \in Senders : senderId[q] = senderSeq /\ sender'[q] = "open" =>
            senderEntry' = q
      BY <2>1, <2>2, <2>3
    <2> QED BY <1>1, <2>1, <2>2, <2>4, <2>5 DEF SenderInv
  <1> QED BY <1>3, <1>4, <1>5, <1>6, <1>7 DEF HubInv

LEMMA FlushBeginStep ==
  ASSUME HubInv, FlushBegin
  PROVE  HubInv'
  <1>1. /\ flush' = "adding"
        /\ cs' = {[name |-> n, counter |-> counters[n]] : n \in {m \in Names : counters[m] # 0}}
        /\ seenTask' = {} /\ listed' = [t \in Tasks |-> 0]
        /\ throughout' = {t \in Tasks : registered[t] # None}
        /\ UNCHANGED <<hub, counts, users, spare, registered, sending>>
    BY DEF FlushBegin, listTaskRuntimeStats
  <1>2. TypeInv /\ SampleInv /\ SenderInv
    BY DEF HubInv
  <1>3. TypeInv'
    <2>1. \A n \in Names : counters[n] # 0 => counters[n] \in Counters
      BY <1>2 DEF TypeInv
    <2>2. cs' \subseteq [name : Names, counter : Counters]
      BY <1>1, <2>1
    <2> QED BY <1>1, <1>2, <2>2 DEF TypeInv, hub, counts, sending
  <1>4. UserInv' /\ MapInv' /\ ShareInv'
    BY <1>1, UserFrame
  <1>5. SampleInv'
    BY <1>1, <1>2 DEF SampleInv, Adding, counts
  <1>6. FlushInv'
    <2>1. \A e, f \in cs' : e.name = f.name => e = f
      BY <1>1
    <2> QED BY <1>1, <2>1 DEF FlushInv
  <1>7. SenderInv'
    BY <1>1, <1>2, SenderFrame
  <1> QED BY <1>3, <1>4, <1>5, <1>6, <1>7 DEF HubInv

LEMMA FlushAddStep ==
  ASSUME HubInv, NEW e \in cs, FlushAdd(e)
  PROVE  HubInv'
  <1>1. /\ flush = "adding" /\ cs' = cs \ {e}
        /\ \/ e.name \notin Tasks /\ UNCHANGED <<last, listed, seenTask>>
           \/ /\ e.name \in Tasks
              /\ last' = [last EXCEPT ![e.counter] = packets[e.counter]]
              /\ listed' = [listed EXCEPT ![e.name] = @ + 1]
              /\ seenTask' = seenTask \cup {e.name}
        /\ UNCHANGED <<hub, seen, packets, users, spare, registered, throughout, sending, flush>>
    BY DEF FlushAdd, SeenTasks
  <1>2. TypeInv /\ SampleInv /\ SenderInv /\ FlushInv
    BY DEF HubInv
  <1>3. e.name \in Names /\ e.counter \in Counters
    BY <1>2 DEF TypeInv
  <1>4. PICK n \in Names : n = e.name
    BY <1>3
  <1>5. PICK c \in Counters : c = e.counter
    BY <1>3
  <1>6. TypeInv'
    <2>1. last' \in [Counters -> Int]
      BY <1>1, <1>2, <1>5 DEF TypeInv
    <2>2. listed' \in [Tasks -> Nat] /\ seenTask' \subseteq Tasks
      BY <1>1, <1>2, <1>4 DEF TypeInv
    <2> QED BY <1>1, <1>2, <2>1, <2>2 DEF TypeInv, hub, sending
  <1>7. UserInv' /\ MapInv' /\ ShareInv'
    BY <1>1, UserFrame
  <1>8. SampleInv'
    <2>1. \A d \in Counters : packets[d] \in Int /\ last[d] \in Int
      BY <1>2 DEF TypeInv
    <2>2. \A d \in Counters : last'[d] = last[d] \/ last'[d] = packets[d]
      BY <1>1, <1>2, <1>5 DEF TypeInv
    <2>3. \A d \in Counters : Adding(d)' = Adding(d)
      BY <1>1 DEF Adding
    <2> QED BY <1>1, <1>2, <2>1, <2>2, <2>3 DEF SampleInv
  <1>9. FlushInv'
    <2>1. /\ \A t \in Tasks : listed[t] = IF t \in seenTask THEN 1 ELSE 0
          /\ \A f, g \in cs : f.name = g.name => f = g
          /\ \A f \in cs : f.name \notin seenTask
          /\ \A t \in throughout : registered[t] # None
      BY <1>1, <1>2 DEF FlushInv
    <2>2. \A t \in Tasks : listed'[t] = IF t \in seenTask' THEN 1 ELSE 0
      <3>1. CASE e.name \notin Tasks
        BY <1>1, <2>1, <3>1
      <3>2. CASE e.name \in Tasks
        <4>1. /\ \A t \in Tasks : listed'[t] = IF t = n THEN listed[t] + 1 ELSE listed[t]
              /\ seenTask' = seenTask \cup {n} /\ n \notin seenTask
          BY <1>1, <1>2, <1>4, <2>1, <3>2 DEF TypeInv
        <4> QED BY <2>1, <4>1
      <3> QED BY <3>1, <3>2
    <2>3. seenTask' \subseteq seenTask \cup {e.name}
      BY <1>1
    <2>4. \A f \in cs' : f.name \notin seenTask'
      BY <1>1, <2>1, <2>3
    <2>5. \A f, g \in cs' : f.name = g.name => f = g
      BY <1>1, <2>1
    <2>6. \A t \in throughout' : registered'[t] # None
      BY <1>1, <2>1
    <2>7. flush' = "adding"
      BY <1>1
    <2> QED BY <2>2, <2>4, <2>5, <2>6, <2>7 DEF FlushInv
  <1>10. SenderInv'
    BY <1>1, <1>2, SenderFrame
  <1> QED BY <1>6, <1>7, <1>8, <1>9, <1>10 DEF HubInv

LEMMA RuntimeOnlyStep ==
  ASSUME HubInv, addRuntimeOnlyTasks
  PROVE  HubInv'
  <1>1. /\ flush = "adding" /\ flush' = "log"
        /\ listed' = [t \in Tasks |-> IF registered[t] # None /\ t \notin seenTask
                                      THEN listed[t] + 1 ELSE listed[t]]
        /\ UNCHANGED <<hub, counts, users, spare, registered, throughout, sending, cs, seenTask>>
    BY DEF addRuntimeOnlyTasks, listTaskRuntimeStats
  <1>2. TypeInv /\ SampleInv /\ SenderInv /\ FlushInv
    BY DEF HubInv
  <1>3. TypeInv'
    <2>1. listed' \in [Tasks -> Nat]
      BY <1>1, <1>2 DEF TypeInv
    <2> QED BY <1>1, <1>2, <2>1 DEF TypeInv, hub, counts, sending
  <1>4. UserInv' /\ MapInv' /\ ShareInv'
    BY <1>1, UserFrame
  <1>5. SampleInv'
    BY <1>1, <1>2 DEF SampleInv, Adding, counts
  <1>6. FlushInv'
    <2>1. /\ \A t \in Tasks : listed[t] = IF t \in seenTask THEN 1 ELSE 0
          /\ \A t \in throughout : registered[t] # None
      BY <1>1, <1>2 DEF FlushInv
    <2>2. \A t \in Tasks : listed'[t] = IF registered[t] # None \/ t \in seenTask THEN 1 ELSE 0
      BY <1>1, <2>1
    <2> QED BY <1>1, <2>1, <2>2 DEF FlushInv
  <1>7. SenderInv'
    BY <1>1, <1>2, SenderFrame
  <1> QED BY <1>3, <1>4, <1>5, <1>6, <1>7 DEF HubInv

LEMMA FlushEndStep ==
  ASSUME HubInv, FlushEnd
  PROVE  HubInv'
  <1>1. /\ flush' = "idle" /\ seenTask' = {} /\ listed' = [t \in Tasks |-> 0]
        /\ throughout' = {}
        /\ UNCHANGED <<hub, counts, users, spare, registered, sending, cs>>
    BY DEF FlushEnd
  <1>2. TypeInv /\ SampleInv /\ SenderInv
    BY DEF HubInv
  <1>3. TypeInv'
    BY <1>1, <1>2 DEF TypeInv, hub, counts, sending
  <1>4. UserInv' /\ MapInv' /\ ShareInv'
    BY <1>1, UserFrame
  <1>5. SampleInv'
    BY <1>1, <1>2 DEF SampleInv, Adding, counts
  <1>6. FlushInv'
    BY <1>1 DEF FlushInv
  <1>7. SenderInv'
    BY <1>1, <1>2, SenderFrame
  <1> QED BY <1>3, <1>4, <1>5, <1>6, <1>7 DEF HubInv
-----------------------------------------------------------------------------
(* The theorems.                                                           *)

LEMMA HubStep == HubInv /\ [Next]_vars => HubInv'
  <1> SUFFICES ASSUME HubInv, [Next]_vars PROVE HubInv'
    OBVIOUS
  <1>1. CASE UNCHANGED vars
    <2>1. /\ UNCHANGED <<hub, users, spare, registered>> /\ UNCHANGED counts
          /\ UNCHANGED <<summary, registered, throughout>> /\ UNCHANGED sending
      BY <1>1 DEF vars
    <2>2. TypeInv /\ SampleInv /\ FlushInv /\ SenderInv
      BY DEF HubInv
    <2>3. TypeInv'
      BY <2>1, <2>2 DEF TypeInv, hub, counts, sending, summary
    <2>4. UserInv' /\ MapInv' /\ ShareInv' /\ FlushInv' /\ SenderInv'
      BY <2>1, <2>2, UserFrame, FlushFrame, SenderFrame
    <2>5. SampleInv'
      BY <2>1, <2>2 DEF SampleInv, Adding, counts
    <2> QED BY <2>3, <2>4, <2>5 DEF HubInv
  <1>2. ASSUME NEW u \in Users, UserStep(u)
        PROVE HubInv'
    BY <1>2, AddBeginStep, AddSeenStep, AddPacketsStep, DetachStep, UnregisterTaskStep,
       CloseBeginStep, CloseEndStep DEF UserStep
  <1>3. ASSUME NEW u \in Users, NEW n \in Receivers, StartReceiver(u, n)
        PROVE HubInv'
    BY <1>3, StartReceiverStep
  <1>4. ASSUME NEW u \in Users, NEW t \in Tasks, StartTask(u, t)
        PROVE HubInv'
    BY <1>4, StartTaskStep
  <1>5. ASSUME NEW t \in Tasks, StartFails(t)
        PROVE HubInv'
    BY <1>5, StartFailsStep
  <1>6. ASSUME NEW s \in Senders, RegisterSender(s) \/ UnregisterSender(s)
        PROVE HubInv'
    BY <1>6, RegisterSenderStep, UnregisterSenderStep
  <1>7. CASE FlushStep
    BY <1>7, FlushBeginStep, FlushAddStep, RuntimeOnlyStep, FlushEndStep DEF FlushStep
  <1> QED BY <1>1, <1>2, <1>3, <1>4, <1>5, <1>6, <1>7 DEF Next

\* What the hub knows of handles, samples, tasks and senders holds through every
\* interleaving of starts, stops, AddBytes and flush.
THEOREM HubInvariant == Spec => []HubInv
  BY HubInit, HubStep, PTL DEF Spec

\* acquire and release keep refs at the number of handles that are not yet released,
\* and AddBytes counts each full group of samples once, also on a closed handle.
THEOREM CountersAreShared == Spec => []CountersShared
  <1>1. HubInv => CountersShared
    <2> SUFFICES ASSUME HubInv PROVE CountersShared
      OBVIOUS
    <2>1. ShareInv /\ SampleInv
      BY DEF HubInv
    <2>2. \A n \in Names : Holders(n) =
            {u \in Users : /\ users[u].name = n
                           /\ users[u].handle \in {"open", "unregistered", "closing"}}
      BY DEF Holders, Holds
    <2> QED BY <2>1, <2>2
         DEF ShareInv, SampleInv, RefOf, Passed, Adding, CountersShared
  <1> QED BY <1>1, HubInvariant, PTL

\* flush lists a task once although it reads counters and registrations at different
\* times, and registrations of tasks and senders are those of the living instances.
THEOREM RunningIsListed == Spec => []RunningListed
  <1>1. HubInv => RunningListed
    BY DEF HubInv, UserInv, FlushInv, SenderInv, RunningListed
  <1> QED BY <1>1, HubInvariant, PTL

=============================================================================
