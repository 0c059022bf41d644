----------------------------- MODULE WalletProofs -----------------------------
(***************************************************************************)
(* Theorems about the files of a wallet, for any number of fingerprint     *)
(* templates, wipes, faults and losses of power.                           *)
(***************************************************************************)
EXTENDS Wallet, TLAPS, SequenceTheorems

USE ConstantsAssumption

-----------------------------------------------------------------------------
(* What a program of operations promises.  These say that an operation that needs
   something comes after the one that provides it, and are kept when the head of
   the program is replaced by other operations. *)

\* Every operation of N finds ok, or is preceded by one of X.
Served(t, N, X, ok) ==
    \A i \in 1 .. Len(t) : t[i] \in N => ok \/ \E j \in 1 .. i - 1 : t[j] \in X

\* Behind an operation of U there are only operations of L.
Follow(t, U, L) == \A i, j \in 1 .. Len(t) : i < j /\ t[i] \in U => t[j] \in L

\* While one of N is to be done ok holds, and only operations of Q come first.
Lead(t, N, Q, ok) ==
    \A i \in 1 .. Len(t) : t[i] \in N => ok /\ \A j \in 1 .. i - 1 : t[j] \in Q

Has(t, X) == \E i \in 1 .. Len(t) : t[i] \in X

LEMMA DoesShape ==
    ASSUME NEW S, NEW t \in Seq(S), t # <<>>, NEW p \in Seq(S), NEW q, q = p \o Tail(t)
    PROVE  /\ q \in Seq(S) /\ Len(q) = Len(p) + Len(t) - 1
           /\ \A i \in 1 .. Len(p) : i \in 1 .. Len(q) /\ q[i] = p[i]
           /\ \A i \in 1 .. Len(q) : i > Len(p) =>
                i - Len(p) + 1 \in 2 .. Len(t) /\ q[i] = t[i - Len(p) + 1]
           /\ \A i \in 2 .. Len(t) : i + Len(p) - 1 \in 1 .. Len(q) /\ q[i + Len(p) - 1] = t[i]
           /\ Head(t) = t[1] /\ Head(t) \in S /\ Len(t) \in Nat \ {0} /\ Len(p) \in Nat
<1>1. /\ Tail(t) \in Seq(S) /\ Len(Tail(t)) = Len(t) - 1 /\ Len(t) \in Nat /\ Len(t) > 0
      /\ \A i \in 1 .. Len(t) - 1 : Tail(t)[i] = t[i + 1]
      /\ Head(t) = t[1] /\ Head(t) \in S
  OBVIOUS
<1>2. /\ q \in Seq(S) /\ Len(q) = Len(p) + Len(Tail(t)) /\ Len(p) \in Nat
      /\ \A i \in 1 .. Len(q) : q[i] = IF i <= Len(p) THEN p[i] ELSE Tail(t)[i - Len(p)]
  BY <1>1
<1>3. \A i \in 1 .. Len(q) : i > Len(p) => q[i] = t[i - Len(p) + 1]
  <2> TAKE i \in 1 .. Len(q)
  <2> HAVE i > Len(p)
  <2>1. i - Len(p) \in 1 .. Len(t) - 1
    BY <1>1, <1>2
  <2>2. Tail(t)[i - Len(p)] = t[(i - Len(p)) + 1]
    BY <1>1, <2>1
  <2> QED BY <1>2, <2>2
<1>4. \A i \in 2 .. Len(t) : i + Len(p) - 1 \in 1 .. Len(q) /\ q[i + Len(p) - 1] = t[i]
  <2> TAKE i \in 2 .. Len(t)
  <2>1. i + Len(p) - 1 \in 1 .. Len(q) /\ i + Len(p) - 1 > Len(p)
    BY <1>1, <1>2
  <2>2. (i + Len(p) - 1) - Len(p) + 1 = i
    BY <1>1, <1>2
  <2> QED BY <2>1, <2>2, <1>3
<1>5. \A i \in 1 .. Len(p) : i \in 1 .. Len(q) /\ q[i] = p[i]
  BY <1>1, <1>2
<1>6. \A i \in 1 .. Len(q) : i > Len(p) => i - Len(p) + 1 \in 2 .. Len(t)
  BY <1>1, <1>2
<1> QED BY <1>1, <1>2, <1>3, <1>4, <1>5, <1>6

LEMMA ServedDoes ==
    ASSUME NEW S, NEW t \in Seq(S), t # <<>>, NEW p \in Seq(S), NEW N, NEW X,
           NEW a, NEW b,
           Served(t, N, X, a), Served(p, N, X, b), a => b \/ Has(p, X), Head(t) \in X => b \/ Has(p, X)
    PROVE  Served(p \o Tail(t), N, X, b)
<1> DEFINE q == p \o Tail(t)
<1>1. /\ q \in Seq(S) /\ Len(q) = Len(p) + Len(t) - 1
      /\ \A i \in 1 .. Len(p) : i \in 1 .. Len(q) /\ q[i] = p[i]
      /\ \A i \in 1 .. Len(q) : i > Len(p) =>
           i - Len(p) + 1 \in 2 .. Len(t) /\ q[i] = t[i - Len(p) + 1]
      /\ \A i \in 2 .. Len(t) : i + Len(p) - 1 \in 1 .. Len(q) /\ q[i + Len(p) - 1] = t[i]
      /\ Head(t) = t[1] /\ Len(t) \in Nat \ {0} /\ Len(p) \in Nat
  BY DoesShape
<1> HIDE DEF q
<1>2. SUFFICES ASSUME NEW i \in 1 .. Len(q), q[i] \in N, ~b
               PROVE  \E j \in 1 .. i - 1 : q[j] \in X
  BY DEF Served, q
<1>3. CASE i <= Len(p)
  <2>1. i \in 1 .. Len(p) /\ p[i] \in N
    BY <1>1, <1>2, <1>3
  <2>2. PICK j \in 1 .. i - 1 : p[j] \in X
    BY <2>1, <1>2 DEF Served
  <2>3. j \in 1 .. Len(p)
    BY <2>1, <1>1
  <2> QED BY <2>2, <2>3, <1>1
<1>4. CASE i > Len(p)
  <2> DEFINE m == i - Len(p) + 1
  <2>1. m \in 2 .. Len(t) /\ t[m] \in N
    BY <1>1, <1>2, <1>4
  <2>0. m \in 1 .. Len(t)
    BY <1>1, <2>1
  <2>5. CASE Has(p, X)
    <3>1. PICK k \in 1 .. Len(p) : p[k] \in X
      BY <2>5 DEF Has
    <3>2. k \in 1 .. i - 1
      BY <1>1, <1>4
    <3> QED BY <1>1, <3>1, <3>2
  <2>6. SUFFICES ASSUME ~Has(p, X) PROVE \E j \in 1 .. i - 1 : q[j] \in X
    BY <2>5
  <2>7. ~a
    BY <1>2, <2>6
  <2>2. PICK j \in 1 .. m - 1 : t[j] \in X
    BY <2>1, <2>0, <2>7 DEF Served
  <2>3. CASE j = 1
    BY <1>1, <1>2, <2>2, <2>3, <2>6
  <2>4. CASE j # 1
    <3>1. j \in 2 .. Len(t) /\ j + Len(p) - 1 \in 1 .. i - 1
      BY SMTT(60), <2>1, <2>2, <2>4, <1>1, <1>4
    <3>2. q[j + Len(p) - 1] = t[j]
      BY <3>1, <1>1
    <3> QED BY <3>1, <3>2, <2>2
  <2> QED BY <2>3, <2>4
<1> QED BY <1>1, <1>3, <1>4

LEMMA FollowDoes ==
    ASSUME NEW S, NEW t \in Seq(S), t # <<>>, NEW p \in Seq(S), NEW U, NEW L,
           Follow(t, U, L), Follow(p, U, L), Has(p, U) => Head(t) \in U
    PROVE  Follow(p \o Tail(t), U, L)
<1> DEFINE q == p \o Tail(t)
<1>1. /\ q \in Seq(S) /\ Len(q) = Len(p) + Len(t) - 1
      /\ \A i \in 1 .. Len(p) : i \in 1 .. Len(q) /\ q[i] = p[i]
      /\ \A i \in 1 .. Len(q) : i > Len(p) =>
           i - Len(p) + 1 \in 2 .. Len(t) /\ q[i] = t[i - Len(p) + 1]
      /\ Head(t) = t[1] /\ Len(t) \in Nat \ {0} /\ Len(p) \in Nat
  BY DoesShape
<1> HIDE DEF q
<1>2. SUFFICES ASSUME NEW i \in 1 .. Len(q), NEW j \in 1 .. Len(q), i < j, q[i] \in U
               PROVE  q[j] \in L
  BY DEF Follow, q
<1>3. CASE j <= Len(p)
  <2>1. i \in 1 .. Len(p) /\ j \in 1 .. Len(p)
    BY <1>1, <1>2, <1>3
  <2>2. q[i] = p[i] /\ q[j] = p[j]
    BY <1>1, <2>1
  <2> QED BY <1>2, <2>1, <2>2 DEF Follow
<1>4. CASE j > Len(p) /\ i <= Len(p)
  <2>0. i \in 1 .. Len(p)
    BY <1>1, <1>4
  <2>1. t[1] \in U
    BY <1>1, <1>2, <2>0 DEF Has
  <2>2. j - Len(p) + 1 \in 2 .. Len(t) /\ q[j] = t[j - Len(p) + 1]
    BY <1>1, <1>4
  <2>3. 1 \in 1 .. Len(t) /\ 1 < j - Len(p) + 1 /\ j - Len(p) + 1 \in 1 .. Len(t)
    BY <2>2, <1>1
  <2> QED BY <2>1, <2>2, <2>3 DEF Follow
<1>5. CASE j > Len(p) /\ i > Len(p)
  <2>1. i - Len(p) + 1 \in 1 .. Len(t) /\ q[i] = t[i - Len(p) + 1]
    BY <1>1, <1>5
  <2>2. j - Len(p) + 1 \in 1 .. Len(t) /\ q[j] = t[j - Len(p) + 1]
    BY <1>1, <1>5
  <2>3. i - Len(p) + 1 < j - Len(p) + 1
    BY <1>1, <1>2
  <2> QED BY <2>1, <2>2, <2>3, <1>2 DEF Follow
<1> QED BY <1>1, <1>3, <1>4, <1>5

LEMMA LeadDoes ==
    ASSUME NEW S, NEW t \in Seq(S), t # <<>>, NEW p \in Seq(S), NEW N, NEW Q,
           NEW a, NEW b, Lead(t, N, Q, a), Lead(p, N, Q, b),
           Head(t) \in Q /\ a => b /\ \A i \in 1 .. Len(p) : p[i] \in Q
    PROVE  Lead(p \o Tail(t), N, Q, b)
<1> DEFINE q == p \o Tail(t)
<1>1. /\ q \in Seq(S) /\ Len(q) = Len(p) + Len(t) - 1
      /\ \A i \in 1 .. Len(p) : i \in 1 .. Len(q) /\ q[i] = p[i]
      /\ \A i \in 1 .. Len(q) : i > Len(p) =>
           i - Len(p) + 1 \in 2 .. Len(t) /\ q[i] = t[i - Len(p) + 1]
      /\ Head(t) = t[1] /\ Len(t) \in Nat \ {0} /\ Len(p) \in Nat
  BY DoesShape
<1> HIDE DEF q
<1>2. SUFFICES ASSUME NEW i \in 1 .. Len(q), q[i] \in N
               PROVE  b /\ \A j \in 1 .. i - 1 : q[j] \in Q
  BY DEF Lead, q
<1>3. CASE i <= Len(p)
  <2>1. i \in 1 .. Len(p) /\ p[i] \in N
    BY <1>1, <1>2, <1>3
  <2>2. b /\ \A j \in 1 .. i - 1 : p[j] \in Q
    BY <2>1 DEF Lead
  <2>3. \A j \in 1 .. i - 1 : j \in 1 .. Len(p)
    BY <2>1, <1>1
  <2> QED BY <2>2, <2>3, <1>1
<1>4. CASE i > Len(p)
  <2> DEFINE m == i - Len(p) + 1
  <2>1. m \in 2 .. Len(t) /\ t[m] \in N /\ m \in 1 .. Len(t)
    BY <1>1, <1>2, <1>4
  <2>2. a /\ \A j \in 1 .. m - 1 : t[j] \in Q
    BY <2>1 DEF Lead
  <2>3. 1 \in 1 .. m - 1
    BY <2>1, <1>1
  <2>4. b /\ \A j \in 1 .. Len(p) : p[j] \in Q
    BY <2>2, <2>3, <1>1
  <2>5. ASSUME NEW j \in 1 .. i - 1 PROVE q[j] \in Q
    <3>1. CASE j <= Len(p)
      BY <3>1, <2>4, <1>1
    <3>2. CASE j > Len(p)
      <4>1. j \in 1 .. Len(q) /\ j - Len(p) + 1 \in 1 .. m - 1
        BY <3>2, <1>1, <2>1
      <4> QED BY <4>1, <3>2, <2>2, <1>1
    <3> QED BY <3>1, <3>2, <1>1
  <2> QED BY <2>4, <2>5
<1> QED BY <1>1, <1>3, <1>4

-----------------------------------------------------------------------------
(* The operations of all commands but the wipe, and the sets the invariant needs *)

Stored == {wkek, seed, cache, keyset, pubkey}
Ops == {<<w, f>> : w \in {"open", "write"}, f \in Stored}
       \cup {<<"wkek", wkek>>, <<"load", wkek>>, <<"seed", seed>>, <<"reply", seed>>,
             <<"wsm", keyset>>, <<"unseal", cache>>, <<"unseal", keyset>>}
       \cup {<<w, k>> : w \in {"use", "hit"}, k \in CacheKeys}
       \cup {<<"derived", d>> : d \in CacheKeys \cup {"caller"}}

Kind(W) == {o \in Ops : o[1] \in W}
Stores(f) == {o \in Ops : o[1] \in {"open", "write"} /\ o[2] = f}

\* After these the KEK is loaded, and these need it.
Loads == Kind({"wkek", "load"})
NeedKek == Kind({"seed", "derived", "unseal"}) \cup Stores(seed) \cup Stores(cache) \cup Stores(keyset)

\* After these the seed in RAM is the one in flash, and these need it to be.
Seeds == Kind({"seed"}) \cup {<<"write", seed>>}
NeedSeed == Kind({"derived"}) \cup {<<"write", keyset>>}

\* After these the cache in RAM is that of the seed in flash, and these need it.
Caches == {<<"unseal", cache>>, <<"write", cache>>}
Hits == Kind({"hit"})
Looks == Kind({"use", "hit"})

\* What a command does behind a use of the cache.
Later == Kind({"use", "wkek", "seed", "wsm", "reply"}) \cup {<<"derived", "caller">>}
         \cup Stores(keyset) \cup Stores(pubkey)

\* Operations of a command that only somebody who can unlock may give.
Guarded == Ops \ (Loads \cup Stores(wkek))

\* What a program promises when the KEK is loaded (loaded), the seed in RAM is that
\* of flash (found), some keys of the cache are (goods), a new KEK or a new seed
\* waits to be stored (newkek, newseed), and somebody can unlock (can).
Promise(t, loaded, found, goods, newkek, newseed, can) ==
    /\ t \in Seq(Ops)
    /\ Follow(t, Looks, Later)
    /\ Served(t, NeedKek, Loads, loaded)
    /\ Served(t, NeedSeed, Seeds, found)
    /\ \A k \in CacheKeys : Served(t, {<<"write", cache>>}, {<<"derived", k>>}, k \in goods)
    /\ Served(t, Hits, Caches, goods = CacheKeys)
    /\ Lead(t, Stores(wkek), {<<"open", wkek>>}, newkek)
    /\ Lead(t, Stores(seed), Loads \cup {<<"open", seed>>}, newseed)
    /\ Served(t, Guarded, {}, can)

LEMMA FilesDiffer ==
    /\ wkek # seed /\ wkek # cache /\ wkek # keyset /\ wkek # pubkey /\ wkek # unlock
    /\ seed # cache /\ seed # keyset /\ seed # pubkey /\ seed # unlock
    /\ cache # keyset /\ cache # pubkey /\ cache # unlock
    /\ keyset # pubkey /\ keyset # unlock /\ pubkey # unlock
    /\ {wkek, seed, cache, keyset, pubkey, unlock} \subseteq Files
    /\ \A t : FileOf(t) \notin {wkek, seed, cache, keyset, pubkey, unlock}
    /\ \A f \in Fingerprints : f \in Files /\ f \notin {wkek, seed, cache, keyset, pubkey, unlock}
<1>1. \A t : FileOf(t)[1] # wkek[1] /\ FileOf(t)[1] # seed[1] /\ FileOf(t)[1] # cache[1]
             /\ FileOf(t)[1] # keyset[1] /\ FileOf(t)[1] # pubkey[1] /\ FileOf(t)[1] # unlock[1]
  BY DEF FileOf, wkek, seed, cache, keyset, pubkey, unlock
<1>2. \A t : FileOf(t) \notin {wkek, seed, cache, keyset, pubkey, unlock}
  BY <1>1
<1>3. /\ wkek[2] = "wkek" /\ seed[2] = "seed" /\ cache[2] = "cache" /\ keyset[2] = "keyset"
      /\ pubkey[2] = "pubkey" /\ unlock[2] = "unlock"
  BY DEF wkek, seed, cache, keyset, pubkey, unlock
<1>4. {wkek, seed, cache, keyset, pubkey, unlock} \subseteq Files
  BY DEF Files, Named, wkek, seed, cache, keyset, pubkey, unlock
<1>5. \A f \in Fingerprints : f \in Files /\ f \notin {wkek, seed, cache, keyset, pubkey, unlock}
  BY <1>2 DEF Fingerprints, Files
<1> QED BY <1>2, <1>3, <1>4, <1>5

LEMMA OpFacts ==
    /\ \A f \in Stored : <<"open", f>> \in Ops /\ <<"write", f>> \in Ops
    /\ {<<"wkek", wkek>>, <<"load", wkek>>, <<"seed", seed>>, <<"reply", seed>>, <<"wsm", keyset>>,
        <<"unseal", cache>>, <<"unseal", keyset>>} \subseteq Ops
    /\ \A k \in CacheKeys : <<"use", k>> \in Ops /\ <<"hit", k>> \in Ops /\ <<"derived", k>> \in Ops
    /\ <<"derived", "caller">> \in Ops
    /\ {wkek, seed, cache, keyset, pubkey} \subseteq Stored
  BY DEF Ops, Stored

\* An operation by its first component.
LEMMA OpShape ==
    ASSUME NEW o \in Ops
    PROVE  /\ o = <<o[1], o[2]>>
           /\ o[1] \in {"open", "write", "wkek", "load", "seed", "reply", "wsm", "unseal",
                        "use", "hit", "derived"}
           /\ o[1] \in {"open", "write"} => o[2] \in Stored
           /\ o[1] \in {"wkek", "load"} => o[2] = wkek
           /\ o[1] \in {"seed", "reply"} => o[2] = seed
           /\ o[1] = "wsm" => o[2] = keyset
           /\ o[1] = "unseal" => o[2] \in {cache, keyset}
           /\ o[1] \in {"use", "hit"} => o[2] \in CacheKeys
           /\ o[1] = "derived" => o[2] \in CacheKeys \cup {"caller"}
<1>1. CASE \E w \in {"open", "write"}, f \in Stored : o = <<w, f>>
  BY <1>1
<1>2. CASE o \in {<<"wkek", wkek>>, <<"load", wkek>>, <<"seed", seed>>, <<"reply", seed>>,
             <<"wsm", keyset>>, <<"unseal", cache>>, <<"unseal", keyset>>}
  BY <1>2
<1>3. CASE \E w \in {"use", "hit"}, k \in CacheKeys : o = <<w, k>>
  BY <1>3
<1>4. CASE \E d \in CacheKeys \cup {"caller"} : o = <<"derived", d>>
  BY <1>4
<1> QED BY <1>1, <1>2, <1>3, <1>4 DEF Ops

\* The program goes on with other operations in the place of its head.
LEMMA PromiseDoes ==
    ASSUME NEW t, t # <<>>, NEW p,
           NEW l, NEW f, NEW g, NEW nk, NEW ns, NEW c,
           NEW l2, NEW f2, NEW g2, NEW nk2, NEW ns2, NEW c2,
           Promise(t, l, f, g, nk, ns, c), Promise(p, l2, f2, g2, nk2, ns2, c2),
           l => l2, f => f2 \/ Has(p, Seeds), g \subseteq g2, g2 \subseteq CacheKeys, c => c2,
           Has(p, Looks) => Head(t) \in Looks,
           Head(t) \in Loads => l2 \/ Has(p, Loads),
           Head(t) \in Seeds => f2 \/ Has(p, Seeds),
           \A k \in CacheKeys : Head(t) = <<"derived", k>> => k \in g2,
           Head(t) \in Caches => g2 = CacheKeys \/ Has(p, Caches),
           Head(t) = <<"open", wkek>> /\ nk => nk2 /\ p = <<>>,
           Head(t) \in Loads \cup {<<"open", seed>>} /\ ns =>
               ns2 /\ \A i \in 1 .. Len(p) : p[i] \in Loads \cup {<<"open", seed>>}
    PROVE  Promise(p \o Tail(t), l2, f2, g2, nk2, ns2, c2)
<1>1. t \in Seq(Ops) /\ p \in Seq(Ops)
  BY DEF Promise
<1> DEFINE q == p \o Tail(t)
<1>2. q \in Seq(Ops)
  BY <1>1, DoesShape
<1>3. Follow(q, Looks, Later)
  BY <1>1, FollowDoes DEF Promise
<1>4. Served(q, NeedKek, Loads, l2)
  BY <1>1, ServedDoes DEF Promise
<1>5. Served(q, NeedSeed, Seeds, f2)
  BY <1>1, ServedDoes DEF Promise
<1>6. ASSUME NEW k \in CacheKeys
      PROVE  Served(q, {<<"write", cache>>}, {<<"derived", k>>}, k \in g2)
  <2>1. /\ Served(t, {<<"write", cache>>}, {<<"derived", k>>}, k \in g)
        /\ Served(p, {<<"write", cache>>}, {<<"derived", k>>}, k \in g2)
    BY DEF Promise
  <2>2. (k \in g => k \in g2) /\ (Head(t) \in {<<"derived", k>>} => k \in g2)
    OBVIOUS
  <2> DEFINE N == {<<"write", cache>>}
  <2> DEFINE X == {<<"derived", k>>}
  <2> DEFINE a == k \in g
  <2> DEFINE b == k \in g2
  <2>3. Served(t, N, X, a) /\ Served(p, N, X, b) /\ (a => b) /\ (Head(t) \in X => b \/ Has(p, X))
    BY <2>1, <2>2
  <2>4. Served(p \o Tail(t), N, X, b)
    <3> HIDE DEF N, X, a, b, q
    <3> QED BY <1>1, <2>3, ServedDoes
  <2> QED BY <2>4
<1>7. Served(q, Hits, Caches, g2 = CacheKeys)
  <2>1. /\ Served(t, Hits, Caches, g = CacheKeys)
        /\ Served(p, Hits, Caches, g2 = CacheKeys)
    BY DEF Promise
  <2>2. g = CacheKeys => g2 = CacheKeys
    OBVIOUS
  <2> QED BY <1>1, <2>1, <2>2, ServedDoes
<1>8. Lead(q, Stores(wkek), {<<"open", wkek>>}, nk2)
  <2>1. /\ Lead(t, Stores(wkek), {<<"open", wkek>>}, nk)
        /\ Lead(p, Stores(wkek), {<<"open", wkek>>}, nk2)
    BY DEF Promise
  <2>2. Head(t) \in {<<"open", wkek>>} /\ nk =>
          nk2 /\ \A i \in 1 .. Len(p) : p[i] \in {<<"open", wkek>>}
    OBVIOUS
  <2> QED BY <1>1, <2>1, <2>2, LeadDoes
<1>9. Lead(q, Stores(seed), Loads \cup {<<"open", seed>>}, ns2)
  BY <1>1, LeadDoes DEF Promise
<1>10. Served(q, Guarded, {}, c2)
  BY <1>1, ServedDoes DEF Promise
<1> QED BY <1>2, <1>3, <1>4, <1>5, <1>6, <1>7, <1>8, <1>9, <1>10 DEF Promise

-----------------------------------------------------------------------------
(* The programs, operation by operation, and what each of them promises *)

LEMMA Join3 ==
    ASSUME NEW S, NEW a \in S, NEW b \in S, NEW c \in S
    PROVE  <<a>> \o <<b, c>> = <<a, b, c>> /\ <<a, b>> \o <<c>> = <<a, b, c>>
<1> DEFINE q == <<a>> \o <<b, c>>
<1> DEFINE r == <<a, b>> \o <<c>>
<1> DEFINE s == <<a, b, c>>
<1>1. q \in Seq(S) /\ Len(q) = 3 /\ q[1] = a /\ q[2] = b /\ q[3] = c
  OBVIOUS
<1>2. r \in Seq(S) /\ Len(r) = 3 /\ r[1] = a /\ r[2] = b /\ r[3] = c
  OBVIOUS
<1>3. s \in Seq(S) /\ Len(s) = 3 /\ \A i \in 1 .. 3 : q[i] = s[i] /\ r[i] = s[i]
  BY <1>1, <1>2
<1> HIDE DEF q, r, s
<1>4. q = s /\ r = s
  BY <1>1, <1>2, <1>3, SeqEqual
<1> QED BY <1>4 DEF q, r, s

LEMMA DeriveShape ==
    ASSUME NEW d \in CacheKeys \cup {"caller"}
    PROVE  /\ derive_key_priv_from_seed(d) = <<<<"wkek", wkek>>, <<"seed", seed>>, <<"derived", d>>>>
           /\ derive_key_priv_from_seed(d) \in Seq(Ops)
<1>1. <<"wkek", wkek>> \in Ops /\ <<"seed", seed>> \in Ops /\ <<"derived", d>> \in Ops
  BY OpFacts
<1>2. derive_key_priv_from_seed(d) = <<<<"wkek", wkek>>, <<"seed", seed>>, <<"derived", d>>>>
  BY <1>1, Join3 DEF derive_key_priv_from_seed, wkek_lazy_init
<1> QED BY <1>1, <1>2

LEMMA StoreShape ==
    ASSUME NEW f \in Stored
    PROVE  /\ wkek_encrypt_and_store(f) = <<<<"wkek", wkek>>, <<"open", f>>, <<"write", f>>>>
           /\ wkek_encrypt_and_store(f) \in Seq(Ops)
<1>1. <<"wkek", wkek>> \in Ops /\ <<"open", f>> \in Ops /\ <<"write", f>> \in Ops
  BY OpFacts
<1>2. wkek_encrypt_and_store(f) = <<<<"wkek", wkek>>, <<"open", f>>, <<"write", f>>>>
  BY <1>1, Join3 DEF wkek_encrypt_and_store, wkek_lazy_init, fs_util_write_global
<1> QED BY <1>1, <1>2

NewKekProgram == fs_util_write_global(wkek) \o <<<<"load", wkek>>>>

LEMMA NewKekShape ==
    /\ NewKekProgram = <<<<"open", wkek>>, <<"write", wkek>>, <<"load", wkek>>>>
    /\ NewKekProgram \in Seq(Ops)
<1>1. <<"open", wkek>> \in Ops /\ <<"write", wkek>> \in Ops /\ <<"load", wkek>> \in Ops
  BY OpFacts
<1>2. NewKekProgram = <<<<"open", wkek>>, <<"write", wkek>>, <<"load", wkek>>>>
  BY <1>1, Join3 DEF NewKekProgram, fs_util_write_global
<1> QED BY <1>1, <1>2

LEMMA JoinShape ==
    ASSUME NEW S, NEW a \in Seq(S), NEW b \in Seq(S), NEW q, q = a \o b
    PROVE  /\ q \in Seq(S) /\ Len(q) = Len(a) + Len(b)
           /\ \A i \in 1 .. Len(a) : q[i] = a[i]
           /\ \A i \in 1 .. Len(b) : q[Len(a) + i] = b[i]
<1>1. Len(a) \in Nat /\ Len(b) \in Nat
  OBVIOUS
<1>2. /\ q \in Seq(S) /\ Len(q) = Len(a) + Len(b)
      /\ \A i \in 1 .. Len(q) : q[i] = IF i <= Len(a) THEN a[i] ELSE b[i - Len(a)]
  BY ConcatProperties
<1>3. \A i \in 1 .. Len(b) : /\ Len(a) + i \in 1 .. Len(q) /\ ~(Len(a) + i <= Len(a))
                             /\ (Len(a) + i) - Len(a) = i
  BY <1>1, <1>2
<1> QED BY <1>1, <1>2, <1>3

LEMMA CreateShape ==
    LET t == create_derived_key_cache IN
    /\ t \in Seq(Ops) /\ Len(t) = 12
    /\ t[1] = <<"wkek", wkek>> /\ t[2] = <<"seed", seed>> /\ t[3] = <<"derived", "external">>
    /\ t[4] = <<"wkek", wkek>> /\ t[5] = <<"seed", seed>> /\ t[6] = <<"derived", "internal">>
    /\ t[7] = <<"wkek", wkek>> /\ t[8] = <<"seed", seed>> /\ t[9] = <<"derived", "auth">>
    /\ t[10] = <<"wkek", wkek>> /\ t[11] = <<"open", cache>> /\ t[12] = <<"write", cache>>
<1> DEFINE a == derive_key_priv_from_seed("external")
<1> DEFINE b == derive_key_priv_from_seed("internal")
<1> DEFINE c == derive_key_priv_from_seed("auth")
<1> DEFINE d == wkek_encrypt_and_store(cache)
<1>1. /\ a \in Seq(Ops) /\ Len(a) = 3 /\ a[1] = <<"wkek", wkek>> /\ a[2] = <<"seed", seed>>
      /\ a[3] = <<"derived", "external">>
  BY DeriveShape DEF CacheKeys
<1>2. /\ b \in Seq(Ops) /\ Len(b) = 3 /\ b[1] = <<"wkek", wkek>> /\ b[2] = <<"seed", seed>>
      /\ b[3] = <<"derived", "internal">>
  BY DeriveShape DEF CacheKeys
<1>3. /\ c \in Seq(Ops) /\ Len(c) = 3 /\ c[1] = <<"wkek", wkek>> /\ c[2] = <<"seed", seed>>
      /\ c[3] = <<"derived", "auth">>
  BY DeriveShape DEF CacheKeys
<1>4. /\ d \in Seq(Ops) /\ Len(d) = 3 /\ d[1] = <<"wkek", wkek>> /\ d[2] = <<"open", cache>>
      /\ d[3] = <<"write", cache>>
  BY StoreShape, OpFacts
<1>5. create_derived_key_cache = ((a \o b) \o c) \o d
  BY DEF create_derived_key_cache
<1> HIDE DEF a, b, c, d
<1>23. a \in Seq(Ops) /\ b \in Seq(Ops) /\ c \in Seq(Ops) /\ d \in Seq(Ops)
  BY <1>1, <1>2, <1>3, <1>4
<1> DEFINE e == a \o b
<1>20. e = a \o b
  OBVIOUS
<1> HIDE DEF e
<1>7. /\ e \in Seq(Ops) /\ Len(e) = 6 /\ e[1] = <<"wkek", wkek>> /\ e[2] = <<"seed", seed>>
      /\ e[3] = <<"derived", "external">> /\ e[4] = <<"wkek", wkek>>
      /\ e[5] = <<"seed", seed>> /\ e[6] = <<"derived", "internal">>
  <2>1. /\ e \in Seq(Ops) /\ Len(e) = 3 + 3
        /\ \A i \in 1 .. 3 : e[i] = a[i]
        /\ \A i \in 1 .. 3 : e[3 + i] = b[i]
    <3>1. /\ e \in Seq(Ops) /\ Len(e) = Len(a) + Len(b)
          /\ \A i \in 1 .. Len(a) : e[i] = a[i]
          /\ \A i \in 1 .. Len(b) : e[Len(a) + i] = b[i]
      BY <1>20, <1>23, JoinShape
    <3> QED BY <3>1, <1>1, <1>2
  <2>2. e[3 + 1] = b[1] /\ e[3 + 2] = b[2] /\ e[3 + 3] = b[3]
    BY <2>1
  <2> QED BY <1>1, <1>2, <2>1, <2>2
<1> DEFINE g == e \o c
<1>21. g = e \o c
  OBVIOUS
<1> HIDE DEF g
<1>8. /\ g \in Seq(Ops) /\ Len(g) = 9
      /\ \A i \in 1 .. 6 : g[i] = e[i]
      /\ \A i \in 1 .. 3 : g[6 + i] = c[i]
  <2>1. /\ g \in Seq(Ops) /\ Len(g) = Len(e) + Len(c)
        /\ \A i \in 1 .. Len(e) : g[i] = e[i]
        /\ \A i \in 1 .. Len(c) : g[Len(e) + i] = c[i]
    <3>1. e \in Seq(Ops) /\ c \in Seq(Ops)
      BY <1>7, <1>23
    <3> QED
      BY <1>21, <3>1, JoinShape
  <2> QED BY <1>7, <1>3, <2>1
<1> DEFINE h == g \o d
<1>22. h = g \o d
  OBVIOUS
<1> HIDE DEF h
<1>9. /\ h \in Seq(Ops) /\ Len(h) = 12
      /\ \A i \in 1 .. 9 : h[i] = g[i]
      /\ \A i \in 1 .. 3 : h[9 + i] = d[i]
  <2>1. /\ h \in Seq(Ops) /\ Len(h) = Len(g) + Len(d)
        /\ \A i \in 1 .. Len(g) : h[i] = g[i]
        /\ \A i \in 1 .. Len(d) : h[Len(g) + i] = d[i]
    <3>1. g \in Seq(Ops) /\ d \in Seq(Ops)
      BY <1>8, <1>23
    <3> QED
      BY <1>22, <3>1, JoinShape
  <2> QED BY <1>8, <1>4, <2>1
<1>10. /\ h[1] = e[1] /\ h[2] = e[2] /\ h[3] = e[3] /\ h[4] = e[4] /\ h[5] = e[5] /\ h[6] = e[6]
       /\ g[6 + 1] = c[1] /\ g[6 + 2] = c[2] /\ g[6 + 3] = c[3]
       /\ h[9 + 1] = d[1] /\ h[9 + 2] = d[2] /\ h[9 + 3] = d[3]
  BY SMTT(60), <1>8, <1>9
<1>13. h[7] = g[7] /\ h[8] = g[8] /\ h[9] = g[9]
  BY <1>9
<1>11. /\ h[7] = c[1] /\ h[8] = c[2] /\ h[9] = c[3]
       /\ h[10] = d[1] /\ h[11] = d[2] /\ h[12] = d[3]
  BY <1>10, <1>13
<1>12. create_derived_key_cache = h
  BY <1>5 DEF h, g, e
<1> QED BY <1>3, <1>4, <1>7, <1>9, <1>10, <1>11, <1>12

LEMMA CreateHitShape ==
    ASSUME NEW k \in CacheKeys
    PROVE  LET t == create_derived_key_cache \o <<<<"hit", k>>>> IN
           /\ t \in Seq(Ops) /\ Len(t) = 13 /\ t[13] = <<"hit", k>>
           /\ \A i \in 1 .. 12 : t[i] = create_derived_key_cache[i]
<1> DEFINE a == create_derived_key_cache
<1>1. a \in Seq(Ops) /\ Len(a) = 12
  BY CreateShape
<1> HIDE DEF a
<1>2. <<"hit", k>> \in Ops
  BY OpFacts
<1> DEFINE b == <<<<"hit", k>>>>
<1>3. b \in Seq(Ops) /\ Len(b) = 1 /\ b[1] = <<"hit", k>>
  BY <1>2
<1> HIDE DEF b
<1> DEFINE t == a \o b
<1>5. t = a \o b
  OBVIOUS
<1> HIDE DEF t
<1>6. /\ t \in Seq(Ops) /\ Len(t) = Len(a) + Len(b)
      /\ \A i \in 1 .. Len(a) : t[i] = a[i]
      /\ \A i \in 1 .. Len(b) : t[Len(a) + i] = b[i]
  <2>1. a \in Seq(Ops) /\ b \in Seq(Ops)
    BY <1>1, <1>3
  <2> QED
    BY <1>5, <2>1, JoinShape
<1>4. t \in Seq(Ops) /\ Len(t) = 13 /\ \A i \in 1 .. 12 : t[i] = a[i]
  BY <1>1, <1>3, <1>6
<1>7. t[12 + 1] = b[1]
  BY <1>1, <1>3, <1>6
<1>8. t[13] = <<"hit", k>>
  BY <1>3, <1>7
<1> QED BY <1>4, <1>8 DEF a, b, t

UnsealProgram(k) == wkek_lazy_init \o <<<<"unseal", cache>>, <<"hit", k>>>>

LEMMA UnsealShape ==
    ASSUME NEW k \in CacheKeys
    PROVE  /\ UnsealProgram(k) = <<<<"wkek", wkek>>, <<"unseal", cache>>, <<"hit", k>>>>
           /\ UnsealProgram(k) \in Seq(Ops)
<1>1. <<"wkek", wkek>> \in Ops /\ <<"unseal", cache>> \in Ops /\ <<"hit", k>> \in Ops
  BY OpFacts
<1>2. UnsealProgram(k) = <<<<"wkek", wkek>>, <<"unseal", cache>>, <<"hit", k>>>>
  BY <1>1, Join3 DEF UnsealProgram, wkek_lazy_init
<1> QED BY <1>1, <1>2

\* Membership of the sets of operations, by their components.
LEMMA Classes ==
    ASSUME NEW o \in Ops
    PROVE  /\ o \in Loads <=> o[1] \in {"wkek", "load"}
           /\ o \in NeedKek <=> \/ o[1] \in {"seed", "derived", "unseal"}
                                \/ o[1] \in {"open", "write"} /\ o[2] \in {seed, cache, keyset}
           /\ o \in Seeds <=> o[1] = "seed" \/ (o[1] = "write" /\ o[2] = seed)
           /\ o \in NeedSeed <=> o[1] = "derived" \/ (o[1] = "write" /\ o[2] = keyset)
           /\ o \in Caches <=> o[1] \in {"unseal", "write"} /\ o[2] = cache
           /\ o \in Hits <=> o[1] = "hit"
           /\ o \in Looks <=> o[1] \in {"use", "hit"}
           /\ o \in Later <=> \/ o[1] \in {"use", "wkek", "seed", "wsm", "reply"}
                              \/ o[1] = "derived" /\ o[2] = "caller"
                              \/ o[1] \in {"open", "write"} /\ o[2] \in {keyset, pubkey}
           /\ \A f : o \in Stores(f) <=> o[1] \in {"open", "write"} /\ o[2] = f
           /\ o \in Guarded <=> ~(o[1] \in {"wkek", "load"})
                                /\ ~(o[1] \in {"open", "write"} /\ o[2] = wkek)
           /\ \A w, f : o = <<w, f>> <=> o[1] = w /\ o[2] = f
<1>1. o = <<o[1], o[2]>>
  BY OpShape
<1>2. \A w, f : o = <<w, f>> <=> o[1] = w /\ o[2] = f
  BY <1>1
<1>3. \A W : o \in Kind(W) <=> o[1] \in W
  BY DEF Kind
<1>4. \A f : o \in Stores(f) <=> o[1] \in {"open", "write"} /\ o[2] = f
  BY DEF Stores
<1>5. o \in Loads <=> o[1] \in {"wkek", "load"}
  BY <1>3 DEF Loads
<1>6. o \in Seeds <=> o[1] = "seed" \/ (o[1] = "write" /\ o[2] = seed)
  BY <1>2, <1>3 DEF Seeds
<1>7. o \in NeedSeed <=> o[1] = "derived" \/ (o[1] = "write" /\ o[2] = keyset)
  BY <1>2, <1>3 DEF NeedSeed
<1>8. o \in Caches <=> o[1] \in {"unseal", "write"} /\ o[2] = cache
  BY <1>2 DEF Caches
<1>9. (o \in Hits <=> o[1] = "hit") /\ (o \in Looks <=> o[1] \in {"use", "hit"})
  BY <1>3 DEF Hits, Looks
<1>10. o \in NeedKek <=> \/ o[1] \in {"seed", "derived", "unseal"}
                         \/ o[1] \in {"open", "write"} /\ o[2] \in {seed, cache, keyset}
  BY <1>3, <1>4 DEF NeedKek
<1>11. o \in Later <=> \/ o[1] \in {"use", "wkek", "seed", "wsm", "reply"}
                       \/ o[1] = "derived" /\ o[2] = "caller"
                       \/ o[1] \in {"open", "write"} /\ o[2] \in {keyset, pubkey}
  BY <1>2, <1>3, <1>4 DEF Later
<1>12. o \in Guarded <=> ~(o[1] \in {"wkek", "load"})
                         /\ ~(o[1] \in {"open", "write"} /\ o[2] = wkek)
  BY <1>4, <1>5 DEF Guarded
<1> QED BY <1>2, <1>4, <1>5, <1>6, <1>7, <1>8, <1>9, <1>10, <1>11, <1>12

LEMMA PromiseEmpty ==
    ASSUME NEW l, NEW f, NEW g, NEW nk, NEW ns, NEW c
    PROVE  Promise(<<>>, l, f, g, nk, ns, c)
BY DEF Promise, Follow, Served, Lead

LEMMA PromiseLoad ==
    ASSUME NEW l, NEW f, NEW g, NEW nk, NEW ns, NEW c, NEW p, p = <<<<"load", wkek>>>>
    PROVE  /\ Promise(p, l, f, g, nk, ns, c)
           /\ Has(p, Loads) /\ ~Has(p, Looks) /\ \A i \in 1 .. Len(p) : p[i] \in Loads
<1>1. /\ p \in Seq(Ops) /\ Len(p) = 1 /\ p[1] = <<"load", wkek>> /\ p[1] \in Ops
      /\ p[1][1] = "load" /\ p[1][2] = wkek
  BY OpFacts
<1>2. /\ p[1] \in Loads /\ p[1] \notin NeedKek /\ p[1] \notin NeedSeed
      /\ p[1] \notin Hits /\ p[1] \notin Looks /\ p[1] \notin Stores(wkek)
      /\ p[1] \notin Stores(seed) /\ p[1] \notin Guarded /\ p[1] # <<"write", cache>>
  BY <1>1, Classes
<1>3. Has(p, Loads) /\ ~Has(p, Looks) /\ \A i \in 1 .. Len(p) : p[i] \in Loads
  BY <1>1, <1>2 DEF Has
<1>4. \A i \in 1 .. Len(p) : i = 1
  BY <1>1
<1>5. Follow(p, Looks, Later)
  BY <1>2, <1>4 DEF Follow
<1>6. Served(p, NeedKek, Loads, l) /\ Served(p, NeedSeed, Seeds, f) /\ Served(p, Guarded, {}, c)
  BY <1>2, <1>4 DEF Served
<1>7. \A k \in CacheKeys : Served(p, {<<"write", cache>>}, {<<"derived", k>>}, k \in g)
  BY <1>2, <1>4 DEF Served
<1>8. Served(p, Hits, Caches, g = CacheKeys)
  BY <1>2, <1>4 DEF Served
<1>9. /\ Lead(p, Stores(wkek), {<<"open", wkek>>}, nk)
      /\ Lead(p, Stores(seed), Loads \cup {<<"open", seed>>}, ns)
  BY <1>2, <1>4 DEF Lead
<1> QED BY <1>1, <1>3, <1>5, <1>6, <1>7, <1>8, <1>9 DEF Promise

\* A new KEK waits to be stored.
LEMMA PromiseNewKek ==
    ASSUME NEW l, NEW f, NEW g, NEW ns, NEW c, NEW p, p = NewKekProgram
    PROVE  /\ Promise(p, l, f, g, TRUE, ns, c)
           /\ Has(p, Loads) /\ ~Has(p, Looks)
<1>1. /\ p \in Seq(Ops) /\ Len(p) = 3
      /\ p[1] = <<"open", wkek>> /\ p[2] = <<"write", wkek>> /\ p[3] = <<"load", wkek>>
  BY NewKekShape
<1>2. /\ p[1] \in Ops /\ p[2] \in Ops /\ p[3] \in Ops
      /\ p[1][1] = "open" /\ p[2][1] = "write" /\ p[3][1] = "load"
      /\ p[1][2] = wkek /\ p[2][2] = wkek /\ p[3][2] = wkek
  <2>1. p[1] \in Ops /\ p[2] \in Ops /\ p[3] \in Ops
    BY <1>1, OpFacts
  <2> QED BY <1>1, <2>1
<1>3. ASSUME NEW i \in 1 .. Len(p)
      PROVE  /\ p[i] \notin NeedKek /\ p[i] \notin NeedSeed /\ p[i] \notin Hits
             /\ p[i] \notin Looks /\ p[i] \notin Stores(seed) /\ p[i] \notin Guarded
             /\ p[i] # <<"write", cache>>
  <2>1. p[i] \in Ops /\ p[i][1] \in {"open", "write", "load"} /\ p[i][2] = wkek
    BY SMTT(60), <1>1, <1>2
  <2> HIDE DEF NewKekProgram
  <2> QED BY <2>1, Classes, FilesDiffer
<1>4. Follow(p, Looks, Later)
  BY <1>3 DEF Follow
<1>5. Served(p, NeedKek, Loads, l) /\ Served(p, NeedSeed, Seeds, f) /\ Served(p, Guarded, {}, c)
  BY <1>3 DEF Served
<1>6. \A k \in CacheKeys : Served(p, {<<"write", cache>>}, {<<"derived", k>>}, k \in g)
  BY <1>3 DEF Served
<1>7. Served(p, Hits, Caches, g = CacheKeys)
  BY <1>3 DEF Served
<1>8. Lead(p, Stores(seed), Loads \cup {<<"open", seed>>}, ns)
  BY <1>3 DEF Lead
<1>9. Lead(p, Stores(wkek), {<<"open", wkek>>}, TRUE)
  <2>1. p[3] \notin Stores(wkek)
    BY <1>2, Classes
  <2> QED BY <1>1, <2>1 DEF Lead
<1>10. Has(p, Loads) /\ ~Has(p, Looks)
  <2>1. p[3] \in Loads
    BY <1>2, Classes
  <2> QED BY <1>1, <1>3, <2>1 DEF Has
<1> QED BY <1>1, <1>4, <1>5, <1>6, <1>7, <1>8, <1>9, <1>10 DEF Promise

\* A new seed waits to be stored.
LEMMA PromiseNewSeed ==
    ASSUME NEW f, NEW g, NEW nk, NEW p, p = wkek_encrypt_and_store(seed)
    PROVE  /\ Promise(p, TRUE, f, g, nk, TRUE, TRUE)
           /\ Has(p, Seeds) /\ ~Has(p, Looks)
<1>1. /\ p \in Seq(Ops) /\ Len(p) = 3
      /\ p[1] = <<"wkek", wkek>> /\ p[2] = <<"open", seed>> /\ p[3] = <<"write", seed>>
  BY StoreShape, OpFacts
<1>2. /\ p[1] \in Ops /\ p[2] \in Ops /\ p[3] \in Ops
      /\ p[1][1] = "wkek" /\ p[2][1] = "open" /\ p[3][1] = "write"
      /\ p[1][2] = wkek /\ p[2][2] = seed /\ p[3][2] = seed
  <2>1. p[1] \in Ops /\ p[2] \in Ops /\ p[3] \in Ops
    BY <1>1, OpFacts
  <2> QED BY <1>1, <2>1
<1>3. ASSUME NEW i \in 1 .. Len(p)
      PROVE  /\ p[i] \notin NeedSeed /\ p[i] \notin Hits
             /\ p[i] \notin Looks /\ p[i] \notin Stores(wkek)
             /\ p[i] # <<"write", cache>>
  <2>1. /\ p[i] \in Ops /\ p[i][1] \in {"wkek", "open", "write"}
        /\ p[i][1] = "wkek" \/ p[i][2] = seed
    BY SMTT(60), <1>1, <1>2
  <2> QED BY <2>1, Classes, FilesDiffer
<1>4. Follow(p, Looks, Later)
  BY <1>3 DEF Follow
<1>5. Served(p, NeedKek, Loads, TRUE) /\ Served(p, NeedSeed, Seeds, f) /\ Served(p, Guarded, {}, TRUE)
  BY <1>3 DEF Served
<1>6. \A k \in CacheKeys : Served(p, {<<"write", cache>>}, {<<"derived", k>>}, k \in g)
  BY <1>3 DEF Served
<1>7. Served(p, Hits, Caches, g = CacheKeys)
  BY <1>3 DEF Served
<1>8. Lead(p, Stores(wkek), {<<"open", wkek>>}, nk)
  BY <1>3 DEF Lead
<1>9. Lead(p, Stores(seed), Loads \cup {<<"open", seed>>}, TRUE)
  <2>1. p[1] \in Loads /\ p[1] \notin Stores(seed)
    BY <1>2, Classes
  <2> QED BY <1>1, <2>1 DEF Lead
<1>10. Has(p, Seeds) /\ ~Has(p, Looks)
  <2>1. p[3] \in Seeds
    BY <1>2, Classes
  <2> QED BY <1>1, <1>3, <2>1 DEF Has
<1> QED BY <1>1, <1>4, <1>5, <1>6, <1>7, <1>8, <1>9, <1>10 DEF Promise

\* A program of Later that loads the KEK and the seed before it needs them.
LEMMA PromiseLater ==
    ASSUME NEW p \in Seq(Ops), NEW l, NEW f, NEW g, NEW nk, NEW ns,
           \A i \in 1 .. Len(p) : p[i] \in Later,
           Served(p, NeedKek, Loads, l), Served(p, NeedSeed, Seeds, f)
    PROVE  Promise(p, l, f, g, nk, ns, TRUE)
<1>1. ASSUME NEW i \in 1 .. Len(p)
      PROVE  /\ p[i] \notin Hits /\ p[i] \notin Stores(wkek) /\ p[i] \notin Stores(seed)
             /\ p[i] # <<"write", cache>>
  <2>1. p[i] \in Ops /\ p[i] \in Later
    OBVIOUS
  <2> QED BY <2>1, Classes, FilesDiffer
<1>2. Follow(p, Looks, Later)
  BY DEF Follow
<1>3. Served(p, Guarded, {}, TRUE)
  BY DEF Served
<1>4. \A k \in CacheKeys : Served(p, {<<"write", cache>>}, {<<"derived", k>>}, k \in g)
  BY <1>1 DEF Served
<1>5. Served(p, Hits, Caches, g = CacheKeys)
  BY <1>1 DEF Served
<1>6. /\ Lead(p, Stores(wkek), {<<"open", wkek>>}, nk)
      /\ Lead(p, Stores(seed), Loads \cup {<<"open", seed>>}, ns)
  BY <1>1 DEF Lead
<1> QED BY <1>2, <1>3, <1>4, <1>5, <1>6 DEF Promise

\* A program that begins with the KEK and the seed.
LEMMA Begins ==
    ASSUME NEW p \in Seq(Ops), Len(p) >= 2, p[1][1] = "wkek", p[2][1] = "seed", NEW l, NEW f
    PROVE  Served(p, NeedKek, Loads, l) /\ Served(p, NeedSeed, Seeds, f)
<1>1. /\ p[1] \in Ops /\ p[2] \in Ops /\ 1 \in 1 .. Len(p) /\ 2 \in 1 .. Len(p)
  OBVIOUS
<1>2. p[1] \in Loads /\ p[1] \notin NeedKek /\ p[1] \notin NeedSeed /\ p[2] \in Seeds /\ p[2] \notin NeedSeed
  BY <1>1, Classes
<1>3. \A i \in 1 .. Len(p) : i = 1 \/ 1 \in 1 .. i - 1
  OBVIOUS
<1>4. \A i \in 1 .. Len(p) : i = 1 \/ i = 2 \/ 2 \in 1 .. i - 1
  OBVIOUS
<1>5. Served(p, NeedKek, Loads, l)
  BY <1>2, <1>3 DEF Served
<1>6. Served(p, NeedSeed, Seeds, f)
  BY <1>2, <1>4 DEF Served
<1> QED BY <1>5, <1>6

\* The key is derived from the seed, for the caller.
LEMMA PromiseDerive ==
    ASSUME NEW l, NEW f, NEW g, NEW nk, NEW ns, NEW p, p = derive_key_priv_from_seed("caller")
    PROVE  Promise(p, l, f, g, nk, ns, TRUE) /\ ~Has(p, Looks)
<1>1. /\ p \in Seq(Ops) /\ Len(p) = 3
      /\ p[1] = <<"wkek", wkek>> /\ p[2] = <<"seed", seed>> /\ p[3] = <<"derived", "caller">>
  BY DeriveShape
<1>2. /\ p[1] \in Ops /\ p[2] \in Ops /\ p[3] \in Ops
      /\ p[1][1] = "wkek" /\ p[2][1] = "seed" /\ p[3][1] = "derived" /\ p[3][2] = "caller"
  <2>1. p[1] \in Ops /\ p[2] \in Ops /\ p[3] \in Ops
    BY <1>1, OpFacts
  <2> QED BY <1>1, <2>1
<1>3. /\ p[1] \in Later /\ p[2] \in Later /\ p[3] \in Later
      /\ p[1] \notin Looks /\ p[2] \notin Looks /\ p[3] \notin Looks
  BY <1>2, Classes
<1>4. \A i \in 1 .. Len(p) : p[i] \in Later /\ p[i] \notin Looks
  BY <1>1, <1>3
<1>7. p \in Seq(Ops) /\ Len(p) >= 2 /\ p[1][1] = "wkek" /\ p[2][1] = "seed"
  BY <1>1, <1>2
<1>5. Served(p, NeedKek, Loads, l) /\ Served(p, NeedSeed, Seeds, f)
  BY <1>7, Begins
<1> HIDE DEF derive_key_priv_from_seed
<1>6. Promise(p, l, f, g, nk, ns, TRUE)
  BY <1>1, <1>4, <1>5, PromiseLater
<1> QED BY <1>4, <1>6 DEF Has

LEMMA PromiseHit ==
    ASSUME NEW k \in CacheKeys, NEW l, NEW f, NEW nk, NEW ns, NEW p, p = <<<<"hit", k>>>>
    PROVE  Promise(p, l, f, CacheKeys, nk, ns, TRUE)
<1>1. /\ p \in Seq(Ops) /\ Len(p) = 1 /\ p[1] \in Ops /\ p[1][1] = "hit"
  <2>1. <<"hit", k>> \in Ops
    BY OpFacts
  <2> QED BY <2>1
<1>2. /\ p[1] \notin NeedKek /\ p[1] \notin NeedSeed /\ p[1] \notin Stores(wkek)
      /\ p[1] \notin Stores(seed) /\ p[1] # <<"write", cache>>
  BY <1>1, Classes
<1>3. \A i \in 1 .. Len(p) : i = 1
  BY <1>1
<1>4. Follow(p, Looks, Later)
  BY <1>3 DEF Follow
<1>5. Served(p, NeedKek, Loads, l) /\ Served(p, NeedSeed, Seeds, f) /\ Served(p, Guarded, {}, TRUE)
  BY <1>2, <1>3 DEF Served
<1>6. \A j \in CacheKeys : Served(p, {<<"write", cache>>}, {<<"derived", j>>}, j \in CacheKeys)
  BY <1>2, <1>3 DEF Served
<1>7. Served(p, Hits, Caches, CacheKeys = CacheKeys)
  BY DEF Served
<1>8. /\ Lead(p, Stores(wkek), {<<"open", wkek>>}, nk)
      /\ Lead(p, Stores(seed), Loads \cup {<<"open", seed>>}, ns)
  BY <1>2, <1>3 DEF Lead
<1> QED BY <1>1, <1>4, <1>5, <1>6, <1>7, <1>8 DEF Promise

\* What the operations of create_derived_key_cache are not.
LEMMA CreateOps ==
    ASSUME NEW i \in 1 .. 12
    PROVE  LET o == create_derived_key_cache[i] IN
           /\ o \in Ops
           /\ o \notin Hits /\ o \notin Looks /\ o \notin Stores(wkek) /\ o \notin Stores(seed)
           /\ o = <<"write", cache>> => i = 12
<1> DEFINE t == create_derived_key_cache
<1> DEFINE o == t[i]
<1>1. /\ t \in Seq(Ops) /\ Len(t) = 12
      /\ t[1] = <<"wkek", wkek>> /\ t[2] = <<"seed", seed>> /\ t[3] = <<"derived", "external">>
      /\ t[4] = <<"wkek", wkek>> /\ t[5] = <<"seed", seed>> /\ t[6] = <<"derived", "internal">>
      /\ t[7] = <<"wkek", wkek>> /\ t[8] = <<"seed", seed>> /\ t[9] = <<"derived", "auth">>
      /\ t[10] = <<"wkek", wkek>> /\ t[11] = <<"open", cache>> /\ t[12] = <<"write", cache>>
  BY CreateShape
<1> HIDE DEF t
<1>2. t[i] \in Ops
  <2>1. t \in Seq(Ops) /\ Len(t) = 12
    BY <1>1
  <2>2. i \in 1 .. Len(t)
    BY <2>1
  <2> QED BY <2>1, <2>2, ElementOfSeq
<1>3. i \in {1, 2, 3, 4, 5, 6, 7, 8, 9, 10, 11, 12}
  OBVIOUS
<1>4. /\ i \in {1, 4, 7, 10} => t[i][1] = "wkek"
      /\ i \in {2, 5, 8} => t[i][1] = "seed"
      /\ i \in {3, 6, 9} => t[i][1] = "derived"
      /\ i = 11 => t[i][1] = "open" /\ t[i][2] = cache
      /\ i = 12 => t[i][1] = "write" /\ t[i][2] = cache
  BY SMTT(60), <1>1
<1>5. /\ t[i][1] \in {"wkek", "seed", "derived"} \/ t[i][2] = cache
      /\ t[i][1] \in {"wkek", "seed", "derived", "open", "write"}
      /\ t[i][1] = "write" => i = 12
  BY <1>3, <1>4
<1> HIDE DEF o
<1>6. o \in Ops /\ (o[1] \in {"wkek", "seed", "derived"} \/ o[2] = cache)
      /\ o[1] \in {"wkek", "seed", "derived", "open", "write"} /\ (o[1] = "write" => i = 12)
  BY <1>2, <1>5 DEF o
<1>7. /\ o \notin Hits /\ o \notin Looks /\ o \notin Stores(wkek) /\ o \notin Stores(seed)
      /\ o = <<"write", cache>> => i = 12
  BY <1>6, Classes, FilesDiffer
<1> QED BY <1>6, <1>7 DEF o, t

LEMMA Dozen ==
    ASSUME NEW n \in 12 .. 13
    PROVE  n \in Nat /\ n <= 13 /\ n >= 12 /\ \A i \in 1 .. n : i \in 1 .. 12 \/ i = 13
OBVIOUS

\* A program that begins with the creation of the cache, and may use it then.
LEMMA PromiseCreates ==
    ASSUME NEW p \in Seq(Ops), NEW n \in 12 .. 13, n = Len(p),
           \A i \in 1 .. 12 : p[i] = create_derived_key_cache[i],
           n = 13 => p[13] \in Hits, NEW l, NEW f, NEW g, NEW nk, NEW ns
    PROVE  Promise(p, l, f, g, nk, ns, TRUE) /\ Has(p, Caches) /\ (n = 12 => ~Has(p, Looks))
<1>12. n \in Nat /\ n = Len(p) /\ n <= 13 /\ n >= 12
       /\ \A i \in 1 .. n : i \in 1 .. 12 \/ i = 13
  BY Dozen
<1> DEFINE t == create_derived_key_cache
<1>10. /\ t[1] = <<"wkek", wkek>> /\ t[2] = <<"seed", seed>>
       /\ t[3] = <<"derived", "external">> /\ t[6] = <<"derived", "internal">>
       /\ t[9] = <<"derived", "auth">> /\ t[12] = <<"write", cache>>
  BY CreateShape
<1>11. /\ p[1] = t[1] /\ p[2] = t[2] /\ p[3] = t[3] /\ p[6] = t[6] /\ p[9] = t[9] /\ p[12] = t[12]
  OBVIOUS
<1> HIDE DEF t
<1>1. /\ p[1] = <<"wkek", wkek>> /\ p[2] = <<"seed", seed>>
      /\ p[3] = <<"derived", "external">> /\ p[6] = <<"derived", "internal">>
      /\ p[9] = <<"derived", "auth">> /\ p[12] = <<"write", cache>>
  BY <1>10, <1>11
<1>2. ASSUME NEW i \in 1 .. n
      PROVE  /\ p[i] \in Hits => i = 13
             /\ p[i] \in Looks => i = 13
             /\ p[i] \notin Stores(wkek) /\ p[i] \notin Stores(seed)
             /\ p[i] = <<"write", cache>> => i = 12
  <2>1. CASE i \in 1 .. 12
    BY <2>1, CreateOps
  <2>2. CASE i = 13
    <3>1. n = 13 /\ i \in 1 .. Len(p)
      BY SMTT(60), <2>2
    <3>2. p[i] \in Hits
      BY <2>2, <3>1
    <3>3. p[i] \in Ops /\ p[i][1] = "hit"
      BY <3>2 DEF Hits, Kind
    <3> QED BY <2>2, <3>2, <3>3, Classes
  <2>3. i \in 1 .. 12 \/ i = 13
    BY <1>12
  <2> QED BY <2>1, <2>2, <2>3
<1>3. Served(p, NeedKek, Loads, l) /\ Served(p, NeedSeed, Seeds, f)
  <2>1. p[1][1] = "wkek" /\ p[2][1] = "seed"
    BY <1>1
  <2>2. Len(p) >= 2
    BY <1>12
  <2> QED BY <2>1, <2>2, Begins
<1>4. Follow(p, Looks, Later)
  <2>1. \A i, j \in 1 .. n : i < j => p[i] \notin Looks
    BY <1>2, <1>12
  <2> QED BY <1>12, <2>1 DEF Follow
<1>5. ASSUME NEW k \in CacheKeys
      PROVE  Served(p, {<<"write", cache>>}, {<<"derived", k>>}, k \in g)
  <2>1. p[3] = <<"derived", k>> \/ p[6] = <<"derived", k>> \/ p[9] = <<"derived", k>>
    BY <1>1 DEF CacheKeys
  <2>3. SUFFICES ASSUME NEW i \in 1 .. Len(p), p[i] = <<"write", cache>>
                 PROVE  \E j \in 1 .. i - 1 : p[j] = <<"derived", k>>
    BY DEF Served
  <2>4. 3 \in 1 .. i - 1 /\ 6 \in 1 .. i - 1 /\ 9 \in 1 .. i - 1
    <3>1. i = 12
      BY <1>2, <1>12, <2>3
    <3> QED BY <3>1
  <2> QED BY <2>1, <2>4
<1>6. Served(p, Hits, Caches, g = CacheKeys)
  <2>1. p[12] \in Caches
    BY <1>1 DEF Caches
  <2>2. \A i \in 1 .. Len(p) : p[i] \in Hits => 12 \in 1 .. i - 1
    BY <1>2
  <2> QED BY <2>1, <2>2 DEF Served
<1>7. /\ Lead(p, Stores(wkek), {<<"open", wkek>>}, nk)
      /\ Lead(p, Stores(seed), Loads \cup {<<"open", seed>>}, ns)
  BY <1>2 DEF Lead
<1>8. Served(p, Guarded, {}, TRUE)
  BY DEF Served
<1>9. Has(p, Caches) /\ (n = 12 => ~Has(p, Looks))
  <2>1. p[12] \in Caches
    BY <1>1 DEF Caches
  <2>2. 12 \in 1 .. Len(p)
    BY <1>12
  <2>3. n = 12 => \A i \in 1 .. Len(p) : p[i] \notin Looks
    BY SMTT(60), <1>2, <1>12
  <2> QED BY <2>1, <2>2, <2>3 DEF Has
<1> QED BY <1>3, <1>4, <1>5, <1>6, <1>7, <1>8, <1>9 DEF Promise

LEMMA PromiseCreate ==
    ASSUME NEW l, NEW f, NEW g, NEW nk, NEW ns
    PROVE  LET p == create_derived_key_cache IN
           Promise(p, l, f, g, nk, ns, TRUE) /\ Has(p, Caches) /\ ~Has(p, Looks)
<1> DEFINE p == create_derived_key_cache
<1>1. p \in Seq(Ops) /\ Len(p) = 12
  BY CreateShape
<1>2. \A i \in 1 .. 12 : p[i] = create_derived_key_cache[i]
  OBVIOUS
<1> DEFINE n == 12
<1>3. p \in Seq(Ops) /\ n = Len(p) /\ n \in 12 .. 13 /\ n # 13
  BY <1>1
<1> HIDE DEF p, n
<1>4. Promise(p, l, f, g, nk, ns, TRUE) /\ Has(p, Caches) /\ (n = 12 => ~Has(p, Looks))
  BY <1>2, <1>3, PromiseCreates
<1> QED BY <1>4 DEF p, n

LEMMA PromiseCreateHit ==
    ASSUME NEW k \in CacheKeys, NEW l, NEW f, NEW g, NEW nk, NEW ns
    PROVE  Promise(create_derived_key_cache \o <<<<"hit", k>>>>, l, f, g, nk, ns, TRUE)
<1> DEFINE p == create_derived_key_cache \o <<<<"hit", k>>>>
<1>1. /\ p \in Seq(Ops) /\ Len(p) = 13 /\ p[13] = <<"hit", k>>
      /\ \A i \in 1 .. 12 : p[i] = create_derived_key_cache[i]
  BY CreateHitShape
<1> HIDE DEF p
<1>2. p[13] \in Hits
  <2>1. <<"hit", k>> \in Hits
    BY OpFacts DEF Hits, Kind
  <2> QED BY <1>1, <2>1
<1> DEFINE n == 13
<1>3. p \in Seq(Ops) /\ n = Len(p) /\ n \in 12 .. 13 /\ \A i \in 1 .. 12 : p[i] = create_derived_key_cache[i]
  BY <1>1
<1> HIDE DEF n
<1>4. Promise(p, l, f, g, nk, ns, TRUE)
  BY <1>2, <1>3, PromiseCreates
<1> QED BY <1>4 DEF p

LEMMA PromiseUnseal ==
    ASSUME NEW k \in CacheKeys, NEW l, NEW f, NEW g, NEW nk, NEW ns, NEW p, p = UnsealProgram(k)
    PROVE  Promise(p, l, f, g, nk, ns, TRUE)
<1>1. /\ p \in Seq(Ops) /\ Len(p) = 3
      /\ p[1] = <<"wkek", wkek>> /\ p[2] = <<"unseal", cache>> /\ p[3] = <<"hit", k>>
  BY UnsealShape
<1>2. /\ p[1] \in Ops /\ p[2] \in Ops /\ p[3] \in Ops
      /\ p[1][1] = "wkek" /\ p[2][1] = "unseal" /\ p[2][2] = cache /\ p[3][1] = "hit"
  <2>1. p[1] \in Ops /\ p[2] \in Ops /\ p[3] \in Ops
    BY <1>1, OpFacts
  <2> QED BY <1>1, <2>1
<1>3. /\ p[1] \in Loads /\ p[1] \notin NeedKek /\ p[2] \in Caches
      /\ p[1] \notin Looks /\ p[2] \notin Looks /\ p[1] \notin Hits /\ p[2] \notin Hits
  BY <1>2, Classes
<1>4. ASSUME NEW i \in 1 .. Len(p)
      PROVE  /\ p[i] \notin NeedSeed /\ p[i] \notin Stores(wkek) /\ p[i] \notin Stores(seed)
             /\ p[i] # <<"write", cache>>
  <2>1. p[i] \in Ops /\ p[i][1] \in {"wkek", "unseal", "hit"}
    BY <1>1, <1>2
  <2> QED BY <2>1, Classes
<1> HIDE DEF UnsealProgram
<1>5. Follow(p, Looks, Later)
  BY SMTT(60), <1>1, <1>3 DEF Follow
<1>6. Served(p, NeedKek, Loads, l)
  BY <1>1, <1>3 DEF Served
<1>7. Served(p, NeedSeed, Seeds, f) /\ Served(p, Guarded, {}, TRUE)
  BY <1>4 DEF Served
<1>8. \A j \in CacheKeys : Served(p, {<<"write", cache>>}, {<<"derived", j>>}, j \in g)
  BY <1>4 DEF Served
<1>9. Served(p, Hits, Caches, g = CacheKeys)
  BY <1>1, <1>3 DEF Served
<1>10. /\ Lead(p, Stores(wkek), {<<"open", wkek>>}, nk)
       /\ Lead(p, Stores(seed), Loads \cup {<<"open", seed>>}, ns)
  BY <1>4 DEF Lead
<1> QED BY <1>1, <1>5, <1>6, <1>7, <1>8, <1>9, <1>10 DEF Promise

\* A program of Later that has loaded the KEK and the seed before it needs them,
\* and goes on to what a use of the cache leaves.
Begun(p) ==
    /\ p \in Seq(Ops) /\ \A i \in 1 .. Len(p) : p[i] \in Later
    /\ Served(p, NeedKek, Loads, FALSE) /\ Served(p, NeedSeed, Seeds, FALSE)
    /\ Has(p, Loads) /\ Has(p, Seeds)

LEMMA ServedJoin ==
    ASSUME NEW S, NEW a \in Seq(S), NEW b \in Seq(S), NEW N, NEW X, NEW q, q = a \o b,
           Served(a, N, X, FALSE), Has(a, X)
    PROVE  Served(q, N, X, FALSE) /\ Has(q, X)
<1>1. /\ q \in Seq(S) /\ Len(q) = Len(a) + Len(b)
      /\ \A i \in 1 .. Len(a) : q[i] = a[i]
      /\ Len(a) \in Nat /\ Len(b) \in Nat
  BY JoinShape
<1>2. PICK k \in 1 .. Len(a) : a[k] \in X
  BY DEF Has
<1>3. q[k] \in X /\ k \in 1 .. Len(q)
  BY <1>1, <1>2
<1>4. ASSUME NEW i \in 1 .. Len(q), q[i] \in N PROVE \E j \in 1 .. i - 1 : q[j] \in X
  <2>1. CASE i <= Len(a)
    <3>1. i \in 1 .. Len(a) /\ a[i] \in N
      BY <1>1, <1>4, <2>1
    <3>2. PICK j \in 1 .. i - 1 : a[j] \in X
      BY <3>1 DEF Served
    <3>3. j \in 1 .. Len(a)
      BY <3>1, <1>1
    <3> QED BY <3>2, <3>3, <1>1
  <2>2. CASE i > Len(a)
    <3>1. k \in 1 .. i - 1
      BY <1>1, <2>2
    <3> QED BY <3>1, <1>3
  <2> QED BY <1>1, <2>1, <2>2
<1> QED BY <1>3, <1>4 DEF Served, Has

LEMMA BegunJoin ==
    ASSUME NEW a, Begun(a), NEW b \in Seq(Ops), \A i \in 1 .. Len(b) : b[i] \in Later
    PROVE  Begun(a \o b)
<1> DEFINE q == a \o b
<1>1. a \in Seq(Ops) /\ \A i \in 1 .. Len(a) : a[i] \in Later
  BY DEF Begun
<1>2. q = a \o b
  OBVIOUS
<1> HIDE DEF q
<1>3. /\ q \in Seq(Ops) /\ Len(q) = Len(a) + Len(b)
      /\ \A i \in 1 .. Len(q) : q[i] = IF i <= Len(a) THEN a[i] ELSE b[i - Len(a)]
      /\ Len(a) \in Nat /\ Len(b) \in Nat
  BY <1>1, <1>2, ConcatProperties
<1>4. \A i \in 1 .. Len(q) : q[i] \in Later
  <2> TAKE i \in 1 .. Len(q)
  <2>1. CASE i <= Len(a)
    BY <1>1, <1>3, <2>1
  <2>2. CASE i > Len(a)
    <3>1. i - Len(a) \in 1 .. Len(b) /\ q[i] = b[i - Len(a)]
      BY <1>3, <2>2
    <3> QED BY <3>1
  <2> QED BY <1>3, <2>1, <2>2
<1>5. Served(q, NeedKek, Loads, FALSE) /\ Has(q, Loads)
  BY <1>1, <1>2, ServedJoin DEF Begun
<1>6. Served(q, NeedSeed, Seeds, FALSE) /\ Has(q, Seeds)
  BY <1>1, <1>2, ServedJoin DEF Begun
<1>7. Begun(q)
  BY <1>3, <1>4, <1>5, <1>6 DEF Begun
<1> QED BY <1>7 DEF q

LEMMA BegunPromise ==
    ASSUME NEW p, Begun(p), NEW l, NEW f, NEW g, NEW nk, NEW ns
    PROVE  Promise(p, l, f, g, nk, ns, TRUE)
<1>1. p \in Seq(Ops) /\ \A i \in 1 .. Len(p) : p[i] \in Later
  BY DEF Begun
<1>2. Served(p, NeedKek, Loads, l) /\ Served(p, NeedSeed, Seeds, f)
  BY DEF Begun, Served
<1> QED BY <1>1, <1>2, PromiseLater

LEMMA DeriveBegun ==
    LET p == derive_key_priv_from_seed("caller") IN Begun(p)
<1> DEFINE p == derive_key_priv_from_seed("caller")
<1>1. /\ p \in Seq(Ops) /\ Len(p) = 3
      /\ p[1] = <<"wkek", wkek>> /\ p[2] = <<"seed", seed>> /\ p[3] = <<"derived", "caller">>
  BY DeriveShape
<1> HIDE DEF p
<1>2. /\ p[1] \in Ops /\ p[2] \in Ops /\ p[3] \in Ops
      /\ p[1][1] = "wkek" /\ p[2][1] = "seed" /\ p[3][1] = "derived" /\ p[3][2] = "caller"
  <2>1. p[1] \in Ops /\ p[2] \in Ops /\ p[3] \in Ops
    BY <1>1, OpFacts
  <2> QED BY <1>1, <2>1
<1>3. p[1] \in Later /\ p[2] \in Later /\ p[3] \in Later /\ p[1] \in Loads /\ p[2] \in Seeds
  BY <1>2, Classes
<1>4. (\A i \in 1 .. Len(p) : p[i] \in Later) /\ Has(p, Loads) /\ Has(p, Seeds)
  BY <1>1, <1>3 DEF Has
<1>7. p \in Seq(Ops) /\ Len(p) >= 2 /\ p[1][1] = "wkek" /\ p[2][1] = "seed"
  BY <1>1, <1>2
<1>5. Served(p, NeedKek, Loads, FALSE) /\ Served(p, NeedSeed, Seeds, FALSE)
  BY <1>7, Begins
<1>6. Begun(p)
  BY <1>7, <1>4, <1>5 DEF Begun
<1> QED BY <1>6 DEF p

\* Programs of one operation.
LEMMA OneLater ==
    ASSUME NEW o \in Ops, o \in Later
    PROVE  <<o>> \in Seq(Ops) /\ Len(<<o>>) = 1 /\ \A i \in 1 .. Len(<<o>>) : <<o>>[i] \in Later
OBVIOUS

LEMMA LaterOps ==
    /\ \A k \in CacheKeys : <<"use", k>> \in Ops /\ <<"use", k>> \in Later
    /\ <<"reply", seed>> \in Ops /\ <<"reply", seed>> \in Later
    /\ <<"wsm", keyset>> \in Ops /\ <<"wsm", keyset>> \in Later
    /\ <<"wkek", wkek>> \in Ops /\ <<"wkek", wkek>> \in Later
    /\ \A f \in {keyset, pubkey} :
         /\ <<"open", f>> \in Ops /\ <<"open", f>> \in Later
         /\ <<"write", f>> \in Ops /\ <<"write", f>> \in Later
<1>1. /\ \A k \in CacheKeys : <<"use", k>> \in Ops
      /\ <<"reply", seed>> \in Ops /\ <<"wsm", keyset>> \in Ops /\ <<"wkek", wkek>> \in Ops
      /\ \A f \in {keyset, pubkey} : <<"open", f>> \in Ops /\ <<"write", f>> \in Ops
  BY OpFacts
<1>2. \A k \in CacheKeys : <<"use", k>> \in Later
  BY <1>1 DEF Later, Kind
<1>3. <<"reply", seed>> \in Later /\ <<"wsm", keyset>> \in Later /\ <<"wkek", wkek>> \in Later
  BY <1>1 DEF Later, Kind
<1>4. \A f \in {keyset, pubkey} : <<"open", f>> \in Later /\ <<"write", f>> \in Later
  BY <1>1 DEF Later, Stores
<1> QED BY <1>1, <1>2, <1>3, <1>4

\* handle_derive
LEMMA DeriveCommand ==
    ASSUME NEW l, NEW f, NEW g, NEW nk, NEW ns
    PROVE  Promise(derive_key_priv_from_seed("caller") \o <<<<"reply", seed>>>>, l, f, g, nk, ns, TRUE)
<1>1. <<<<"reply", seed>>>> \in Seq(Ops) /\ \A i \in 1 .. Len(<<<<"reply", seed>>>>) : <<<<"reply", seed>>>>[i] \in Later
  BY LaterOps, OneLater
<1>2. Begun(derive_key_priv_from_seed("caller") \o <<<<"reply", seed>>>>)
  BY <1>1, DeriveBegun, BegunJoin
<1> QED BY <1>2, BegunPromise

\* key_manager_derive_and_sign
LEMMA SignCommand ==
    ASSUME NEW k \in CacheKeys, NEW l, NEW f, NEW g, NEW nk, NEW ns
    PROVE  Promise(wallet_derive_key_priv_using_cache(k) \o <<<<"reply", seed>>>>, l, f, g, nk, ns, TRUE)
<1> DEFINE p == wallet_derive_key_priv_using_cache(k) \o <<<<"reply", seed>>>>
<1>1. <<"use", k>> \in Ops /\ <<"reply", seed>> \in Ops
  BY LaterOps
<1>2. p \in Seq(Ops) /\ Len(p) = 2 /\ p[1] = <<"use", k>> /\ p[2] = <<"reply", seed>>
  BY <1>1 DEF wallet_derive_key_priv_using_cache
<1> HIDE DEF p
<1>3. p[1] \in Ops /\ p[2] \in Ops /\ p[1][1] = "use" /\ p[2][1] = "reply"
  BY <1>1, <1>2
<1>4. \A i \in 1 .. Len(p) : p[i] \in Ops /\ p[i][1] \in {"use", "reply"}
  BY <1>2, <1>3
<1>5. \A i \in 1 .. Len(p) : p[i] \in Later /\ p[i] \notin NeedKek /\ p[i] \notin NeedSeed
  BY <1>4, Classes
<1>6. p \in Seq(Ops)
  BY <1>2
<1>7. Served(p, NeedKek, Loads, l) /\ Served(p, NeedSeed, Seeds, f)
  BY <1>5 DEF Served
<1>8. Promise(p, l, f, g, nk, ns, TRUE)
  BY <1>5, <1>6, <1>7, PromiseLater
<1> QED BY <1>8 DEF p

\* key_manager_task_port_handle_verify_keys_and_build_descriptor
LEMMA BuildCommand ==
    ASSUME NEW l, NEW f, NEW g, NEW nk, NEW ns
    PROVE  Promise(key_manager_task_port_handle_verify_keys_and_build_descriptor, l, f, g, nk, ns, TRUE)
<1> DEFINE u == wallet_derive_key_priv_using_cache("auth")
<1> DEFINE d == derive_key_priv_from_seed("caller")
<1> DEFINE w == <<<<"wsm", keyset>>>>
<1> DEFINE s == wkek_encrypt_and_store(keyset)
<1> DEFINE k == fs_util_write_global(pubkey)
<1> DEFINE r == <<<<"reply", seed>>>>
<1>1. /\ w \in Seq(Ops) /\ \A i \in 1 .. Len(w) : w[i] \in Later
      /\ r \in Seq(Ops) /\ \A i \in 1 .. Len(r) : r[i] \in Later
  BY LaterOps, OneLater
<1>2. <<"use", "auth">> \in Ops /\ <<"use", "auth">> \in Later
  BY LaterOps DEF CacheKeys
<1>3. u \in Seq(Ops) /\ Len(u) = 1 /\ u[1] = <<"use", "auth">> /\ \A i \in 1 .. Len(u) : u[i] \in Later
  BY <1>2 DEF wallet_derive_key_priv_using_cache
<1>4. s \in Seq(Ops) /\ \A i \in 1 .. Len(s) : s[i] \in Later
  <2>1. s = <<<<"wkek", wkek>>, <<"open", keyset>>, <<"write", keyset>>>>
    BY StoreShape, OpFacts
  <2> HIDE DEF s
  <2>2. /\ <<"wkek", wkek>> \in Ops /\ <<"wkek", wkek>> \in Later
        /\ <<"open", keyset>> \in Ops /\ <<"open", keyset>> \in Later
        /\ <<"write", keyset>> \in Ops /\ <<"write", keyset>> \in Later
    BY LaterOps
  <2> QED BY <2>1, <2>2
<1>5. k \in Seq(Ops) /\ \A i \in 1 .. Len(k) : k[i] \in Later
  <2>1. k = <<<<"open", pubkey>>, <<"write", pubkey>>>>
    BY DEF fs_util_write_global
  <2> HIDE DEF k
  <2>2. /\ <<"open", pubkey>> \in Ops /\ <<"open", pubkey>> \in Later
        /\ <<"write", pubkey>> \in Ops /\ <<"write", pubkey>> \in Later
    BY LaterOps
  <2> QED BY <2>1, <2>2
<1>6. /\ d \in Seq(Ops) /\ Len(d) = 3
      /\ d[1] = <<"wkek", wkek>> /\ d[2] = <<"seed", seed>> /\ d[3] = <<"derived", "caller">>
  BY DeriveShape
<1>7. Begun(d)
  BY DeriveBegun
<1>8. key_manager_task_port_handle_verify_keys_and_build_descriptor =
        (((((u \o d) \o w) \o s) \o k) \o u) \o r
  BY DEF key_manager_task_port_handle_verify_keys_and_build_descriptor
<1> DEFINE a == u \o d
<1>9. a = u \o d
  OBVIOUS
<1> HIDE DEF u, d, w, s, k, r, a
<1>10. /\ a \in Seq(Ops) /\ Len(a) = 4 /\ a[1] = u[1]
       /\ a[2] = d[1] /\ a[3] = d[2] /\ a[4] = d[3]
  <2>1. u \in Seq(Ops) /\ d \in Seq(Ops)
    BY <1>3, <1>6
  <2>2. /\ a \in Seq(Ops) /\ Len(a) = Len(u) + Len(d)
        /\ \A i \in 1 .. Len(u) : a[i] = u[i]
        /\ \A i \in 1 .. Len(d) : a[Len(u) + i] = d[i]
    BY <1>9, <2>1, JoinShape
  <2>3. Len(u) = 1 /\ Len(d) = 3
    BY <1>3, <1>6
  <2>4. a[1] = u[1] /\ a[1 + 1] = d[1] /\ a[1 + 2] = d[2] /\ a[1 + 3] = d[3]
    BY <2>2, <2>3
  <2> QED BY <2>2, <2>3, <2>4
<1>11. Begun(a)
  <2>1. /\ a[1] \in Ops /\ a[2] \in Ops /\ a[3] \in Ops /\ a[4] \in Ops
        /\ a[1][1] = "use" /\ a[2][1] = "wkek" /\ a[3][1] = "seed"
        /\ a[4][1] = "derived" /\ a[4][2] = "caller"
    <3>1. a[1] = <<"use", "auth">> /\ a[2] = <<"wkek", wkek>> /\ a[3] = <<"seed", seed>> /\ a[4] = <<"derived", "caller">>
      BY <1>3, <1>6, <1>10
    <3>2. a[1] \in Ops /\ a[2] \in Ops /\ a[3] \in Ops /\ a[4] \in Ops
      BY <3>1, <1>2, OpFacts
    <3> QED BY <3>1, <3>2
  <2>2. /\ a[1] \in Later /\ a[2] \in Later /\ a[3] \in Later /\ a[4] \in Later
        /\ a[1] \notin NeedKek /\ a[2] \notin NeedKek /\ a[2] \in Loads
        /\ a[1] \notin NeedSeed /\ a[2] \notin NeedSeed /\ a[3] \notin NeedSeed /\ a[3] \in Seeds
    BY <2>1, Classes
  <2>3. a \in Seq(Ops) /\ Len(a) = 4
    BY <1>10
  <2>7. \A i \in 1 .. Len(a) : i = 1 \/ i = 2 \/ i = 3 \/ i = 4
    BY <2>3
  <2>4. (\A i \in 1 .. Len(a) : a[i] \in Later) /\ Has(a, Loads) /\ Has(a, Seeds)
    <3>1. 2 \in 1 .. Len(a) /\ 3 \in 1 .. Len(a)
      BY <2>3
    <3> QED BY <2>2, <2>7, <3>1 DEF Has
  <2>5. Served(a, NeedKek, Loads, FALSE)
    <3>1. 2 \in 1 .. 3 - 1 /\ 2 \in 1 .. 4 - 1
      OBVIOUS
    <3> QED BY <2>2, <2>7, <3>1 DEF Served
  <2>6. Served(a, NeedSeed, Seeds, FALSE)
    <3>1. 3 \in 1 .. 4 - 1
      OBVIOUS
    <3> QED BY <2>2, <2>7, <3>1 DEF Served
  <2> QED BY <2>3, <2>4, <2>5, <2>6 DEF Begun
<1>12. Begun(a \o w)
  BY <1>1, <1>11, BegunJoin
<1>13. Begun((a \o w) \o s)
  BY <1>4, <1>12, BegunJoin
<1>14. Begun(((a \o w) \o s) \o k)
  BY <1>5, <1>13, BegunJoin
<1>15. u \in Seq(Ops) /\ \A i \in 1 .. Len(u) : u[i] \in Later
  BY <1>3
<1>16. Begun((((a \o w) \o s) \o k) \o u)
  BY <1>14, <1>15, BegunJoin
<1>17. Begun(((((a \o w) \o s) \o k) \o u) \o r)
  BY <1>1, <1>16, BegunJoin
<1>18. Begun(key_manager_task_port_handle_verify_keys_and_build_descriptor)
  BY <1>8, <1>9, <1>17
<1> QED BY <1>18, BegunPromise

AddressProgram == wkek_lazy_init \o <<<<"unseal", keyset>>, <<"reply", seed>>>>

\* key_manager_task_port_handle_get_address
LEMMA AddressCommand ==
    ASSUME NEW l, NEW f, NEW g, NEW nk, NEW ns, NEW p, p = AddressProgram
    PROVE  Promise(p, l, f, g, nk, ns, TRUE)
<1>1. /\ p \in Seq(Ops) /\ Len(p) = 3
      /\ p[1] = <<"wkek", wkek>> /\ p[2] = <<"unseal", keyset>> /\ p[3] = <<"reply", seed>>
  <2>1. <<"wkek", wkek>> \in Ops /\ <<"unseal", keyset>> \in Ops /\ <<"reply", seed>> \in Ops
    BY OpFacts
  <2>2. p = <<<<"wkek", wkek>>, <<"unseal", keyset>>, <<"reply", seed>>>>
    BY <2>1, Join3 DEF AddressProgram, wkek_lazy_init
  <2> QED BY <2>1, <2>2
<1>2. /\ p[1] \in Ops /\ p[2] \in Ops /\ p[3] \in Ops
      /\ p[1][1] = "wkek" /\ p[2][1] = "unseal" /\ p[2][2] = keyset /\ p[3][1] = "reply"
  <2>1. p[1] \in Ops /\ p[2] \in Ops /\ p[3] \in Ops
    BY <1>1, OpFacts
  <2> QED BY <1>1, <2>1
<1>3. p[1] \in Loads /\ p[1] \notin NeedKek
  BY <1>2, Classes
<1>4. ASSUME NEW i \in 1 .. Len(p)
      PROVE  /\ p[i] \notin NeedSeed /\ p[i] \notin Stores(wkek) /\ p[i] \notin Stores(seed)
             /\ p[i] # <<"write", cache>> /\ p[i] \notin Hits /\ p[i] \notin Looks
  <2>1. p[i] \in Ops /\ p[i][1] \in {"wkek", "unseal", "reply"}
    BY SMTT(60), <1>1, <1>2
  <2> QED BY <2>1, Classes
<1>5. Follow(p, Looks, Later)
  BY <1>4 DEF Follow
<1>6. Served(p, NeedKek, Loads, l)
  BY <1>1, <1>3 DEF Served
<1>7. Served(p, NeedSeed, Seeds, f) /\ Served(p, Guarded, {}, TRUE)
  BY <1>4 DEF Served
<1>8. \A j \in CacheKeys : Served(p, {<<"write", cache>>}, {<<"derived", j>>}, j \in g)
  BY <1>4 DEF Served
<1>9. Served(p, Hits, Caches, g = CacheKeys)
  BY <1>4 DEF Served
<1>10. /\ Lead(p, Stores(wkek), {<<"open", wkek>>}, nk)
       /\ Lead(p, Stores(seed), Loads \cup {<<"open", seed>>}, ns)
  BY <1>4 DEF Lead
<1> QED BY <1>1, <1>5, <1>6, <1>7, <1>8, <1>9, <1>10 DEF Promise

\* handle_seal_csek
LEMMA SealCommand ==
    ASSUME NEW l, NEW f, NEW g, NEW nk, NEW ns, NEW c
    PROVE  Promise(wkek_lazy_init, l, f, g, nk, ns, c)
<1> DEFINE p == wkek_lazy_init
<1>1. /\ p \in Seq(Ops) /\ Len(p) = 1 /\ p[1] \in Ops /\ p[1][1] = "wkek"
  <2>1. <<"wkek", wkek>> \in Ops
    BY OpFacts
  <2> QED BY <2>1 DEF wkek_lazy_init
<1> HIDE DEF p
<1>2. /\ p[1] \notin NeedKek /\ p[1] \notin NeedSeed /\ p[1] \notin Stores(wkek) /\ p[1] \notin Hits
      /\ p[1] \notin Stores(seed) /\ p[1] # <<"write", cache>> /\ p[1] \notin Guarded
  BY <1>1, Classes
<1>3. \A i \in 1 .. Len(p) : i = 1
  BY <1>1
<1>4. Follow(p, Looks, Later)
  BY <1>3 DEF Follow
<1>5. Served(p, NeedKek, Loads, l) /\ Served(p, NeedSeed, Seeds, f) /\ Served(p, Guarded, {}, c)
  BY <1>2, <1>3 DEF Served
<1>6. \A j \in CacheKeys : Served(p, {<<"write", cache>>}, {<<"derived", j>>}, j \in g)
  BY <1>2, <1>3 DEF Served
<1>7. Served(p, Hits, Caches, g = CacheKeys)
  BY <1>2, <1>3 DEF Served
<1>8. /\ Lead(p, Stores(wkek), {<<"open", wkek>>}, nk)
      /\ Lead(p, Stores(seed), Loads \cup {<<"open", seed>>}, ns)
  BY <1>2, <1>3 DEF Lead
<1>9. Promise(p, l, f, g, nk, ns, c)
  BY <1>1, <1>4, <1>5, <1>6, <1>7, <1>8 DEF Promise
<1> QED BY <1>9 DEF p

\* A call that fails leaves no program, or, while the cache is being
\* initialised, one that derives from the seed instead.
LEMMA FailsPromise ==
    ASSUME NEW l, NEW f, NEW g, NEW nk, NEW ns, NEW c,
           Promise(todo, l, f, g, nk, ns, c), Fails
    PROVE  \/ todo' = <<>>
           \/ c /\ Begun(todo')
<1> DEFINE uses == {i \in DOMAIN todo : todo[i][1] = "hit"}
<1>1. todo \in Seq(Ops) /\ Follow(todo, Looks, Later) /\ Served(todo, Guarded, {}, c)
  BY DEF Promise
<1>2. Len(todo) \in Nat /\ DOMAIN todo = 1 .. Len(todo)
  BY <1>1
<1>3. \A i \in uses : i \in 1 .. Len(todo) /\ todo[i] \in Ops /\ todo[i][1] = "hit"
  BY <1>1, <1>2
<1>4. \A i \in uses : todo[i] \in Looks /\ todo[i] \notin Later /\ todo[i] \in Guarded
  <2> TAKE i \in uses
  <2> DEFINE o == todo[i]
  <2>1. o \in Ops /\ o[1] = "hit"
    BY <1>3
  <2> HIDE DEF o
  <2>2. o \in Looks /\ o \notin Later /\ o \in Guarded
    BY <2>1, Classes
  <2> QED BY <2>2 DEF o
<1>5. CASE uses = {}
  BY <1>5 DEF Fails
<1>6. CASE uses # {}
  <2> DEFINE i == CHOOSE j \in uses : \A k \in uses : j <= k
  <2>1. PICK m \in uses : TRUE
    BY <1>6
  <2>2. \A j, k \in uses : j = k
    <3> HIDE DEF uses
    <3> SUFFICES ASSUME NEW j \in uses, NEW k \in uses, j # k PROVE FALSE
      OBVIOUS
    <3>1. j < k \/ k < j
      BY <1>2, <1>3
    <3>2. /\ j \in 1 .. Len(todo) /\ k \in 1 .. Len(todo)
          /\ todo[j] \in Looks /\ todo[k] \in Looks /\ todo[j] \notin Later /\ todo[k] \notin Later
      BY <1>3, <1>4
    <3>3. Follow(todo, Looks, Later)
      BY <1>1
    <3> QED BY <3>1, <3>2, <3>3 DEF Follow
  <2>3. \E j \in uses : \A k \in uses : j <= k
    <3>1. \A k \in uses : m <= k
      BY <2>1, <2>2, <1>2, <1>3
    <3> QED BY <2>1, <3>1
  <2>4. i \in uses
    BY <2>3
  <2>5. todo' = derive_key_priv_from_seed("caller") \o SubSeq(todo, i + 1, Len(todo))
    BY <1>6 DEF Fails
  <2>6. i \in 1 .. Len(todo) /\ todo[i] \in Looks /\ todo[i] \in Guarded
    BY <2>4, <1>3, <1>4
  <2> HIDE DEF uses, i
  <2>7. c
    BY <2>6, <1>1 DEF Served
  <2> DEFINE r == SubSeq(todo, i + 1, Len(todo))
  <2>8. /\ r \in Seq(Ops) /\ Len(r) = Len(todo) - i
        /\ \A j \in 1 .. Len(r) : r[j] = todo[i + j] /\ i + j \in 1 .. Len(todo) /\ i < i + j
    <3>1. \A j \in i + 1 .. Len(todo) : todo[j] \in Ops
      BY <2>6, <1>1, <1>2
    <3>4. i + 1 \in 1 .. Len(todo) + 1 /\ Len(todo) \in i .. Len(todo)
      BY <2>6, <1>2
    <3>2. /\ r \in Seq(Ops) /\ Len(r) = IF i + 1 <= Len(todo) THEN Len(todo) - (i + 1) + 1 ELSE 0
          /\ \A j \in 1 .. Len(todo) - (i + 1) + 1 : r[j] = todo[(i + 1) + j - 1]
      BY SMTT(60), <1>1, <3>4, SubSeqProperties
    <3>3. \A j \in 1 .. Len(todo) - i : i + j \in 1 .. Len(todo) /\ i < i + j /\ todo[i + j] \in Ops
      BY <2>6, <1>2, <3>1
    <3>5. Len(r) = Len(todo) - i
      <4>1. i \in Nat /\ Len(todo) \in Nat /\ i <= Len(todo)
        BY <2>6, <1>2
      <4>2. Len(r) = IF i + 1 <= Len(todo) THEN Len(todo) - (i + 1) + 1 ELSE 0
        BY <3>2
      <4> QED BY <4>1, <4>2
    <3>6. \A j \in 1 .. Len(todo) - i : r[j] = todo[i + j]
      <4> TAKE j \in 1 .. Len(todo) - i
      <4>1. j \in 1 .. Len(todo) - (i + 1) + 1 /\ (i + 1) + j - 1 = i + j
        BY <2>6, <1>2
      <4> QED BY <4>1, <3>2
    <3> QED BY <3>2, <3>3, <3>5, <3>6
  <2> HIDE DEF r
  <2>9. \A j \in 1 .. Len(r) : r[j] \in Later
    BY <2>6, <2>8, <1>1 DEF Follow
  <2>10. r \in Seq(Ops)
    BY <2>8
  <2>11. Begun(derive_key_priv_from_seed("caller") \o r)
    BY <2>9, <2>10, DeriveBegun, BegunJoin
  <2> QED BY <2>5, <2>7, <2>11 DEF r
<1> QED BY <1>5, <1>6

-----------------------------------------------------------------------------
(* The invariant *)

\* The type invariant, by variable; keys and seeds are among those made.
Contents == [key : -2 .. count.keys, holds : [CacheKeys -> 0 .. count.seeds]]
FlashType == flash \in [Files -> Contents]
RamType == ram \in [wkek : 0 .. count.keys, loaded : BOOLEAN, init : BOOLEAN,
                    cache : [CacheKeys -> 0 .. count.seeds], seed : 0 .. count.seeds,
                    got : SUBSET (1 .. count.seeds)]
CountType ==
    /\ count \in [keys : Nat, seeds : Nat, wipes : 0 .. MaxWipes, faults : 0 .. MaxFaults,
                  misreads : 0 .. MaxFaults, crashes : 0 .. MaxCrashes]
    /\ count.misreads <= count.faults
HistoryType == given \subseteq 1 .. count.seeds /\ failed \in 0 .. count.faults /\ spoiled \in BOOLEAN
TypeInv == FlashType /\ RamType /\ CountType /\ HistoryType

\* A file that is sealed holds keys, the seed's file those of one seed.
FileInv ==
    /\ \A f \in {seed, cache, keyset} : flash[f].key > 0 => \A k \in CacheKeys : flash[f].holds[k] > 0
    /\ flash[seed].key > 0 => flash[seed].holds = OfSeed(flash[seed].holds["auth"])

\* The seed in RAM is the one in flash.
SeedGood == Readable(seed) /\ flash[seed].holds = OfSeed(ram.seed)
\* A new KEK is in RAM, and nothing is sealed under it.
NewKek ==
    /\ ~ram.loaded /\ flash[wkek].key <= 0 /\ ram.wkek = count.keys /\ ram.wkek > 0
    /\ \A f \in Files : flash[f].key < ram.wkek
\* A new seed is in RAM, and no other can be read, unless one was misread.
NewSeed == (count.misreads = 0 => ~Readable(seed)) /\ ram.loaded /\ ram.seed = count.seeds /\ ram.seed > 0
\* The keys of the cache in RAM that are of the seed in flash.
Goods == {k \in CacheKeys : /\ ram.cache[k] > 0
                            /\ (~spoiled /\ count.misreads = 0) => Readable(seed) /\ flash[seed].holds[k] = ram.cache[k]}
Program == Promise(todo, ram.loaded, SeedGood, Goods, NewKek, NewSeed, CanUnlock)

RamInv ==
    /\ ram.loaded => flash[wkek].key = ram.wkek /\ ram.wkek > 0
    /\ ram.init => Goods = CacheKeys

\* The properties, without waiting for the end of the command.
Kept == count.misreads = 0 => \A s \in given \cup ram.got : Readable(seed) /\ flash[seed].holds = OfSeed(s)
Same == count.misreads = 0 => \A f \in {cache, keyset} : Readable(f) => Readable(seed) /\ flash[f].holds = flash[seed].holds
Unlockable == fs_file_exists(seed) => CanUnlock
Safe == Kept /\ Same /\ Unlockable

\* A KEK or a seed is made once, and once more for each wipe, fault and loss of power.
Losses == count.wipes + count.faults + count.crashes
KeyCount ==
    count.keys <= Losses
    \/ /\ count.keys = Losses + 1
       /\ fs_file_exists(wkek) \/ (todo # <<>> /\ Head(todo) = <<"open", wkek>>)
SeedCount ==
    count.seeds <= Losses
    \/ /\ count.seeds = Losses + 1
       /\ Readable(seed) \/ Has(todo, {<<"write", seed>>})

\* Between and during commands other than a wipe.
Normal == Program /\ RamInv /\ (~spoiled => Safe) /\ failed = 0 /\ KeyCount /\ SeedCount

\* A pass of the wipe, by the files it removes.
PassLen == 6 + TemplateCount
PassFile(i) ==
    CASE i = 1 -> pubkey [] i = 2 -> cache [] i = 3 -> keyset
      [] i = 4 -> seed [] i = 5 -> wkek [] i = 6 -> unlock
      [] OTHER -> FileOf(i - 7)
\* What is left of the pass of number k after n removals.
Rest(k, n) == [i \in 1 .. PassLen + 1 - n |->
                 IF i + n <= PassLen THEN <<"remove", PassFile(i + n)>> ELSE <<"verify", k>>]

\* A file that is left behind was not removed in this pass, and one in each of
\* the passes before.
Removing ==
    \E k \in 0 .. 3, n \in 0 .. PassLen :
        /\ todo = Rest(k, n)
        /\ failed >= k
        /\ (\E i \in 1 .. n : flash[PassFile(i)] # Absent) => failed >= k + 1
Wiped == todo = <<<<"wiped", 0>>>> /\ (onboarding_files_remain => failed >= 4)

\* During a wipe.
Wipe ==
    /\ Removing \/ Wiped
    /\ ram.loaded => ram.wkek > 0
    /\ ram.init => \A k \in CacheKeys : ram.cache[k] > 0
    /\ ram.got = {}
    /\ failed = 0 /\ ~spoiled => Safe
    /\ ~spoiled /\ count.misreads = 0 /\ flash[seed] = Absent => given = {}
    /\ count.keys <= Losses /\ count.seeds <= Losses

WalletInv == TypeInv /\ FileInv /\ (Normal \/ Wipe)

-----------------------------------------------------------------------------
(* What a program tells of its first operation, and how it goes on *)

LEMMA HeadFacts ==
    ASSUME NEW t, t # <<>>, NEW l, NEW f, NEW g, NEW nk, NEW ns, NEW c,
           Promise(t, l, f, g, nk, ns, c)
    PROVE  LET o == Head(t) IN
           /\ t \in Seq(Ops) /\ o \in Ops
           /\ o \in NeedKek => l
           /\ o \in NeedSeed => f
           /\ o = <<"write", cache>> => CacheKeys \subseteq g
           /\ o \in Hits => g = CacheKeys
           /\ o \in Stores(wkek) => nk
           /\ o \in Stores(seed) => ns
           /\ o \in Guarded => c
           /\ Has(t, {<<"write", seed>>}) =>
                ns /\ (o = <<"write", seed>> \/ o \in Loads \cup {<<"open", seed>>})
<1> DEFINE o == Head(t)
<1>1. t \in Seq(Ops)
  BY DEF Promise
<1>2. o = t[1] /\ o \in Ops /\ 1 \in 1 .. Len(t) /\ Len(t) \in Nat
  BY <1>1
<1>3. \A j : j \notin 1 .. 1 - 1
  OBVIOUS
<1> HIDE DEF o
<1>4. (o \in NeedKek => l) /\ (o \in NeedSeed => f) /\ (o \in Guarded => c)
  BY <1>2, <1>3 DEF Promise, Served
<1>5. o \in Hits => g = CacheKeys
  BY <1>2, <1>3 DEF Promise, Served
<1>6. o = <<"write", cache>> => CacheKeys \subseteq g
  <2> SUFFICES ASSUME o = <<"write", cache>>, NEW k \in CacheKeys PROVE k \in g
    OBVIOUS
  <2>1. Served(t, {<<"write", cache>>}, {<<"derived", k>>}, k \in g)
    BY DEF Promise
  <2> QED BY <2>1, <1>2, <1>3 DEF Served
<1>7. (o \in Stores(wkek) => nk) /\ (o \in Stores(seed) => ns)
  BY <1>2 DEF Promise, Lead
<1>8. ASSUME Has(t, {<<"write", seed>>})
      PROVE  ns /\ (o = <<"write", seed>> \/ o \in Loads \cup {<<"open", seed>>})
  <2>1. PICK i \in 1 .. Len(t) : t[i] = <<"write", seed>>
    BY <1>8 DEF Has
  <2>2. t[i] \in Stores(seed)
    <3>1. t[i] \in Ops
      BY <1>1
    <3> QED BY <2>1, <3>1, Classes
  <2>3. ns /\ \A j \in 1 .. i - 1 : t[j] \in Loads \cup {<<"open", seed>>}
    BY <2>2 DEF Promise, Lead
  <2>4. i = 1 \/ 1 \in 1 .. i - 1
    OBVIOUS
  <2> QED BY <2>1, <2>3, <2>4, <1>2
<1> QED BY <1>1, <1>2, <1>4, <1>5, <1>6, <1>7, <1>8 DEF o

LEMMA HasDoes ==
    ASSUME NEW S, NEW t \in Seq(S), t # <<>>, NEW p \in Seq(S), NEW X
    PROVE  /\ Has(t, X) => Head(t) \in X \/ Has(p \o Tail(t), X)
           /\ Has(p, X) => Has(p \o Tail(t), X)
<1> DEFINE q == p \o Tail(t)
<1>1. /\ q \in Seq(S) /\ Len(q) = Len(p) + Len(t) - 1
      /\ \A i \in 1 .. Len(p) : i \in 1 .. Len(q) /\ q[i] = p[i]
      /\ \A i \in 2 .. Len(t) : i + Len(p) - 1 \in 1 .. Len(q) /\ q[i + Len(p) - 1] = t[i]
      /\ Head(t) = t[1] /\ Len(t) \in Nat \ {0} /\ Len(p) \in Nat
  BY DoesShape
<1> HIDE DEF q
<1>2. ASSUME Has(t, X), Head(t) \notin X PROVE Has(q, X)
  <2>1. PICK i \in 1 .. Len(t) : t[i] \in X
    BY <1>2 DEF Has
  <2>2. i \in 2 .. Len(t)
    BY <2>1, <1>1, <1>2
  <2> QED BY <2>1, <2>2, <1>1 DEF Has
<1>3. Has(p, X) => Has(q, X)
  BY <1>1 DEF Has
<1> QED BY <1>2, <1>3 DEF q

\* The program of the state goes on.
LEMMA ProgramDoes ==
    ASSUME Program, todo # <<>>, NEW p, todo' = p \o Tail(todo),
           Promise(p, ram'.loaded, SeedGood', Goods', NewKek', NewSeed', CanUnlock'),
           ram.loaded => ram'.loaded, SeedGood => SeedGood' \/ Has(p, Seeds), Goods \subseteq Goods',
           CanUnlock => CanUnlock',
           Has(p, Looks) => Head(todo) \in Looks,
           Head(todo) \in Loads => ram'.loaded \/ Has(p, Loads),
           Head(todo) \in Seeds => SeedGood' \/ Has(p, Seeds),
           \A k \in CacheKeys : Head(todo) = <<"derived", k>> => k \in Goods',
           Head(todo) \in Caches => Goods' = CacheKeys \/ Has(p, Caches),
           Head(todo) = <<"open", wkek>> /\ NewKek => NewKek' /\ p = <<>>,
           Head(todo) \in Loads \cup {<<"open", seed>>} /\ NewSeed =>
               NewSeed' /\ \A i \in 1 .. Len(p) : p[i] \in Loads \cup {<<"open", seed>>}
    PROVE  Program'
<1>1. Promise(todo, ram.loaded, SeedGood, Goods, NewKek, NewSeed, CanUnlock)
  BY DEF Program
<1>2. Goods' \subseteq CacheKeys
  BY DEF Goods
<1>3. Promise(p \o Tail(todo), ram'.loaded, SeedGood', Goods', NewKek', NewSeed', CanUnlock')
  BY <1>1, <1>2, PromiseDoes
<1> QED BY <1>3 DEF Program

\* The same with nothing in the place of the head.
LEMMA ProgramNext ==
    ASSUME Program, todo # <<>>, Does(<<>>),
           ram.loaded => ram'.loaded, SeedGood => SeedGood', Goods \subseteq Goods',
           CanUnlock => CanUnlock',
           Head(todo) \in Loads => ram'.loaded,
           Head(todo) \in Seeds => SeedGood',
           \A k \in CacheKeys : Head(todo) = <<"derived", k>> => k \in Goods',
           Head(todo) \in Caches => Goods' = CacheKeys,
           Head(todo) = <<"open", wkek>> /\ NewKek => NewKek',
           Head(todo) \in Loads \cup {<<"open", seed>>} /\ NewSeed => NewSeed'
    PROVE  Program'
<1> DEFINE p == <<>>
<1>1. Promise(p, ram'.loaded, SeedGood', Goods', NewKek', NewSeed', CanUnlock')
  BY PromiseEmpty
<1>2. ~Has(p, Looks) /\ \A i \in 1 .. Len(p) : p[i] \in Loads \cup {<<"open", seed>>}
  BY DEF Has
<1>3. todo' = p \o Tail(todo)
  BY DEF Does
<1>4. p = <<>>
  OBVIOUS
<1> HIDE DEF p
<1> QED BY <1>1, <1>2, <1>3, <1>4, ProgramDoes

\* A call that fails.
LEMMA ProgramFails ==
    ASSUME Program, Fails, CanUnlock => CanUnlock'
    PROVE  Program'
<1>1. todo' = <<>> \/ (CanUnlock' /\ Begun(todo'))
  BY FailsPromise DEF Program
<1>2. CASE todo' = <<>>
  <2>1. Promise(<<>>, ram'.loaded, SeedGood', Goods', NewKek', NewSeed', CanUnlock')
    BY PromiseEmpty
  <2> QED BY <1>2, <2>1 DEF Program
<1>3. CASE CanUnlock' /\ Begun(todo')
  <2>1. Promise(todo', ram'.loaded, SeedGood', Goods', NewKek', NewSeed', TRUE)
    BY <1>3, BegunPromise
  <2>2. Served(todo', Guarded, {}, CanUnlock')
    BY <1>3 DEF Served
  <2> QED BY <2>1, <2>2 DEF Program, Promise
<1> QED BY <1>1, <1>2, <1>3

\* A command begins.
LEMMA ProgramBegins ==
    ASSUME NEW p, todo' = p, CanUnlock',
           Promise(p, ram'.loaded, SeedGood', Goods', NewKek', NewSeed', TRUE)
    PROVE  Program'
<1>1. Served(p, Guarded, {}, CanUnlock')
  BY DEF Served
<1> QED BY <1>1 DEF Program, Promise

\* A step that changes neither the files nor the RAM.
LEMMA FlagFrame ==
    ASSUME UNCHANGED <<flash, ram, spoiled>>, count'.keys = count.keys, count'.seeds = count.seeds, count'.misreads = count.misreads
    PROVE  /\ (SeedGood => SeedGood') /\ Goods' = Goods /\ (NewKek => NewKek') /\ (NewSeed => NewSeed')
           /\ (CanUnlock => CanUnlock') /\ (RamInv => RamInv') /\ ram'.loaded = ram.loaded
           /\ (Readable(seed) => Readable(seed)') /\ (fs_file_exists(wkek) => fs_file_exists(wkek)')
<1>1. Goods' = Goods
  BY DEF Goods, Readable
<1>2. RamInv => RamInv'
  BY <1>1 DEF RamInv
<1> QED BY <1>1, <1>2 DEF SeedGood, NewKek, NewSeed, Readable, CanUnlock, fs_file_exists

LEMMA SafeFrame ==
    ASSUME UNCHANGED <<flash, ram, given>>, count'.misreads = count.misreads, Safe
    PROVE  Safe'
BY DEF Safe, Kept, Same, Unlockable, Readable, CanUnlock, fs_file_exists

-----------------------------------------------------------------------------
(* The counts *)
LEMMA Numbers ==
    ASSUME CountType
    PROVE  /\ count.keys \in Nat /\ count.seeds \in Nat /\ count.wipes \in Nat
           /\ count.faults \in Nat /\ count.misreads \in Nat /\ count.crashes \in Nat /\ Losses \in Nat
<1>1. /\ count.keys \in Nat /\ count.seeds \in Nat /\ count.wipes \in Nat
      /\ count.faults \in Nat /\ count.misreads \in Nat /\ count.crashes \in Nat
  BY DEF CountType
<1> QED BY <1>1 DEF Losses

LEMMA KeyFrame ==
    ASSUME KeyCount, UNCHANGED count, fs_file_exists(wkek) => fs_file_exists(wkek)',
           todo # <<>> => Head(todo) # <<"open", wkek>>
    PROVE  KeyCount'
<1>1. Losses' = Losses /\ count'.keys = count.keys
  BY DEF Losses
<1> QED BY <1>1 DEF KeyCount

LEMMA SeedFrame ==
    ASSUME SeedCount, UNCHANGED count, Readable(seed) => Readable(seed)',
           Has(todo, {<<"write", seed>>}) => Readable(seed)' \/ Has(todo', {<<"write", seed>>})
    PROVE  SeedCount'
<1>1. Losses' = Losses /\ count'.seeds = count.seeds
  BY DEF Losses
<1> QED BY <1>1 DEF SeedCount

LEMMA CountFault ==
    ASSUME CountType, KeyCount, SeedCount, Fault
    PROVE  /\ CountType' /\ KeyCount' /\ SeedCount' /\ Losses' = Losses + 1
           /\ count'.keys = count.keys /\ count'.seeds = count.seeds
           /\ count'.misreads = count.misreads /\ count'.faults = count.faults + 1
<1>1. /\ count' = [count EXCEPT !.faults = @ + 1] /\ count.faults < MaxFaults
      /\ count.faults \in Nat /\ MaxFaults \in Nat
  BY Numbers DEF Fault
<1>2. /\ count'.keys = count.keys /\ count'.seeds = count.seeds /\ count'.wipes = count.wipes
      /\ count'.faults = count.faults + 1 /\ count'.misreads = count.misreads /\ count'.crashes = count.crashes
  BY <1>1 DEF CountType
<1>3. CountType'
  BY <1>1 DEF CountType
<1>4. Losses' = Losses + 1
  BY <1>2, Numbers DEF Losses
<1>5. KeyCount' /\ SeedCount'
  BY <1>2, <1>4, Numbers DEF KeyCount, SeedCount
<1> QED BY <1>2, <1>3, <1>4, <1>5

-----------------------------------------------------------------------------
(* Values *)
LEMMA Values ==
    ASSUME TypeInv
    PROVE  /\ \A f \in Files : /\ flash[f] \in Contents /\ flash[f].key \in Int
                               /\ flash[f].holds \in [CacheKeys -> 0 .. count.seeds]
                               /\ flash[f].key <= count.keys
           /\ ram.wkek \in 0 .. count.keys /\ ram.wkek \in Nat /\ ram.loaded \in BOOLEAN
           /\ ram.init \in BOOLEAN /\ ram.cache \in [CacheKeys -> 0 .. count.seeds]
           /\ ram.seed \in 0 .. count.seeds /\ ram.seed \in Nat /\ ram.got \subseteq 1 .. count.seeds
           /\ count.keys \in Nat /\ count.seeds \in Nat
           /\ \A k \in CacheKeys : ram.cache[k] \in Nat /\ \A f \in Files : flash[f].holds[k] \in Nat
<1>1. count.keys \in Nat /\ count.seeds \in Nat
  BY Numbers DEF TypeInv
<1>2. \A f \in Files : flash[f] \in Contents
  BY DEF TypeInv, FlashType
<1>3. \A f \in Files : /\ flash[f].key \in -2 .. count.keys
                       /\ flash[f].holds \in [CacheKeys -> 0 .. count.seeds]
  BY <1>2 DEF Contents
<1>4. /\ ram.wkek \in 0 .. count.keys /\ ram.loaded \in BOOLEAN
      /\ ram.init \in BOOLEAN /\ ram.cache \in [CacheKeys -> 0 .. count.seeds]
      /\ ram.seed \in 0 .. count.seeds /\ ram.got \subseteq 1 .. count.seeds
  BY DEF TypeInv, RamType
<1>5. \A k \in CacheKeys : ram.cache[k] \in Nat /\ \A f \in Files : flash[f].holds[k] \in Nat
  BY <1>1, <1>3, <1>4
<1>6. \A f \in Files : flash[f].key \in Int /\ flash[f].key <= count.keys
  BY <1>1, <1>3
<1> QED BY <1>1, <1>2, <1>3, <1>4, <1>5, <1>6

LEMMA Sealing ==
    /\ \A k, h : Sealed(k, h).key = k /\ Sealed(k, h).holds = h
    /\ Absent.key = -1 /\ Empty.key = -2 /\ Absent # Empty
    /\ \A k, h : k >= 0 => Sealed(k, h) # Absent
    /\ NoKeys \in [CacheKeys -> {0}]
    /\ \A s : OfSeed(s) \in [CacheKeys -> {s}] /\ \A k \in CacheKeys : OfSeed(s)[k] = s
    /\ "auth" \in CacheKeys
<1>1. \A k, h : Sealed(k, h).key = k /\ Sealed(k, h).holds = h
  BY DEF Sealed
<1>2. Absent.key = -1 /\ Empty.key = -2
  BY <1>1 DEF Absent, Empty
<1>3. \A k, h : k >= 0 => Sealed(k, h) # Absent
  <2> SUFFICES ASSUME NEW k, NEW h, k >= 0, Sealed(k, h) = Absent PROVE FALSE
    OBVIOUS
  <2>1. k = -1
    BY <1>1, <1>2
  <2> QED BY <2>1
<1>4. Absent # Empty
  BY <1>2
<1>5. NoKeys \in [CacheKeys -> {0}] /\ \A s : OfSeed(s) \in [CacheKeys -> {s}]
  BY DEF NoKeys, OfSeed
<1>6. "auth" \in CacheKeys
  BY DEF CacheKeys
<1>7. \A s : \A k \in CacheKeys : OfSeed(s)[k] = s
  BY DEF OfSeed
<1> QED BY <1>1, <1>2, <1>3, <1>4, <1>5, <1>6, <1>7

\* Keys of one seed, in each place of the cache.
LEMMA OneSeed ==
    ASSUME TypeInv, FileInv, Readable(seed)
    PROVE  LET s == flash[seed].holds["auth"] IN
           /\ flash[seed].holds = OfSeed(s) /\ s \in 1 .. count.seeds
           /\ \A k \in CacheKeys : flash[seed].holds[k] = s
<1> DEFINE s == flash[seed].holds["auth"]
<1>1. flash[seed].key > 0 /\ seed \in Files /\ "auth" \in CacheKeys
  BY FilesDiffer, Sealing DEF Readable
<1>2. flash[seed].holds = OfSeed(s) /\ s > 0
  BY <1>1 DEF FileInv
<1>3. s \in 0 .. count.seeds /\ count.seeds \in Nat
  BY <1>1, Values
<1>4. \A k \in CacheKeys : flash[seed].holds[k] = s
  BY <1>2, Sealing
<1> QED BY <1>2, <1>3, <1>4

-----------------------------------------------------------------------------
(* The operation that is next *)
LEMMA NormalHead ==
    ASSUME Normal, NEW w, Doing(w)
    PROVE  LET o == Head(todo) IN
           /\ todo # <<>> /\ todo \in Seq(Ops) /\ o \in Ops /\ o[1] = w /\ o[2] = Subject
           /\ o = <<w, Subject>>
           /\ w \in {"open", "write", "wkek", "load", "seed", "reply", "wsm", "unseal",
                     "use", "hit", "derived"}
           /\ w \in {"open", "write"} => Subject \in Stored
           /\ w \in {"use", "hit"} => Subject \in CacheKeys
           /\ w = "derived" => Subject \in CacheKeys \cup {"caller"}
           /\ o \in NeedKek => ram.loaded
           /\ o \in NeedSeed => SeedGood
           /\ o = <<"write", cache>> => Goods = CacheKeys
           /\ o \in Hits => Goods = CacheKeys
           /\ o \in Stores(wkek) => NewKek
           /\ o \in Stores(seed) => NewSeed
           /\ o \in Guarded => CanUnlock
           /\ Has(todo, {<<"write", seed>>}) =>
                NewSeed /\ (o = <<"write", seed>> \/ o \in Loads \cup {<<"open", seed>>})
<1> DEFINE o == Head(todo)
<1>1. todo # <<>> /\ o[1] = w /\ o[2] = Subject
  BY DEF Doing, Subject
<1>2. Promise(todo, ram.loaded, SeedGood, Goods, NewKek, NewSeed, CanUnlock)
  BY DEF Normal, Program
<1>3. /\ todo \in Seq(Ops) /\ o \in Ops
      /\ o \in NeedKek => ram.loaded
      /\ o \in NeedSeed => SeedGood
      /\ o = <<"write", cache>> => CacheKeys \subseteq Goods
      /\ o \in Hits => Goods = CacheKeys
      /\ o \in Stores(wkek) => NewKek
      /\ o \in Stores(seed) => NewSeed
      /\ o \in Guarded => CanUnlock
      /\ Has(todo, {<<"write", seed>>}) =>
           NewSeed /\ (o = <<"write", seed>> \/ o \in Loads \cup {<<"open", seed>>})
  BY <1>1, <1>2, HeadFacts
<1>4. Goods \subseteq CacheKeys
  BY DEF Goods
<1> HIDE DEF o
<1>5. /\ o = <<o[1], o[2]>>
      /\ o[1] \in {"open", "write", "wkek", "load", "seed", "reply", "wsm", "unseal",
                   "use", "hit", "derived"}
      /\ o[1] \in {"open", "write"} => o[2] \in Stored
      /\ o[1] \in {"use", "hit"} => o[2] \in CacheKeys
      /\ o[1] = "derived" => o[2] \in CacheKeys \cup {"caller"}
  BY <1>3, OpShape
<1> QED BY <1>1, <1>3, <1>4, <1>5 DEF o

\* The sets of operations, by the two parts of the head.
LEMMA HeadClass ==
    ASSUME NEW o \in Ops, NEW w, NEW x, o[1] = w, o[2] = x
    PROVE  /\ o \in Loads <=> w \in {"wkek", "load"}
           /\ o \in NeedKek <=> \/ w \in {"seed", "derived", "unseal"}
                                \/ w \in {"open", "write"} /\ x \in {seed, cache, keyset}
           /\ o \in Seeds <=> w = "seed" \/ (w = "write" /\ x = seed)
           /\ o \in NeedSeed <=> w = "derived" \/ (w = "write" /\ x = keyset)
           /\ o \in Caches <=> w \in {"unseal", "write"} /\ x = cache
           /\ o \in Hits <=> w = "hit"
           /\ o \in Looks <=> w \in {"use", "hit"}
           /\ \A f : o \in Stores(f) <=> w \in {"open", "write"} /\ x = f
           /\ o \in Guarded <=> ~(w \in {"wkek", "load"}) /\ ~(w \in {"open", "write"} /\ x = wkek)
           /\ \A v, f : o = <<v, f>> <=> w = v /\ x = f
BY Classes

\* Commands of the wallet do nothing of a wipe.
LEMMA NormalNotWipe ==
    ASSUME Normal
    PROVE  ~Doing("remove") /\ ~Doing("verify") /\ ~Doing("wiped")
<1>1. ASSUME NEW w, Doing(w)
      PROVE  w \in {"open", "write", "wkek", "load", "seed", "reply", "wsm", "unseal",
                    "use", "hit", "derived"}
  BY <1>1, NormalHead
<1>2. CASE Doing("remove")
  BY <1>1, <1>2
<1>3. CASE Doing("verify")
  BY <1>1, <1>3
<1>4. CASE Doing("wiped")
  BY <1>1, <1>4
<1> QED BY <1>2, <1>3, <1>4

LEMMA RestShape ==
    ASSUME NEW k, NEW n \in 0 .. PassLen
    PROVE  LET r == Rest(k, n) IN
           /\ Len(r) = PassLen + 1 - n /\ r # <<>> /\ PassLen \in Nat
           /\ Head(r) = IF n < PassLen THEN <<"remove", PassFile(n + 1)>> ELSE <<"verify", k>>
           /\ n < PassLen => Tail(r) = Rest(k, n + 1)
           /\ n = PassLen => Tail(r) = <<>>
<1> DEFINE r == Rest(k, n)
<1>1. PassLen \in Nat
  BY DEF PassLen
<1> DEFINE m == PassLen + 1 - n
<1>2. m \in Nat \ {0} /\ m - 1 = PassLen + 1 - (n + 1)
  BY <1>1
<1>3. /\ r = [i \in 1 .. m |-> IF i + n <= PassLen THEN <<"remove", PassFile(i + n)>> ELSE <<"verify", k>>]
      /\ Rest(k, n + 1) = [i \in 1 .. m - 1 |->
            IF i + (n + 1) <= PassLen THEN <<"remove", PassFile(i + (n + 1))>> ELSE <<"verify", k>>]
  BY <1>2 DEF Rest
<1> DEFINE val(i) == IF i <= PassLen THEN <<"remove", PassFile(i)>> ELSE <<"verify", k>>
<1>4. r = [i \in 1 .. m |-> val(i + n)] /\ Rest(k, n + 1) = [i \in 1 .. m - 1 |-> val(i + (n + 1))]
  BY <1>3
<1>5. val(n + 1) = IF n < PassLen THEN <<"remove", PassFile(n + 1)>> ELSE <<"verify", k>>
  BY <1>1
<1> HIDE DEF r, m, val
<1> DEFINE S == {val(i + n) : i \in 1 .. m}
<1>12. r \in [1 .. m -> S] /\ r[1] = val(1 + n)
  BY <1>2, <1>4
<1> HIDE DEF S
<1>6. r \in Seq(S) /\ Len(r) = m /\ r # <<>> /\ Head(r) = val(1 + n)
  <2>1. r \in Seq(S) /\ Len(r) = m
    BY <1>2, <1>12
  <2>2. r # <<>>
    BY <2>1, <1>2
  <2> QED BY <1>12, <2>1, <2>2
<1>7. 1 + n = n + 1
  BY <1>1
<1>8. Tail(r) = [i \in 1 .. m - 1 |-> val((i + 1) + n)]
  BY SMTT(60), <1>2, <1>4, <1>6
<1>9. \A i \in 1 .. m - 1 : (i + 1) + n = i + (n + 1)
  BY <1>1, <1>2
<1>10. Tail(r) = Rest(k, n + 1)
  BY <1>4, <1>8, <1>9
<1>11. n = PassLen => Tail(r) = <<>>
  <2>1. n = PassLen => m - 1 = 0
    BY <1>1 DEF m
  <2>2. n = PassLen => Tail(r) = [i \in 1 .. 0 |-> val((i + 1) + n)]
    BY <2>1, <1>8
  <2> QED BY <2>2
<1> QED BY <1>1, <1>5, <1>6, <1>7, <1>10, <1>11 DEF r, m

LEMMA WipeHead ==
    ASSUME Wipe, NEW w, Doing(w)
    PROVE  w \in {"remove", "verify", "wiped"}
<1>1. CASE Wiped
  BY <1>1 DEF Wiped, Doing
<1>2. CASE Removing
  <2>1. PICK k \in 0 .. 3, n \in 0 .. PassLen : todo = Rest(k, n)
    BY <1>2 DEF Removing
  <2>2. Head(todo) = <<"remove", PassFile(n + 1)>> \/ Head(todo) = <<"verify", k>>
    BY <2>1, RestShape
  <2> QED BY <2>2 DEF Doing
<1> QED BY <1>1, <1>2 DEF Wipe

LEMMA WipeBusy ==
    ASSUME Wipe
    PROVE  todo # <<>>
<1>1. CASE Wiped
  BY <1>1 DEF Wiped
<1>2. CASE Removing
  BY <1>2, RestShape DEF Removing
<1> QED BY <1>1, <1>2 DEF Wipe

-----------------------------------------------------------------------------
(* Steps of a command *)
LEMMA FileFrame == FileInv /\ UNCHANGED flash => FileInv'
BY DEF FileInv

\* A call fails.
LEMMA FailNormal ==
    ASSUME TypeInv, FileInv, Normal, Fails, UNCHANGED <<flash, ram, given, failed, spoiled>>,
           \/ Fault
           \/ /\ UNCHANGED count /\ todo # <<>> /\ Head(todo) # <<"open", wkek>>
              /\ ~Has(todo, {<<"write", seed>>})
    PROVE  TypeInv' /\ FileInv' /\ Normal'
<1>1. /\ count'.keys = count.keys /\ count'.seeds = count.seeds /\ CountType'
      /\ failed \in 0 .. count'.faults /\ count'.misreads = count.misreads
  <2>1. CASE Fault
    <3>1. /\ CountType' /\ count'.keys = count.keys /\ count'.seeds = count.seeds
          /\ count'.faults = count.faults + 1 /\ count'.misreads = count.misreads
      BY <2>1, CountFault DEF TypeInv, Normal
    <3>2. count.faults \in Nat /\ failed \in 0 .. count.faults
      BY Numbers DEF TypeInv, HistoryType
    <3> QED BY <3>1, <3>2
  <2>2. CASE UNCHANGED count
    BY <2>2 DEF TypeInv, CountType, HistoryType
  <2> QED BY <2>1, <2>2
<1>2. TypeInv'
  <2>1. FlashType' /\ RamType'
    BY <1>1 DEF TypeInv, FlashType, RamType, Contents
  <2> QED BY <1>1, <2>1 DEF TypeInv, HistoryType
<1>3. /\ (CanUnlock => CanUnlock') /\ (RamInv => RamInv') /\ (Readable(seed) => Readable(seed)')
      /\ (fs_file_exists(wkek) => fs_file_exists(wkek)')
  BY <1>1, FlagFrame
<1>4. Program'
  BY <1>3, ProgramFails DEF Normal
<1>5. KeyCount' /\ SeedCount'
  <2>1. CASE Fault
    BY <2>1, CountFault DEF TypeInv, Normal
  <2>2. CASE UNCHANGED count /\ todo # <<>> /\ Head(todo) # <<"open", wkek>> /\ ~Has(todo, {<<"write", seed>>})
    <3>1. KeyCount'
      BY <1>3, <2>2, KeyFrame DEF Normal
    <3>2. SeedCount'
      BY <1>3, <2>2, SeedFrame DEF Normal
    <3> QED BY <3>1, <3>2
  <2> QED BY <2>1, <2>2
<1>6. ~spoiled' => Safe'
  BY <1>1, SafeFrame DEF Normal
<1>7. Normal'
  BY <1>3, <1>4, <1>5, <1>6 DEF Normal
<1> QED BY <1>2, <1>7, FileFrame

\* Types, when a file is written.
LEMMA StoreType ==
    ASSUME TypeInv, NEW f, NEW v \in Contents, flash' = [flash EXCEPT ![f] = v],
           UNCHANGED <<ram, given, failed, spoiled, count>>
    PROVE  TypeInv'
<1>1. FlashType'
  BY DEF TypeInv, FlashType, Contents
<1>2. RamType' /\ CountType' /\ HistoryType'
  BY DEF TypeInv, RamType, CountType, HistoryType
<1> QED BY <1>1, <1>2 DEF TypeInv

\* A file is entered into its directory.
LEMMA OpenNormal ==
    ASSUME TypeInv, FileInv, Normal, FsOpen
    PROVE  TypeInv' /\ FileInv' /\ Normal'
<1> DEFINE o == Head(todo)
<1> DEFINE x == Subject
<1>0. Doing("open")
  BY DEF FsOpen
<1>1. /\ todo # <<>> /\ todo \in Seq(Ops) /\ o \in Ops /\ o[1] = "open" /\ o[2] = x /\ x \in Stored
      /\ o \in Stores(wkek) => NewKek
      /\ o \in Stores(seed) => NewSeed
      /\ o \in Guarded => CanUnlock
      /\ Has(todo, {<<"write", seed>>}) => NewSeed
  BY <1>0, NormalHead
<1>2. x \in Files /\ x \notin {unlock} \cup Fingerprints
  BY <1>1, FilesDiffer DEF Stored
<1> HIDE DEF o, x
<1>3. /\ o \notin Loads /\ o \notin Seeds /\ o \notin Caches /\ o \notin Looks
      /\ (o = <<"open", wkek>> <=> x = wkek) /\ (o = <<"open", seed>> <=> x = seed)
      /\ \A k : o # <<"derived", k>>
      /\ o # <<"write", seed>>
      /\ (x = wkek => NewKek) /\ (x = seed => NewSeed /\ CanUnlock)
  <2>1. /\ o \notin Loads /\ o \notin Seeds /\ o \notin Caches /\ o \notin Looks
        /\ (o = <<"open", wkek>> <=> x = wkek) /\ (o = <<"open", seed>> <=> x = seed)
        /\ \A k : o # <<"derived", k>>
        /\ o # <<"write", seed>>
        /\ (x = wkek => o \in Stores(wkek)) /\ (x = seed => o \in Stores(seed))
        /\ (x = seed => o \in Guarded)
    BY <1>1, HeadClass, FilesDiffer
  <2> QED BY <1>1, <2>1
<1>4. CASE Fault /\ Fails /\ UNCHANGED flash
  BY <1>4, FailNormal DEF FsOpen
<1>5. CASE /\ flash' = [flash EXCEPT ![x] = IF @ = Absent THEN Empty ELSE @]
           /\ Does(<<>>) /\ UNCHANGED <<ram, given, failed, spoiled, count>>
  <2>0. wkek \in Files /\ seed \in Files /\ cache \in Files /\ keyset \in Files
    BY FilesDiffer
  <2>1. \A f \in Files : flash'[f] = flash[f] \/ (f = x /\ flash[f] = Absent /\ flash'[f] = Empty)
    BY <1>2, <1>5 DEF TypeInv, FlashType
  <2>2. \A f \in Files : /\ flash[f].key > 0 => flash'[f] = flash[f]
                         /\ flash'[f].key > 0 => flash'[f] = flash[f]
                         /\ flash'[f].key <= flash[f].key
                         /\ flash[f] # Absent => flash'[f] # Absent
                         /\ f # x => flash'[f] = flash[f]
    BY <2>1, Sealing, Values
  <2>3. TypeInv'
    <3> DEFINE v == IF flash[x] = Absent THEN Empty ELSE flash[x]
    <3>1. flash' = [flash EXCEPT ![x] = v]
      BY <1>2, <1>5 DEF TypeInv, FlashType
    <3>2. Empty \in Contents
      BY Values DEF Empty, Sealed, NoKeys, Contents
    <3>3. v \in Contents
      BY <1>2, <3>2, Values
    <3> HIDE DEF v
    <3> QED BY <1>5, <3>1, <3>3, StoreType
  <2>4. FileInv'
    BY <2>0, <2>2 DEF FileInv
  <2>5. \A f \in Files : (Readable(f) <=> Readable(f)') /\ (Readable(f) => flash'[f] = flash[f])
    BY <2>0, <2>2, Values DEF Readable
  <2>6. CanUnlock => CanUnlock'
    <3>1. \A f \in {unlock} \cup Fingerprints : f \in Files /\ f # x
      BY <1>2, FilesDiffer
    <3> QED BY <2>2, <3>1 DEF CanUnlock, fs_file_exists
  <2>7. Goods' = Goods
    BY <1>5, <2>0, <2>5 DEF Goods
  <2>8. (SeedGood => SeedGood') /\ (NewSeed => NewSeed')
    BY <1>5, <2>0, <2>5 DEF SeedGood, NewSeed
  <2>9. NewKek => NewKek'
    <3> SUFFICES ASSUME NewKek PROVE NewKek'
      OBVIOUS
    <3>1. flash'[wkek].key <= 0
      <4>1. flash'[wkek].key = flash[wkek].key \/ flash'[wkek].key = -2
        BY <2>0, <2>1, Sealing
      <4> QED BY <4>1, <2>0, Values DEF NewKek
    <3>2. \A f \in Files : flash'[f].key < ram.wkek
      <4> TAKE f \in Files
      <4>1. flash'[f].key = flash[f].key \/ flash'[f].key = -2
        BY <2>1, Sealing
      <4> QED BY <4>1, Values DEF NewKek
    <3> QED BY <1>5, <3>1, <3>2 DEF NewKek
  <2>10. Program'
    <3>1. Head(todo) = o
      BY DEF o
    <3> QED BY <1>1, <1>3, <1>5, <2>6, <2>7, <2>8, <2>9, <3>1, ProgramNext DEF Normal
  <2>11. RamInv'
    <3>1. ram.loaded => flash'[wkek] = flash[wkek]
      BY <2>0, <2>2 DEF Normal, RamInv
    <3> QED BY <1>5, <2>7, <3>1 DEF Normal, RamInv
  <2>12. ~spoiled' => Safe'
    <3> SUFFICES ASSUME ~spoiled, Safe PROVE Safe'
      BY <1>5 DEF Normal
    <3>1. Kept'
      BY <1>5, <2>0, <2>5 DEF Safe, Kept
    <3>2. Same'
      BY <1>5, <2>0, <2>5 DEF Safe, Same
    <3>3. Unlockable'
      BY <1>3, <2>0, <2>2, <2>6 DEF Safe, Unlockable, fs_file_exists
    <3> QED BY <3>1, <3>2, <3>3 DEF Safe
  <2>13. KeyCount'
    <3>1. fs_file_exists(wkek) => fs_file_exists(wkek)'
      BY <2>0, <2>2 DEF fs_file_exists
    <3>2. CASE x # wkek
      <4>1. Head(todo) # <<"open", wkek>>
        BY <1>3, <3>2 DEF o
      <4> QED BY <1>5, <3>1, <4>1, KeyFrame DEF Normal
    <3>3. CASE x = wkek
      <4>1. flash'[wkek] # Absent
        <5>1. flash'[wkek] = flash[wkek] => flash[wkek] # Absent
          BY <1>2, <1>5, <3>3, Sealing DEF TypeInv, FlashType
        <5> QED BY <2>0, <2>1, <5>1, Sealing
      <4>2. Losses' = Losses
        BY <1>5 DEF Losses
      <4> QED BY <1>5, <4>1, <4>2 DEF Normal, KeyCount, fs_file_exists
    <3> QED BY <3>2, <3>3
  <2>14. SeedCount'
    <3>1. <<>> \in Seq(Ops)
      OBVIOUS
    <3>2. Has(todo, {<<"write", seed>>}) => Has(todo', {<<"write", seed>>})
      BY <1>1, <1>3, <1>5, <3>1, HasDoes DEF Does, o
    <3> QED BY <1>5, <2>0, <2>5, <3>2, SeedFrame DEF Normal
  <2>15. Normal'
    BY <1>5, <2>10, <2>11, <2>12, <2>13, <2>14 DEF Normal
  <2> QED BY <2>3, <2>4, <2>15
<1> QED BY <1>4, <1>5 DEF FsOpen, x

LEMMA ContentIs ==
    /\ Content(wkek) = Sealed(ram.wkek, NoKeys)
    /\ Content(seed) = Sealed(ram.wkek, OfSeed(ram.seed))
    /\ Content(keyset) = Sealed(ram.wkek, OfSeed(ram.seed))
    /\ Content(cache) = Sealed(ram.wkek, ram.cache)
    /\ Content(pubkey) = Sealed(0, NoKeys)
BY FilesDiffer DEF Content

LEMMA ContentType ==
    ASSUME TypeInv, NEW x \in Stored
    PROVE  Content(x) \in Contents
<1>1. /\ ram.wkek \in -2 .. count.keys /\ 0 \in -2 .. count.keys
      /\ NoKeys \in [CacheKeys -> 0 .. count.seeds] /\ OfSeed(ram.seed) \in [CacheKeys -> 0 .. count.seeds]
      /\ ram.cache \in [CacheKeys -> 0 .. count.seeds]
  BY Values DEF NoKeys, OfSeed
<1>2. \A key \in -2 .. count.keys, holds \in [CacheKeys -> 0 .. count.seeds] : Sealed(key, holds) \in Contents
  BY DEF Sealed, Contents
<1> QED BY <1>1, <1>2, ContentIs DEF Stored

\* A file changes that is not the KEK, not the seed and unlocks nothing.
LEMMA OtherFile ==
    ASSUME TypeInv, NEW x \in Files, x \notin {wkek, seed}, x \notin {unlock} \cup Fingerprints,
           NEW v, flash' = [flash EXCEPT ![x] = v],
           UNCHANGED <<ram, spoiled, count>>
    PROVE  /\ flash'[x] = v /\ \A f \in Files : f # x => flash'[f] = flash[f]
           /\ \A f \in Files : f # x => (Readable(f)' <=> Readable(f))
           /\ (SeedGood => SeedGood') /\ Goods' = Goods /\ (NewSeed => NewSeed')
           /\ (CanUnlock => CanUnlock') /\ (RamInv => RamInv')
           /\ (fs_file_exists(wkek) => fs_file_exists(wkek)')
           /\ (Kept /\ UNCHANGED given => Kept') /\ (Unlockable => Unlockable')
<1>1. flash'[x] = v /\ \A f \in Files : f # x => flash'[f] = flash[f]
  BY DEF TypeInv, FlashType
<1>2. wkek \in Files /\ seed \in Files /\ flash'[wkek] = flash[wkek] /\ flash'[seed] = flash[seed]
  BY <1>1, FilesDiffer
<1>3. \A f \in Files : f # x => (Readable(f)' <=> Readable(f))
  BY <1>1, <1>2 DEF Readable
<1>4. Readable(seed)' <=> Readable(seed)
  BY <1>2, <1>3
<1>5. Goods' = Goods
  BY <1>2, <1>4 DEF Goods
<1>6. (SeedGood => SeedGood') /\ (NewSeed => NewSeed') /\ (Kept /\ UNCHANGED given => Kept')
  BY <1>2, <1>4 DEF SeedGood, NewSeed, Kept
<1>7. CanUnlock => CanUnlock'
  <2>1. \A f \in {unlock} \cup Fingerprints : f \in Files /\ f # x
    BY FilesDiffer
  <2> QED BY <1>1, <2>1 DEF CanUnlock, fs_file_exists
<1>8. (RamInv => RamInv') /\ (fs_file_exists(wkek) => fs_file_exists(wkek)')
  BY <1>2, <1>5 DEF RamInv, fs_file_exists
<1>9. Unlockable => Unlockable'
  BY <1>2, <1>7 DEF Unlockable, fs_file_exists
<1> QED BY <1>1, <1>3, <1>5, <1>6, <1>7, <1>8, <1>9

\* An operation that stores a file.
LEMMA WriteHead ==
    ASSUME Normal, todo # <<>>, NEW x, Head(todo) = <<"write", x>>
    PROVE  Head(todo) \in Ops /\ Head(todo)[1] = "write" /\ Head(todo)[2] = x /\ todo \in Seq(Ops)
<1>1. Promise(todo, ram.loaded, SeedGood, Goods, NewKek, NewSeed, CanUnlock)
  BY DEF Normal, Program
<1>2. todo \in Seq(Ops) /\ Head(todo) \in Ops
  BY <1>1, HeadFacts
<1> DEFINE o == Head(todo)
<1>3. o = <<"write", x>>
  OBVIOUS
<1> HIDE DEF o
<1>4. o[1] = "write" /\ o[2] = x
  BY <1>3
<1> QED BY <1>2, <1>4 DEF o

\* The KEK is stored.
LEMMA WriteKek ==
    ASSUME TypeInv, FileInv, Normal, Head(todo) = <<"write", wkek>>, todo # <<>>, NewKek,
           ~Has(todo, {<<"write", seed>>}),
           flash' = [flash EXCEPT ![wkek] = Content(wkek)], Does(<<>>),
           UNCHANGED <<ram, given, failed, spoiled, count>>
    PROVE  FileInv' /\ Normal'
<1> DEFINE o == Head(todo)
<1>1. o \in Ops /\ o[1] = "write" /\ o[2] = wkek /\ todo \in Seq(Ops)
  BY WriteHead
<1>2. /\ o \notin Loads /\ o \notin Seeds /\ o \notin Caches
      /\ \A k : o # <<"derived", k>>
      /\ o # <<"open", wkek>> /\ o # <<"open", seed>>
  <2> HIDE DEF o
  <2> QED BY <1>1, HeadClass, FilesDiffer
<1>3. wkek \in Files /\ seed \in Files /\ cache \in Files /\ keyset \in Files
      /\ wkek # seed /\ wkek # cache /\ wkek # keyset
  BY FilesDiffer
<1>4. flash'[wkek] = Content(wkek) /\ \A f \in Files : f # wkek => flash'[f] = flash[f]
  BY <1>3 DEF TypeInv, FlashType
<1>5. flash'[wkek].key = ram.wkek /\ ram.wkek > 0 /\ flash'[wkek] # Absent
  BY <1>4, ContentIs, Sealing, Values DEF NewKek
<1>6. \A f \in Files : ~Readable(f)
  BY <1>3, Values DEF Readable, NewKek
<1>7. \A f \in Files : f # wkek => ~Readable(f)'
  BY <1>4, <1>5, Values DEF Readable, NewKek
<1>8. Goods \subseteq Goods'
  BY <1>3, <1>6 DEF Goods
<1>9. ~SeedGood /\ ~NewSeed /\ ~ram.loaded
  BY <1>3, <1>6 DEF SeedGood, NewSeed, NewKek
<1>10. CanUnlock => CanUnlock'
  <2>1. \A f \in {unlock} \cup Fingerprints : f \in Files /\ f # wkek
    BY FilesDiffer
  <2> QED BY <1>4, <2>1 DEF CanUnlock, fs_file_exists
<1>11. Program'
  BY <1>2, <1>8, <1>9, <1>10, ProgramNext DEF Normal
<1>12. RamInv'
  <2>1. Goods' \subseteq CacheKeys
    BY DEF Goods
  <2>2. ram'.init => Goods' = CacheKeys
    BY <1>8, <2>1 DEF Normal, RamInv
  <2> QED BY <1>9, <2>2 DEF RamInv
<1>13. ~spoiled' => Safe'
  <2> SUFFICES ASSUME ~spoiled, Safe PROVE Safe'
    BY DEF Normal
  <2>1. count.misreads = 0 => given \cup ram.got = {}
    BY <1>3, <1>6 DEF Safe, Kept
  <2>2. Kept'
    BY <2>1 DEF Kept
  <2>3. Same'
    BY <1>3, <1>7 DEF Same
  <2>4. Unlockable'
    BY <1>3, <1>4, <1>10 DEF Safe, Unlockable, fs_file_exists
  <2> QED BY <2>2, <2>3, <2>4 DEF Safe
<1>14. KeyCount'
  <2>1. fs_file_exists(wkek)'
    BY <1>5 DEF fs_file_exists
  <2> QED BY <1>2, <2>1, KeyFrame DEF Normal
<1>15. SeedCount'
  BY <1>3, <1>6, SeedFrame DEF Normal
<1>16. FileInv'
  BY <1>3, <1>4 DEF FileInv
<1> QED BY <1>11, <1>12, <1>13, <1>14, <1>15, <1>16 DEF Normal

\* The seed is stored.
LEMMA WriteSeed ==
    ASSUME TypeInv, FileInv, Normal, Head(todo) = <<"write", seed>>, todo # <<>>, NewSeed, CanUnlock,
           flash' = [flash EXCEPT ![seed] = Content(seed)], Does(<<>>),
           UNCHANGED <<ram, given, failed, spoiled, count>>
    PROVE  FileInv' /\ Normal'
<1> DEFINE o == Head(todo)
<1>1. o \in Ops /\ o[1] = "write" /\ o[2] = seed /\ todo \in Seq(Ops)
  BY WriteHead
<1>2. /\ o \notin Loads /\ o \notin Caches
      /\ \A k : o # <<"derived", k>>
      /\ o # <<"open", wkek>> /\ o # <<"open", seed>>
  <2> HIDE DEF o
  <2> QED BY <1>1, HeadClass, FilesDiffer
<1>3. wkek \in Files /\ seed \in Files /\ cache \in Files /\ keyset \in Files
      /\ wkek # seed /\ seed # cache /\ seed # keyset
  BY FilesDiffer
<1>4. flash'[seed] = Content(seed) /\ \A f \in Files : f # seed => flash'[f] = flash[f]
  BY <1>3 DEF TypeInv, FlashType
<1>5. flash'[seed].key = ram.wkek /\ flash'[seed].holds = OfSeed(ram.seed)
  BY <1>4, ContentIs, Sealing
<1>6. flash'[wkek].key = ram.wkek /\ ram.wkek > 0 /\ flash'[wkek] = flash[wkek]
  BY <1>3, <1>4 DEF NewSeed, Normal, RamInv
<1>7. SeedGood' /\ Readable(seed)'
  BY <1>5, <1>6 DEF SeedGood, Readable
<1>8. Goods \subseteq Goods'
  BY <1>3 DEF Goods, NewSeed
<1>9. \A f \in Files : f # seed => (Readable(f)' <=> Readable(f))
  BY <1>3, <1>4 DEF Readable
<1>10. CanUnlock'
  <2>1. \A f \in {unlock} \cup Fingerprints : f \in Files /\ f # seed
    BY FilesDiffer
  <2> QED BY <1>4, <2>1 DEF CanUnlock, fs_file_exists
<1>11. Program'
  BY <1>2, <1>7, <1>8, <1>10, ProgramNext DEF Normal
<1>12. RamInv'
  <2>1. Goods' \subseteq CacheKeys
    BY DEF Goods
  <2>2. ram'.init => Goods' = CacheKeys
    BY <1>8, <2>1 DEF Normal, RamInv
  <2> QED BY <1>6, <2>2 DEF RamInv
<1>13. ~spoiled' => Safe'
  <2> SUFFICES ASSUME ~spoiled, Safe PROVE Safe'
    BY DEF Normal
  <2>1. count.misreads = 0 => given \cup ram.got = {}
    BY DEF Safe, Kept, NewSeed
  <2>2. Kept'
    BY <2>1 DEF Kept
  <2>3. Same'
    BY <1>3, <1>9 DEF Safe, Same, NewSeed
  <2> QED BY <1>10, <2>2, <2>3 DEF Safe, Unlockable
<1>14. KeyCount'
  <2>1. fs_file_exists(wkek) => fs_file_exists(wkek)'
    BY <1>6 DEF fs_file_exists
  <2> QED BY <1>2, <2>1, KeyFrame DEF Normal
<1>15. SeedCount'
  BY <1>7, SeedFrame DEF Normal
<1>16. FileInv'
  <2>1. ram.seed > 0
    BY DEF NewSeed
  <2>2. \A k \in CacheKeys : flash'[seed].holds[k] = ram.seed
    BY <1>5, Sealing
  <2>3. flash'[seed].holds["auth"] = ram.seed
    BY <2>2, Sealing
  <2> QED BY <1>3, <1>4, <1>5, <2>1, <2>2, <2>3 DEF FileInv
<1> QED BY <1>11, <1>12, <1>13, <1>14, <1>15, <1>16 DEF Normal

\* The cache, the keyset or the public key is stored.
LEMMA WriteOther ==
    ASSUME TypeInv, FileInv, Normal, NEW x \in {cache, keyset, pubkey}, Head(todo) = <<"write", x>>,
           todo # <<>>,
           x = cache => ram.loaded /\ Goods = CacheKeys, x = keyset => ram.loaded /\ SeedGood,
           ~Has(todo, {<<"write", seed>>}),
           flash' = [flash EXCEPT ![x] = Content(x)], Does(<<>>),
           UNCHANGED <<ram, given, failed, spoiled, count>>
    PROVE  FileInv' /\ Normal'
<1> DEFINE o == Head(todo)
<1>1. o \in Ops /\ o[1] = "write" /\ o[2] = x /\ todo \in Seq(Ops)
  BY WriteHead
<1>2. /\ o \notin Loads /\ o \notin Seeds /\ (o \in Caches => x = cache)
      /\ \A k : o # <<"derived", k>>
      /\ o # <<"open", wkek>> /\ o # <<"open", seed>>
  <2> HIDE DEF o
  <2> QED BY <1>1, HeadClass, FilesDiffer
<1>3. /\ x \in Files /\ x \notin {wkek, seed} /\ x \notin {unlock} \cup Fingerprints
      /\ wkek \in Files /\ seed \in Files /\ cache \in Files /\ keyset \in Files
      /\ cache # keyset /\ cache # pubkey /\ keyset # pubkey
  BY FilesDiffer
<1>4. /\ flash'[x] = Content(x) /\ \A f \in Files : f # x => flash'[f] = flash[f]
      /\ \A f \in Files : f # x => (Readable(f)' <=> Readable(f))
      /\ (SeedGood => SeedGood') /\ Goods' = Goods /\ (NewSeed => NewSeed')
      /\ (CanUnlock => CanUnlock') /\ (RamInv => RamInv')
      /\ (fs_file_exists(wkek) => fs_file_exists(wkek)')
      /\ (Kept => Kept') /\ (Unlockable => Unlockable')
  BY <1>3, OtherFile
<1>5. Program'
  BY <1>2, <1>4, ProgramNext DEF Normal
<1>6. /\ flash'[seed] = flash[seed] /\ (Readable(seed)' <=> Readable(seed))
  BY <1>3, <1>4
<1>7. x = cache => /\ flash'[x].holds = ram.cache /\ \A k \in CacheKeys : ram.cache[k] > 0
                   /\ (~spoiled /\ count.misreads = 0) => Readable(seed) /\ flash[seed].holds = ram.cache
  <2> SUFFICES ASSUME x = cache
               PROVE  /\ flash'[x].holds = ram.cache /\ \A k \in CacheKeys : ram.cache[k] > 0
                      /\ (~spoiled /\ count.misreads = 0) => Readable(seed) /\ flash[seed].holds = ram.cache
    OBVIOUS
  <2>1. flash'[x].holds = ram.cache
    BY <1>4, ContentIs, Sealing
  <2>2. \A k \in CacheKeys : /\ ram.cache[k] > 0
                             /\ (~spoiled /\ count.misreads = 0) => Readable(seed) /\ flash[seed].holds[k] = ram.cache[k]
    BY DEF Goods
  <2>3. (~spoiled /\ count.misreads = 0) => Readable(seed)
    BY <2>2, Sealing
  <2>4. (~spoiled /\ count.misreads = 0) => flash[seed].holds = ram.cache
    BY <1>3, <2>2, Values
  <2> QED BY <2>1, <2>2, <2>3, <2>4
<1>8. x = keyset => /\ flash'[x].holds = flash[seed].holds
                    /\ Readable(seed) /\ \A k \in CacheKeys : flash'[x].holds[k] > 0
  <2> SUFFICES ASSUME x = keyset
               PROVE  /\ flash'[x].holds = flash[seed].holds
                      /\ Readable(seed) /\ \A k \in CacheKeys : flash'[x].holds[k] > 0
    OBVIOUS
  <2>1. flash'[x].holds = OfSeed(ram.seed) /\ SeedGood
    BY <1>4, ContentIs, Sealing
  <2>2. flash[seed].holds = OfSeed(ram.seed) /\ Readable(seed)
    BY <2>1 DEF SeedGood
  <2>3. \A k \in CacheKeys : flash[seed].holds[k] > 0
    BY <2>2 DEF FileInv, Readable
  <2> QED BY <2>1, <2>2, <2>3
<1>9. Same' \/ spoiled
  <2> SUFFICES ASSUME ~spoiled, count'.misreads = 0, NEW f \in {cache, keyset}, Readable(f)'
               PROVE  Readable(seed)' /\ flash'[f].holds = flash'[seed].holds
    BY DEF Same
  <2>1. CASE f = x
    BY <2>1, <1>3, <1>6, <1>7, <1>8
  <2>2. CASE f # x
    <3>1. Readable(f) /\ flash'[f] = flash[f]
      BY <2>2, <1>3, <1>4
    <3>2. Readable(seed) /\ flash[f].holds = flash[seed].holds
      BY <3>1 DEF Normal, Safe, Same
    <3> QED BY <3>1, <3>2, <1>6
  <2> QED BY <2>1, <2>2
<1>10. ~spoiled' => Safe'
  BY <1>4, <1>9 DEF Normal, Safe
<1>11. KeyCount'
  BY <1>2, <1>4, KeyFrame DEF Normal
<1>12. SeedCount'
  BY <1>6, SeedFrame DEF Normal
<1>13. FileInv'
  <2>1. ASSUME NEW f \in {seed, cache, keyset}, flash'[f].key > 0, NEW k \in CacheKeys
        PROVE  flash'[f].holds[k] > 0
    <3>1. CASE f = x
      BY <3>1, <1>3, <1>7, <1>8
    <3>2. CASE f # x
      <4>1. flash'[f] = flash[f]
        BY <3>2, <1>3, <1>4
      <4> QED BY <2>1, <4>1 DEF FileInv
    <3> QED BY <3>1, <3>2
  <2> QED BY <2>1, <1>6 DEF FileInv
<1> QED BY <1>4, <1>5, <1>10, <1>11, <1>12, <1>13 DEF Normal

LEMMA WriteNormal ==
    ASSUME TypeInv, FileInv, Normal, FsWrite
    PROVE  TypeInv' /\ FileInv' /\ Normal'
<1> DEFINE o == Head(todo)
<1> DEFINE x == Subject
<1>0. Doing("write")
  BY DEF FsWrite
<1>1. /\ todo # <<>> /\ todo \in Seq(Ops) /\ o \in Ops /\ o[1] = "write" /\ o[2] = x /\ x \in Stored
      /\ o = <<"write", x>>
      /\ o \in NeedKek => ram.loaded
      /\ o \in NeedSeed => SeedGood
      /\ o = <<"write", cache>> => Goods = CacheKeys
      /\ o \in Stores(wkek) => NewKek
      /\ o \in Stores(seed) => NewSeed
      /\ o \in Guarded => CanUnlock
      /\ Has(todo, {<<"write", seed>>}) => (o = <<"write", seed>> \/ o \in Loads \cup {<<"open", seed>>})
  BY <1>0, NormalHead
<1>2. x \in {wkek, seed, cache, keyset, pubkey}
  BY <1>1 DEF Stored
<1> HIDE DEF o, x
<1>3. /\ (x = wkek => NewKek) /\ (x = seed => NewSeed /\ CanUnlock)
      /\ (x = cache => ram.loaded /\ Goods = CacheKeys) /\ (x = keyset => ram.loaded /\ SeedGood)
      /\ (x # seed => ~Has(todo, {<<"write", seed>>}))
  <2>1. /\ (x = wkek => o \in Stores(wkek)) /\ (x = seed => o \in Stores(seed) /\ o \in Guarded)
        /\ (x \in {cache, keyset} => o \in NeedKek) /\ (x = keyset => o \in NeedSeed)
        /\ (x = cache => o = <<"write", cache>>)
        /\ o \notin Loads /\ o # <<"open", seed>> /\ (o = <<"write", seed>> => x = seed)
    BY <1>1, HeadClass, FilesDiffer
  <2> QED BY <1>1, <2>1
<1>4. CASE Fault /\ Fails /\ UNCHANGED flash
  BY <1>4, FailNormal DEF FsWrite
<1>5. CASE /\ flash' = [flash EXCEPT ![x] = Content(x)]
           /\ Does(<<>>) /\ UNCHANGED <<ram, given, failed, spoiled, count>>
  <2>1. TypeInv'
    <3>1. Content(x) \in Contents
      BY <1>1, ContentType
    <3> QED BY <1>5, <3>1, StoreType
  <2>2. Head(todo) = <<"write", x>>
    BY <1>1 DEF o
  <2>3. CASE x = wkek
    <3>1. ~Has(todo, {<<"write", seed>>}) /\ NewKek
      BY <1>3, <2>3, FilesDiffer
    <3> QED BY <1>1, <1>5, <2>1, <2>2, <2>3, <3>1, WriteKek
  <2>4. CASE x = seed
    BY <1>1, <1>3, <1>5, <2>1, <2>2, <2>4, WriteSeed
  <2>5. CASE x \in {cache, keyset, pubkey}
    <3>1. ~Has(todo, {<<"write", seed>>})
      BY <1>3, <2>5, FilesDiffer
    <3> QED BY <1>1, <1>3, <1>5, <2>1, <2>2, <2>5, <3>1, WriteOther
  <2> QED BY <1>2, <2>3, <2>4, <2>5
<1> QED BY <1>4, <1>5 DEF FsWrite, x

-----------------------------------------------------------------------------
(* Steps that leave the files alone *)
LEMMA FlashFrame ==
    ASSUME UNCHANGED flash
    PROVE  /\ \A f : (Readable(f)' <=> Readable(f)) /\ (fs_file_exists(f)' <=> fs_file_exists(f))
           /\ (CanUnlock' <=> CanUnlock) /\ (Unlockable => Unlockable')
           /\ (Same /\ (count'.misreads = 0 => count.misreads = 0) => Same')
           /\ (FileInv => FileInv')
<1>1. \A f : (Readable(f)' <=> Readable(f)) /\ (fs_file_exists(f)' <=> fs_file_exists(f))
  BY DEF Readable, fs_file_exists
<1>2. CanUnlock' <=> CanUnlock
  BY DEF CanUnlock, fs_file_exists
<1>3. Same /\ (count'.misreads = 0 => count.misreads = 0) => Same'
  BY <1>1 DEF Same
<1>4. Unlockable => Unlockable'
  BY <1>1, <1>2 DEF Unlockable
<1> QED BY <1>1, <1>2, <1>3, <1>4, FileFrame

\* The same, and the cache in RAM as well.
LEMMA GoodsFrame ==
    ASSUME UNCHANGED <<flash, spoiled>>, ram'.cache = ram.cache, count'.misreads = count.misreads
    PROVE  Goods' = Goods
BY FlashFrame DEF Goods

\* The program is not about to make a KEK or to store a seed.
LEMMA CountsFrame ==
    ASSUME Normal, UNCHANGED <<flash, count>>,
           todo # <<>> => Head(todo) # <<"open", wkek>>,
           Has(todo, {<<"write", seed>>}) => Has(todo', {<<"write", seed>>})
    PROVE  KeyCount' /\ SeedCount'
<1>1. KeyCount'
  BY FlashFrame, KeyFrame DEF Normal
<1>2. SeedCount'
  BY FlashFrame, SeedFrame DEF Normal
<1> QED BY <1>1, <1>2

\* The rest of the program still stores the seed.
LEMMA StillStores ==
    ASSUME todo # <<>>, todo \in Seq(Ops), NEW p \in Seq(Ops), todo' = p \o Tail(todo),
           Head(todo) # <<"write", seed>>
    PROVE  Has(todo, {<<"write", seed>>}) => Has(todo', {<<"write", seed>>})
BY HasDoes

LEMMA DoesHead ==
    ASSUME NEW S, NEW t \in Seq(S), t # <<>>, NEW p \in Seq(S), p # <<>>
    PROVE  p \o Tail(t) # <<>> /\ Head(p \o Tail(t)) = p[1]
<1> DEFINE q == p \o Tail(t)
<1>1. /\ q \in Seq(S) /\ Len(q) = Len(p) + Len(t) - 1
      /\ \A i \in 1 .. Len(p) : i \in 1 .. Len(q) /\ q[i] = p[i]
      /\ \A i \in 2 .. Len(t) : i + Len(p) - 1 \in 1 .. Len(q) /\ q[i + Len(p) - 1] = t[i]
  BY DoesShape
<1> HIDE DEF q
<1>0. 1 \in 1 .. Len(p)
  OBVIOUS
<1>2. 1 \in 1 .. Len(q) /\ q[1] = p[1]
  BY <1>0, <1>1
<1>3. q # <<>>
  BY <1>1, <1>2
<1>4. Head(q) = q[1]
  BY <1>1, <1>3
<1> QED BY <1>2, <1>3, <1>4 DEF q

\* Types, when the RAM changes.
LEMMA RamChange ==
    ASSUME TypeInv, UNCHANGED <<flash, given, failed, spoiled, count>>, RamType'
    PROVE  TypeInv'
<1>1. FlashType' /\ CountType' /\ HistoryType'
  BY DEF TypeInv, FlashType, CountType, HistoryType, Contents
<1> QED BY <1>1 DEF TypeInv

\* The KEK is there, or a new one is made.
LEMMA NewKekNormal ==
    ASSUME TypeInv, FileInv, Normal, Doing("wkek"), ~fs_file_exists(wkek),
           count' = [count EXCEPT !.keys = @ + 1], ram' = [ram EXCEPT !.wkek = count.keys + 1],
           Does(fs_util_write_global(wkek) \o <<<<"load", wkek>>>>),
           UNCHANGED <<flash, given, failed, spoiled>>
    PROVE  TypeInv' /\ FileInv' /\ Normal'
<1> DEFINE o == Head(todo)
<1>1. /\ todo # <<>> /\ todo \in Seq(Ops) /\ o \in Ops /\ o[1] = "wkek" /\ o[2] = Subject
      /\ Has(todo, {<<"write", seed>>}) => NewSeed
  BY NormalHead
<1>2. /\ o \notin Seeds /\ o \notin Caches /\ \A k : o # <<"derived", k>>
      /\ o # <<"open", wkek>> /\ o # <<"open", seed>>
  <2> HIDE DEF o
  <2> QED BY <1>1, HeadClass
<1> HIDE DEF o
<1>3. /\ count.keys \in Nat /\ count.seeds \in Nat /\ count'.keys = count.keys + 1
      /\ count'.seeds = count.seeds /\ Losses' = Losses /\ Losses \in Nat /\ count'.faults = count.faults
      /\ count'.misreads = count.misreads
  <2>1. /\ count'.keys = count.keys + 1 /\ count'.seeds = count.seeds /\ count'.wipes = count.wipes
        /\ count'.faults = count.faults /\ count'.misreads = count.misreads /\ count'.crashes = count.crashes
    BY DEF TypeInv, CountType
  <2> QED BY <2>1, Numbers DEF TypeInv, Losses
<1>4. /\ ram'.wkek = count.keys + 1 /\ ram'.loaded = ram.loaded /\ ram'.init = ram.init
      /\ ram'.cache = ram.cache /\ ram'.seed = ram.seed /\ ram'.got = ram.got
  BY DEF TypeInv, RamType
<1>5. TypeInv'
  <2>1. CountType'
    BY <1>3 DEF TypeInv, CountType
  <2>2. \A i : (i \in -2 .. count.keys => i \in -2 .. count'.keys) /\ (i \in 0 .. count.keys => i \in 0 .. count'.keys)
    BY <1>3
  <2>3. FlashType'
    <3>1. \A v \in Contents : v \in Contents'
      BY <1>3, <2>2 DEF Contents
    <3> QED BY <3>1 DEF TypeInv, FlashType
  <2>4. RamType'
    <3>1. count.keys + 1 \in 0 .. count'.keys
      BY <1>3
    <3> QED BY <1>3, <3>1 DEF TypeInv, RamType
  <2>5. HistoryType'
    BY <1>3 DEF TypeInv, HistoryType
  <2> QED BY <2>1, <2>3, <2>4, <2>5 DEF TypeInv
<1>6. wkek \in Files /\ seed \in Files /\ flash[wkek].key = -1
  BY FilesDiffer, Sealing DEF fs_file_exists
<1>7. ~ram.loaded /\ ~Readable(seed)
  BY <1>6, Values DEF Normal, RamInv, Readable
<1>8. ~SeedGood /\ ~NewSeed
  BY <1>7 DEF SeedGood, NewSeed
<1>9. Goods' = Goods
  BY <1>3, <1>4, GoodsFrame
<1>10. NewKek'
  <2>1. \A f \in Files : flash[f].key < count.keys + 1
    BY Values
  <2> QED BY <1>3, <1>4, <1>6, <1>7, <2>1 DEF NewKek
<1> DEFINE p == NewKekProgram
<1>11. todo' = p \o Tail(todo)
  BY DEF Does, NewKekProgram
<1>12. /\ Promise(p, ram'.loaded, SeedGood', Goods', TRUE, NewSeed', CanUnlock')
       /\ Has(p, Loads) /\ ~Has(p, Looks)
  BY PromiseNewKek
<1>13. p \in Seq(Ops) /\ p[1] = <<"open", wkek>> /\ Len(p) = 3
  BY NewKekShape
<1> HIDE DEF p
<1>14. Promise(p, ram'.loaded, SeedGood', Goods', NewKek', NewSeed', CanUnlock')
  BY <1>10, <1>12 DEF Promise, Lead
<1>15. Program'
  <2>1. Head(todo) = o
    BY DEF o
  <2>2. Goods \subseteq Goods' /\ (CanUnlock => CanUnlock') /\ Program
    BY <1>9, FlashFrame DEF Normal
  <2> QED BY <1>1, <1>2, <1>8, <1>4, <1>11, <1>12, <1>14, <2>1, <2>2, ProgramDoes
<1>16. RamInv'
  BY <1>4, <1>7, <1>9 DEF Normal, RamInv
<1>17. ~spoiled' => Safe'
  BY <1>3, <1>4, FlashFrame DEF Normal, Safe, Kept
<1>18. KeyCount'
  <2>1. count.keys <= Losses
    BY <1>2 DEF Normal, KeyCount, o
  <2>2. todo' # <<>> /\ Head(todo') = <<"open", wkek>>
    <3>1. p # <<>>
      BY <1>13
    <3> QED BY <1>1, <1>11, <1>13, <3>1, DoesHead
  <2> QED BY <1>3, <2>1, <2>2 DEF KeyCount
<1>19. SeedCount'
  <2>1. count.seeds <= Losses
    BY <1>1, <1>7, <1>8 DEF Normal, SeedCount
  <2> QED BY <1>3, <2>1 DEF SeedCount
<1> QED BY <1>5, <1>15, <1>16, <1>17, <1>18, <1>19, FlashFrame DEF Normal

LEMMA WkekNormal ==
    ASSUME TypeInv, FileInv, Normal, WkekLazyInit
    PROVE  TypeInv' /\ FileInv' /\ Normal'
<1>1. CASE ~fs_file_exists(wkek)
  BY <1>1, NewKekNormal DEF WkekLazyInit
<1>2. CASE fs_file_exists(wkek)
  <2> DEFINE p == <<<<"load", wkek>>>>
  <2>1. /\ Doing("wkek") /\ todo' = p \o Tail(todo)
        /\ UNCHANGED <<flash, ram, given, failed, spoiled, count>>
    BY <1>2 DEF WkekLazyInit, Does
  <2> DEFINE o == Head(todo)
  <2>2. /\ todo # <<>> /\ todo \in Seq(Ops) /\ o \in Ops /\ o[1] = "wkek" /\ o[2] = Subject
    BY <2>1, NormalHead
  <2>3. /\ o \notin Seeds /\ o \notin Caches /\ (\A k : o # <<"derived", k>>)
        /\ o # <<"open", wkek>> /\ o # <<"write", seed>>
    <3> HIDE DEF o
    <3> QED BY <2>2, HeadClass
  <2>4. /\ Promise(p, ram'.loaded, SeedGood', Goods', NewKek', NewSeed', CanUnlock')
        /\ Has(p, Loads) /\ ~Has(p, Looks) /\ \A i \in 1 .. Len(p) : p[i] \in Loads
    BY PromiseLoad
  <2>5. p \in Seq(Ops)
    BY <2>4 DEF Promise
  <2> HIDE DEF p
  <2>6. /\ (SeedGood => SeedGood') /\ Goods' = Goods /\ (NewKek => NewKek') /\ (NewSeed => NewSeed')
        /\ (CanUnlock => CanUnlock') /\ (RamInv => RamInv') /\ ram'.loaded = ram.loaded
    BY <2>1, FlagFrame
  <2>7. Program'
    BY <2>1, <2>2, <2>3, <2>4, <2>6, ProgramDoes DEF Normal
  <2>8. KeyCount' /\ SeedCount'
    BY <2>1, <2>2, <2>3, <2>5, StillStores, CountsFrame
  <2>9. ~spoiled' => Safe'
    BY <2>1, SafeFrame DEF Normal
  <2>10. TypeInv'
    <3>1. RamType'
      BY <2>1 DEF TypeInv, RamType
    <3> QED BY <2>1, <3>1, RamChange
  <2> QED BY <2>1, <2>6, <2>7, <2>8, <2>9, <2>10, FlashFrame DEF Normal
<1> QED BY <1>1, <1>2

LEMMA LoadNormal ==
    ASSUME TypeInv, FileInv, Normal, wkek_load
    PROVE  TypeInv' /\ FileInv' /\ Normal'
<1> DEFINE o == Head(todo)
<1>0. Doing("load")
  BY DEF wkek_load
<1>1. /\ todo # <<>> /\ todo \in Seq(Ops) /\ o \in Ops /\ o[1] = "load" /\ o[2] = Subject
      /\ Has(todo, {<<"write", seed>>}) => NewSeed
  BY <1>0, NormalHead
<1>2. /\ o \notin Seeds /\ o \notin Caches /\ (\A k : o # <<"derived", k>>)
      /\ o # <<"open", wkek>> /\ o # <<"open", seed>> /\ o # <<"write", seed>>
  <2> HIDE DEF o
  <2> QED BY <1>1, HeadClass
<1>3. CASE ~ram.loaded /\ Fails /\ UNCHANGED ram /\ (UNCHANGED count \/ Fault)
  <2>1. ~Has(todo, {<<"write", seed>>})
    BY <1>1, <1>3 DEF NewSeed
  <2> QED BY <1>1, <1>2, <1>3, <2>1, FailNormal DEF wkek_load
<1>4. CASE /\ ram.loaded \/ flash[wkek].key > 0
           /\ ram' = [ram EXCEPT !.loaded = TRUE,
                                 !.wkek = IF ram.loaded THEN @ ELSE flash[wkek].key]
           /\ Does(<<>>) /\ UNCHANGED <<flash, given, failed, spoiled, count>>
  <2>1. wkek \in Files /\ (ram.loaded => flash[wkek].key = ram.wkek /\ ram.wkek > 0)
    BY FilesDiffer DEF Normal, RamInv
  <2>2. /\ ram'.loaded /\ ram'.wkek = flash[wkek].key /\ flash[wkek].key > 0 /\ ram'.init = ram.init
        /\ ram'.cache = ram.cache /\ ram'.seed = ram.seed /\ ram'.got = ram.got
    BY <1>4, <2>1 DEF TypeInv, RamType
  <2>3. RamType'
    <3>1. flash[wkek].key \in 0 .. count.keys
      BY <2>1, <2>2, Values
    <3>2. (IF ram.loaded THEN ram.wkek ELSE flash[wkek].key) \in 0 .. count.keys
      BY <3>1, <2>1
    <3> QED BY <1>4, <3>2 DEF TypeInv, RamType
  <2>4. TypeInv'
    BY <1>4, <2>3, RamChange
  <2>5. Goods' = Goods
    BY <1>4, <2>2, GoodsFrame
  <2>6. (SeedGood => SeedGood') /\ (NewSeed => NewSeed')
    BY <1>4, <2>2, FlashFrame DEF SeedGood, NewSeed
  <2>7. Program'
    BY <1>1, <1>2, <1>4, <2>2, <2>5, <2>6, FlashFrame, ProgramNext DEF Normal
  <2>8. RamInv'
    BY <1>4, <2>2, <2>5 DEF Normal, RamInv
  <2>9. ~spoiled' => Safe'
    BY <1>4, <2>2, FlashFrame DEF Normal, Safe, Kept
  <2>10. KeyCount' /\ SeedCount'
    <3>1. <<>> \in Seq(Ops) /\ todo' = <<>> \o Tail(todo)
      BY <1>4 DEF Does
    <3> QED BY <1>1, <1>2, <1>4, <3>1, StillStores, CountsFrame
  <2> QED BY <1>4, <2>4, <2>7, <2>8, <2>9, <2>10, FlashFrame DEF Normal
<1> QED BY <1>3, <1>4 DEF wkek_load

\* The head of a program is neither the storing of a file nor of the KEK.
LEMMA QuietHead ==
    ASSUME Normal, NEW w, Doing(w), w \notin {"open", "write", "wkek", "load"}
    PROVE  LET o == Head(todo) IN
           /\ todo # <<>> /\ todo \in Seq(Ops) /\ o \in Ops /\ o[1] = w /\ o[2] = Subject
           /\ CanUnlock /\ ~Has(todo, {<<"write", seed>>})
           /\ o \notin Loads /\ o # <<"open", wkek>> /\ o # <<"open", seed>> /\ o # <<"write", seed>>
           /\ w \in {"seed", "derived", "unseal"} => ram.loaded
           /\ w = "derived" => SeedGood
           /\ w = "hit" => Goods = CacheKeys
           /\ (o \in Seeds <=> w = "seed")
           /\ (o \in Caches <=> w = "unseal" /\ Subject = cache)
           /\ (o \in Looks <=> w \in {"use", "hit"})
           /\ \A k : o = <<"derived", k>> <=> w = "derived" /\ Subject = k
<1> DEFINE o == Head(todo)
<1>1. /\ todo # <<>> /\ todo \in Seq(Ops) /\ o \in Ops /\ o[1] = w /\ o[2] = Subject
      /\ o \in NeedKek => ram.loaded
      /\ o \in NeedSeed => SeedGood
      /\ o \in Hits => Goods = CacheKeys
      /\ o \in Guarded => CanUnlock
      /\ Has(todo, {<<"write", seed>>}) => (o = <<"write", seed>> \/ o \in Loads \cup {<<"open", seed>>})
  BY NormalHead
<1> HIDE DEF o
<1>2. /\ o \notin Loads /\ o # <<"open", wkek>> /\ o # <<"open", seed>> /\ o # <<"write", seed>>
      /\ (o \in Seeds <=> w = "seed") /\ (o \in Caches <=> w = "unseal" /\ Subject = cache)
      /\ (o \in Looks <=> w \in {"use", "hit"})
      /\ \A k : o = <<"derived", k>> <=> w = "derived" /\ Subject = k
      /\ o \in Guarded /\ (o \in Hits <=> w = "hit") /\ (w = "derived" => o \in NeedSeed)
      /\ (w \in {"seed", "derived", "unseal"} => o \in NeedKek)
  <2>1. /\ (o \in Loads <=> w \in {"wkek", "load"})
        /\ (w \in {"seed", "derived", "unseal"} => o \in NeedKek)
        /\ (o \in Seeds <=> w = "seed" \/ (w = "write" /\ Subject = seed))
        /\ (w = "derived" => o \in NeedSeed)
        /\ (o \in Caches <=> w \in {"unseal", "write"} /\ Subject = cache)
    BY <1>1, HeadClass
  <2>2. /\ (o \in Hits <=> w = "hit")
        /\ (o \in Looks <=> w \in {"use", "hit"})
        /\ (o \in Guarded <=> ~(w \in {"wkek", "load"}) /\ ~(w \in {"open", "write"} /\ Subject = wkek))
        /\ \A v, f : o = <<v, f>> <=> w = v /\ Subject = f
    BY <1>1, HeadClass
  <2> QED BY <2>1, <2>2
<1> QED BY <1>1, <1>2 DEF o

\* The head was done, and the RAM keeps what the program relied on.
LEMMA QuietStep ==
    ASSUME TypeInv, FileInv, Normal, NEW w, Doing(w), w \notin {"open", "write", "wkek", "load"},
           Does(<<>>), UNCHANGED <<flash, failed, spoiled, count>>, TypeInv',
           ram'.loaded = ram.loaded, ram'.wkek = ram.wkek,
           SeedGood => SeedGood', Goods \subseteq Goods', ram'.init => Goods' = CacheKeys,
           w = "seed" => SeedGood',
           \A k \in CacheKeys : w = "derived" /\ Subject = k => k \in Goods',
           w = "unseal" /\ Subject = cache => Goods' = CacheKeys,
           ~spoiled => Kept'
    PROVE  FileInv' /\ Normal'
<1> DEFINE o == Head(todo)
<1>1. /\ todo # <<>> /\ todo \in Seq(Ops)
      /\ o \notin Loads /\ o # <<"open", wkek>> /\ o # <<"open", seed>> /\ o # <<"write", seed>>
      /\ (o \in Seeds <=> w = "seed")
      /\ (o \in Caches <=> w = "unseal" /\ Subject = cache)
      /\ \A k : o = <<"derived", k>> <=> w = "derived" /\ Subject = k
  BY QuietHead
<1> HIDE DEF o
<1>2. /\ (CanUnlock' <=> CanUnlock) /\ (Same => Same') /\ (Unlockable => Unlockable')
      /\ (FileInv => FileInv')
  BY FlashFrame
<1>3. Program'
  BY <1>1, <1>2, ProgramNext DEF o, Normal
<1>4. KeyCount' /\ SeedCount'
  <2>1. <<>> \in Seq(Ops) /\ todo' = <<>> \o Tail(todo)
    BY DEF Does
  <2>2. Head(todo) # <<"open", wkek>> /\ Head(todo) # <<"write", seed>>
    BY <1>1 DEF o
  <2> QED BY <1>1, <2>1, <2>2, StillStores, CountsFrame
<1>5. RamInv'
  BY DEF Normal, RamInv
<1>6. ~spoiled' => Safe'
  BY <1>2 DEF Normal, Safe
<1> QED BY <1>2, <1>3, <1>4, <1>5, <1>6 DEF Normal

\* The KEK in RAM is the one in flash.
LEMMA OpensReadable ==
    ASSUME Normal, ram.loaded, NEW f
    PROVE  Opens(f) <=> Readable(f)
BY DEF Normal, RamInv, Opens, Readable

\* A new seed is made.
LEMMA NewSeedNormal ==
    ASSUME TypeInv, FileInv, Normal, Doing("seed"),
           IF Opens(seed) THEN Misread ELSE count' = [count EXCEPT !.seeds = @ + 1],
           ram' = [ram EXCEPT !.seed = count.seeds + 1],
           Does(wkek_encrypt_and_store(seed)),
           UNCHANGED <<flash, given, failed, spoiled>>
    PROVE  TypeInv' /\ FileInv' /\ Normal'
<1> DEFINE o == Head(todo)
<1>1. /\ todo # <<>> /\ todo \in Seq(Ops) /\ o \in Ops
      /\ CanUnlock /\ ~Has(todo, {<<"write", seed>>})
      /\ o \notin Loads /\ o # <<"open", wkek>> /\ o # <<"open", seed>> /\ o # <<"write", seed>>
      /\ ram.loaded /\ o \notin Caches /\ (\A k : o # <<"derived", k>>)
  BY QuietHead
<1> HIDE DEF o
<1>3. /\ count.keys \in Nat /\ count.seeds \in Nat /\ count'.keys = count.keys
      /\ count'.seeds = count.seeds + 1 /\ Losses \in Nat /\ CountType'
      /\ count.faults \in Nat /\ count'.faults \in {count.faults, count.faults + 1}
      /\ (Opens(seed) => Losses' = Losses + 1 /\ count'.misreads # 0)
      /\ (~Opens(seed) => Losses' = Losses /\ count'.misreads = count.misreads)
  <2>1. CASE ~Opens(seed)
    <3>1. /\ count'.keys = count.keys /\ count'.seeds = count.seeds + 1 /\ count'.wipes = count.wipes
          /\ count'.faults = count.faults /\ count'.misreads = count.misreads /\ count'.crashes = count.crashes
      BY <2>1 DEF TypeInv, CountType
    <3>2. CountType'
      BY <2>1, Numbers DEF TypeInv, CountType
    <3> QED BY <2>1, <3>1, <3>2, Numbers DEF TypeInv, Losses
  <2>2. CASE Opens(seed)
    <3>1. /\ count' = [count EXCEPT !.seeds = @ + 1, !.faults = @ + 1, !.misreads = @ + 1]
          /\ count.faults < MaxFaults /\ count.misreads <= count.faults
      BY <2>2 DEF Misread, TypeInv, CountType
    <3>2. /\ count'.keys = count.keys /\ count'.seeds = count.seeds + 1 /\ count'.wipes = count.wipes
          /\ count'.faults = count.faults + 1 /\ count'.misreads = count.misreads + 1
          /\ count'.crashes = count.crashes
      BY <3>1 DEF TypeInv, CountType
    <3>3. CountType'
      <4>1. count.seeds + 1 \in Nat /\ count.faults + 1 \in 0 .. MaxFaults
            /\ count.misreads + 1 \in 0 .. MaxFaults /\ count.misreads + 1 <= count.faults + 1
        BY <3>1, Numbers DEF TypeInv
      <4> QED BY <3>1, <3>2, <4>1 DEF TypeInv, CountType
    <3> QED BY <2>2, <3>2, <3>3, Numbers DEF TypeInv, Losses
  <2> QED BY <2>1, <2>2
<1>4. /\ ram'.wkek = ram.wkek /\ ram'.loaded = ram.loaded /\ ram'.init = ram.init
      /\ ram'.cache = ram.cache /\ ram'.seed = count.seeds + 1 /\ ram'.got = ram.got
  BY DEF TypeInv, RamType
<1>5. TypeInv'
  <2>2. \A i : /\ (i \in 0 .. count.seeds => i \in 0 .. count'.seeds)
               /\ (i \in 1 .. count.seeds => i \in 1 .. count'.seeds)
    BY <1>3
  <2>3. \A h \in [CacheKeys -> 0 .. count.seeds] : h \in [CacheKeys -> 0 .. count'.seeds]
    BY <2>2
  <2>4. FlashType'
    <3>1. \A v \in Contents : v \in Contents'
      BY <1>3, <2>3 DEF Contents
    <3> QED BY <3>1 DEF TypeInv, FlashType
  <2>5. RamType'
    <3>1. count.seeds + 1 \in 0 .. count'.seeds
      BY <1>3
    <3> QED BY <1>3, <2>2, <2>3, <3>1 DEF TypeInv, RamType
  <2>6. HistoryType'
    BY <1>3, <2>2 DEF TypeInv, HistoryType
  <2> QED BY <1>3, <2>4, <2>5, <2>6 DEF TypeInv
<1>6. Opens(seed) <=> Readable(seed)
  BY <1>1, OpensReadable
<1>2. count'.misreads = 0 => count.misreads = 0 /\ ~Readable(seed)
  BY <1>3, <1>6
<1>7. NewSeed'
  BY <1>1, <1>2, <1>3, <1>4, FlashFrame DEF NewSeed
<1>8. Goods \subseteq Goods' /\ (Goods = CacheKeys => Goods' = CacheKeys)
  <2>1. \A k \in Goods : k \in Goods'
    BY <1>2, <1>4, FlashFrame DEF Goods
  <2>2. Goods' \subseteq CacheKeys
    BY DEF Goods
  <2> QED BY <2>1, <2>2
<1>9. CanUnlock' /\ ram'.loaded
  BY <1>1, <1>4, FlashFrame
<1> DEFINE p == wkek_encrypt_and_store(seed)
<1>10. todo' = p \o Tail(todo)
  BY DEF Does
<1>11. /\ Promise(p, TRUE, SeedGood', Goods', NewKek', TRUE, TRUE)
       /\ Has(p, Seeds) /\ ~Has(p, Looks)
  BY PromiseNewSeed
<1>12. p \in Seq(Ops) /\ p[3] = <<"write", seed>> /\ Len(p) = 3
  BY StoreShape, FilesDiffer DEF Stored
<1> HIDE DEF p
<1>13. Promise(p, ram'.loaded, SeedGood', Goods', NewKek', NewSeed', CanUnlock')
  BY <1>7, <1>9, <1>11 DEF Promise, Lead, Served
<1>14. Program'
  BY <1>1, <1>4, <1>7, <1>8, <1>9, <1>10, <1>11, <1>13, ProgramDoes DEF Normal, o
<1>15. RamInv'
  BY <1>4, <1>8 DEF Normal, RamInv
<1>16. ~spoiled' => Safe'
  BY <1>2, <1>4, FlashFrame DEF Normal, Safe, Kept
<1>17. KeyCount'
  <2>1. count.keys <= Losses \/ (count.keys = Losses + 1 /\ fs_file_exists(wkek))
    BY <1>1 DEF Normal, KeyCount, o
  <2> QED BY <1>3, <2>1, FlashFrame DEF KeyCount
<1>18. SeedCount'
  <2>1. count.seeds + 1 <= Losses' + 1
    <3>1. count.seeds <= Losses \/ (count.seeds = Losses + 1 /\ Readable(seed))
      BY <1>1 DEF Normal, SeedCount
    <3> QED BY <1>3, <1>6, <3>1
  <2>2. Has(p, {<<"write", seed>>})
    <3>1. 3 \in 1 .. Len(p)
      BY <1>12
    <3>2. p[3] \in {<<"write", seed>>}
      BY <1>12
    <3> QED BY <3>1, <3>2 DEF Has
  <2>3. Has(todo', {<<"write", seed>>})
    BY <1>1, <1>10, <1>12, <2>2, HasDoes
  <2>4. Losses' \in Nat /\ count'.seeds = count.seeds + 1
    BY <1>3
  <2> QED BY <1>3, <2>1, <2>3, <2>4 DEF SeedCount
<1> QED BY <1>5, <1>14, <1>15, <1>16, <1>17, <1>18, FlashFrame DEF Normal

LEMMA SeedNormal ==
    ASSUME TypeInv, FileInv, Normal, master_key_lazy_init
    PROVE  TypeInv' /\ FileInv' /\ Normal'
<1>0. Doing("seed")
  BY DEF master_key_lazy_init
<1>1. CASE /\ IF Opens(seed) THEN Misread ELSE count' = [count EXCEPT !.seeds = @ + 1]
           /\ ram' = [ram EXCEPT !.seed = count.seeds + 1] /\ Does(wkek_encrypt_and_store(seed))
           /\ UNCHANGED <<flash, given, failed, spoiled>>
  BY <1>0, <1>1, NewSeedNormal
<1>2. CASE /\ Opens(seed) /\ ram' = [ram EXCEPT !.seed = flash[seed].holds["auth"]]
           /\ Does(<<>>) /\ UNCHANGED <<flash, given, failed, spoiled, count>>
  <2> DEFINE s == flash[seed].holds["auth"]
  <2>1. /\ ram' = [ram EXCEPT !.seed = s]
        /\ Does(<<>>) /\ UNCHANGED <<flash, given, failed, spoiled, count>>
    BY <1>2
  <2>2. ram.loaded
    BY <1>0, QuietHead
  <2>3. Readable(seed)
    BY <1>2, <2>2, OpensReadable
  <2>4. flash[seed].holds = OfSeed(s) /\ s \in 1 .. count.seeds
    BY <2>3, OneSeed
  <2> HIDE DEF s
  <2>5. /\ ram'.wkek = ram.wkek /\ ram'.loaded = ram.loaded /\ ram'.init = ram.init
        /\ ram'.cache = ram.cache /\ ram'.seed = s /\ ram'.got = ram.got
    BY <2>1 DEF TypeInv, RamType
  <2>6. TypeInv'
    <3>1. s \in 0 .. count.seeds /\ RamType
      BY <2>4, Numbers DEF TypeInv
    <3>2. RamType'
      BY <2>1, <3>1 DEF RamType
    <3> QED BY <2>1, <3>2, RamChange
  <2>7. SeedGood'
    BY <2>1, <2>3, <2>4, <2>5, FlashFrame DEF SeedGood
  <2>8. Goods' = Goods /\ (ram'.init => Goods' = CacheKeys)
    BY <2>1, <2>5, GoodsFrame DEF Normal, RamInv
  <2>9. ~spoiled => Kept'
    BY <2>1, <2>5, FlashFrame DEF Normal, Safe, Kept
  <2> QED BY <1>0, <2>1, <2>5, <2>6, <2>7, <2>8, <2>9, QuietStep
<1> QED BY <1>1, <1>2 DEF master_key_lazy_init

\* The seed in RAM is one that was made.
LEMMA GoodSeed ==
    ASSUME TypeInv, FileInv, SeedGood
    PROVE  /\ ram.seed \in 1 .. count.seeds /\ Readable(seed) /\ flash[seed].holds = OfSeed(ram.seed)
           /\ \A k \in CacheKeys : flash[seed].holds[k] = ram.seed
<1>1. Readable(seed) /\ flash[seed].holds = OfSeed(ram.seed)
  BY DEF SeedGood
<1>2. \A k \in CacheKeys : flash[seed].holds[k] = ram.seed
  BY <1>1, Sealing
<1>3. flash[seed].holds["auth"] \in 1 .. count.seeds
  BY <1>1, OneSeed
<1> QED BY <1>1, <1>2, <1>3, Sealing

LEMMA DerivedNormal ==
    ASSUME TypeInv, FileInv, Normal, Derived
    PROVE  TypeInv' /\ FileInv' /\ Normal'
<1>0. Doing("derived") /\ Does(<<>>) /\ UNCHANGED <<flash, given, failed, spoiled, count>>
  BY DEF Derived
<1>1. SeedGood /\ Subject \in CacheKeys \cup {"caller"}
  BY <1>0, QuietHead, NormalHead
<1>2. /\ ram.seed \in 1 .. count.seeds /\ Readable(seed) /\ flash[seed].holds = OfSeed(ram.seed)
      /\ \A k \in CacheKeys : flash[seed].holds[k] = ram.seed
  BY <1>1, GoodSeed
<1>3. CASE Subject = "caller"
  <2>1. ram' = [ram EXCEPT !.got = @ \cup {ram.seed}]
    BY <1>3 DEF Derived
  <2>2. /\ ram'.wkek = ram.wkek /\ ram'.loaded = ram.loaded /\ ram'.init = ram.init
        /\ ram'.cache = ram.cache /\ ram'.seed = ram.seed /\ ram'.got = ram.got \cup {ram.seed}
    BY <2>1 DEF TypeInv, RamType
  <2>3. TypeInv'
    <3>1. RamType'
      BY <1>0, <1>2, <2>1 DEF TypeInv, RamType
    <3> QED BY <1>0, <3>1, RamChange
  <2>4. SeedGood'
    BY <1>0, <1>1, <2>2, FlashFrame DEF SeedGood
  <2>5. Goods' = Goods /\ (ram'.init => Goods' = CacheKeys)
    BY <1>0, <2>2, GoodsFrame DEF Normal, RamInv
  <2>6. ~spoiled => Kept'
    BY <1>0, <1>2, <2>2, FlashFrame DEF Normal, Safe, Kept
  <2>7. "caller" \notin CacheKeys
    BY DEF CacheKeys
  <2> QED BY <1>0, <1>3, <2>2, <2>3, <2>4, <2>5, <2>6, <2>7, QuietStep
<1>4. CASE Subject \in CacheKeys
  <2>0. Subject # "caller"
    BY <1>4 DEF CacheKeys
  <2> DEFINE x == Subject
  <2>1. ram' = [ram EXCEPT !.cache[x] = ram.seed] /\ x \in CacheKeys
    BY <1>4, <2>0 DEF Derived
  <2> HIDE DEF x
  <2>2. /\ ram'.wkek = ram.wkek /\ ram'.loaded = ram.loaded /\ ram'.init = ram.init
        /\ ram'.cache = [ram.cache EXCEPT ![x] = ram.seed] /\ ram'.seed = ram.seed /\ ram'.got = ram.got
    BY <2>1 DEF TypeInv, RamType
  <2>3. ram'.cache \in [CacheKeys -> 0 .. count.seeds]
    BY <1>2, <2>2, Values
  <2>4. TypeInv'
    <3>1. [ram.cache EXCEPT ![x] = ram.seed] \in [CacheKeys -> 0 .. count.seeds]
      BY <2>2, <2>3
    <3>2. ram' = [ram EXCEPT !.cache = [ram.cache EXCEPT ![x] = ram.seed]]
      BY <2>1
    <3>3. RamType'
      BY <1>0, <3>1, <3>2 DEF TypeInv, RamType
    <3> QED BY <1>0, <3>3, RamChange
  <2>5. SeedGood'
    BY <1>0, <1>1, <2>2, FlashFrame DEF SeedGood
  <2>6. \A k \in CacheKeys : ram'.cache[k] = IF k = x THEN ram.seed ELSE ram.cache[k]
    BY <2>1, <2>2, Values
  <2>7. Goods \subseteq Goods' /\ x \in Goods'
    <3>1. /\ Readable(seed)' /\ flash'[seed] = flash[seed] /\ spoiled' = spoiled
          /\ count'.misreads = count.misreads
      BY <1>0, <1>2, FlashFrame
    <3>2. \A k \in Goods : k \in Goods'
      BY <1>2, <2>6, <3>1 DEF Goods
    <3>3. x \in Goods'
      BY <1>2, <2>1, <2>6, <3>1 DEF Goods
    <3> QED BY <3>2, <3>3
  <2>8. ram'.init => Goods' = CacheKeys
    <3>1. Goods' \subseteq CacheKeys
      BY DEF Goods
    <3> QED BY <2>2, <2>7, <3>1 DEF Normal, RamInv
  <2>9. ~spoiled => Kept'
    BY <1>0, <2>2, FlashFrame DEF Normal, Safe, Kept
  <2>10. \A k \in CacheKeys : Subject = k => k \in Goods'
    BY <2>7 DEF x
  <2> QED BY <1>0, <2>2, <2>4, <2>5, <2>7, <2>8, <2>9, <2>10, QuietStep
<1> QED BY <1>1, <1>3, <1>4

\* Part of the program is put in the place of the head, and nothing else changes.
LEMMA UseStep ==
    ASSUME TypeInv, FileInv, Normal, Doing("use"), NEW p, todo' = p \o Tail(todo),
           UNCHANGED <<flash, ram, given, failed, spoiled, count>>,
           Promise(p, ram'.loaded, SeedGood', Goods', NewKek', NewSeed', TRUE)
    PROVE  TypeInv' /\ FileInv' /\ Normal'
<1>1. LET o == Head(todo) IN
      /\ todo # <<>> /\ todo \in Seq(Ops)
      /\ CanUnlock /\ ~Has(todo, {<<"write", seed>>})
      /\ o \notin Loads /\ o # <<"open", wkek>> /\ o # <<"open", seed>> /\ o # <<"write", seed>>
      /\ o \notin Seeds /\ o \notin Caches /\ o \in Looks /\ \A k : o # <<"derived", k>>
  BY QuietHead
<1>2. /\ (SeedGood => SeedGood') /\ Goods' = Goods /\ (NewKek => NewKek') /\ (NewSeed => NewSeed')
      /\ (CanUnlock => CanUnlock') /\ (RamInv => RamInv') /\ ram'.loaded = ram.loaded
  BY FlagFrame
<1>3. Promise(p, ram'.loaded, SeedGood', Goods', NewKek', NewSeed', CanUnlock')
  BY <1>1, <1>2 DEF Promise, Served
<1>4. Program'
  BY <1>1, <1>2, <1>3, ProgramDoes DEF Normal
<1>5. KeyCount' /\ SeedCount'
  BY <1>1, CountsFrame
<1>6. ~spoiled' => Safe'
  BY SafeFrame DEF Normal
<1>7. TypeInv'
  <2>1. RamType'
    BY DEF TypeInv, RamType
  <2> QED BY <2>1, RamChange
<1> QED BY <1>2, <1>4, <1>5, <1>6, <1>7, FlashFrame DEF Normal

LEMMA UseNormal ==
    ASSUME TypeInv, FileInv, Normal, UseCache
    PROVE  TypeInv' /\ FileInv' /\ Normal'
<1> DEFINE k == Subject
<1>1. Doing("use") /\ UNCHANGED <<flash, ram, given, failed, spoiled, count>>
  BY DEF UseCache
<1>2. k \in CacheKeys
  BY <1>1, NormalHead
<1>3. \/ Does(derive_key_priv_from_seed("caller"))
      \/ ram.init /\ Does(<<<<"hit", k>>>>)
      \/ Does(create_derived_key_cache \o <<<<"hit", k>>>>)
      \/ Does(wkek_lazy_init \o <<<<"unseal", cache>>, <<"hit", k>>>>)
  BY DEF UseCache
<1> HIDE DEF k
<1>4. CASE Does(derive_key_priv_from_seed("caller"))
  <2> DEFINE p == derive_key_priv_from_seed("caller")
  <2>1. Promise(p, ram'.loaded, SeedGood', Goods', NewKek', NewSeed', TRUE)
    BY PromiseDerive
  <2>2. todo' = p \o Tail(todo)
    BY <1>4 DEF Does
  <2> HIDE DEF p
  <2> QED BY <1>1, <2>1, <2>2, UseStep
<1>5. CASE ram.init /\ Does(<<<<"hit", k>>>>)
  <2> DEFINE p == <<<<"hit", k>>>>
  <2>0. Goods' = CacheKeys
    BY <1>1, <1>5, GoodsFrame DEF Normal, RamInv
  <2>1. Promise(p, ram'.loaded, SeedGood', CacheKeys, NewKek', NewSeed', TRUE)
    BY <1>2, PromiseHit
  <2>2. todo' = p \o Tail(todo)
    BY <1>5 DEF Does
  <2> HIDE DEF p
  <2> QED BY <1>1, <2>0, <2>1, <2>2, UseStep
<1>6. CASE Does(create_derived_key_cache \o <<<<"hit", k>>>>)
  <2> DEFINE p == create_derived_key_cache \o <<<<"hit", k>>>>
  <2>1. Promise(p, ram'.loaded, SeedGood', Goods', NewKek', NewSeed', TRUE)
    BY <1>2, PromiseCreateHit
  <2>2. todo' = p \o Tail(todo)
    BY <1>6 DEF Does
  <2> HIDE DEF p
  <2> QED BY <1>1, <2>1, <2>2, UseStep
<1>7. CASE Does(wkek_lazy_init \o <<<<"unseal", cache>>, <<"hit", k>>>>)
  <2> DEFINE p == UnsealProgram(k)
  <2>1. Promise(p, ram'.loaded, SeedGood', Goods', NewKek', NewSeed', TRUE)
    BY <1>2, PromiseUnseal
  <2>2. todo' = p \o Tail(todo)
    BY <1>7 DEF Does, UnsealProgram
  <2> HIDE DEF p
  <2> QED BY <1>1, <2>1, <2>2, UseStep
<1> QED BY <1>3, <1>4, <1>5, <1>6, <1>7

\* The file of the cache is deleted and created anew.
LEMMA RecreateNormal ==
    ASSUME TypeInv, FileInv, Normal, Doing("unseal"), Subject = cache,
           flash' = [flash EXCEPT ![cache] = Absent], Does(create_derived_key_cache),
           UNCHANGED <<ram, given, failed, spoiled, count>>
    PROVE  TypeInv' /\ FileInv' /\ Normal'
<1>1. LET o == Head(todo) IN
      /\ todo # <<>> /\ todo \in Seq(Ops)
      /\ CanUnlock /\ ~Has(todo, {<<"write", seed>>})
      /\ o \notin Loads /\ o # <<"open", wkek>> /\ o # <<"open", seed>> /\ o # <<"write", seed>>
      /\ o \notin Seeds /\ \A k : o # <<"derived", k>>
  BY QuietHead
<1>2. /\ cache \in Files /\ cache \notin {wkek, seed} /\ cache \notin {unlock} \cup Fingerprints
      /\ wkek \in Files /\ seed \in Files /\ keyset \in Files /\ cache # keyset
  BY FilesDiffer
<1>3. Absent \in Contents /\ Absent.key = -1
  BY Values, Sealing DEF Absent, Sealed, NoKeys, Contents
<1>4. /\ flash'[cache] = Absent /\ \A f \in Files : f # cache => flash'[f] = flash[f]
      /\ \A f \in Files : f # cache => (Readable(f)' <=> Readable(f))
      /\ (SeedGood => SeedGood') /\ Goods' = Goods /\ (NewSeed => NewSeed')
      /\ (CanUnlock => CanUnlock') /\ (RamInv => RamInv')
      /\ (fs_file_exists(wkek) => fs_file_exists(wkek)')
      /\ (Kept => Kept') /\ (Unlockable => Unlockable')
  BY <1>2, OtherFile
<1>5. TypeInv'
  BY <1>3, StoreType
<1>6. FileInv'
  BY <1>2, <1>3, <1>4 DEF FileInv
<1> DEFINE p == create_derived_key_cache
<1>7. Promise(p, ram'.loaded, SeedGood', Goods', NewKek', NewSeed', TRUE) /\ Has(p, Caches) /\ ~Has(p, Looks)
  BY PromiseCreate
<1>8. todo' = p \o Tail(todo)
  BY DEF Does
<1> HIDE DEF p
<1>9. Promise(p, ram'.loaded, SeedGood', Goods', NewKek', NewSeed', CanUnlock')
  BY <1>1, <1>4, <1>7 DEF Promise, Served
<1>10. Program'
  BY <1>1, <1>4, <1>7, <1>8, <1>9, ProgramDoes DEF Normal
<1>11. ~Readable(cache)' /\ (Readable(keyset)' <=> Readable(keyset)) /\ (Readable(seed)' <=> Readable(seed))
       /\ flash'[keyset] = flash[keyset] /\ flash'[seed] = flash[seed]
  BY <1>2, <1>3, <1>4 DEF Readable
<1>12. ~spoiled' => Safe'
  <2>1. Same => Same'
    BY <1>11 DEF Same
  <2> QED BY <1>4, <2>1 DEF Normal, Safe
<1>13. KeyCount'
  BY <1>1, <1>4, KeyFrame DEF Normal
<1>14. SeedCount'
  BY <1>1, <1>11, SeedFrame DEF Normal
<1> QED BY <1>4, <1>5, <1>6, <1>10, <1>12, <1>13, <1>14 DEF Normal

LEMMA UnsealNormal ==
    ASSUME TypeInv, FileInv, Normal, UnsealCache
    PROVE  TypeInv' /\ FileInv' /\ Normal'
<1>0. Doing("unseal") /\ Subject = cache
  BY DEF UnsealCache
<1>1. /\ todo # <<>> /\ ~Has(todo, {<<"write", seed>>}) /\ Head(todo) # <<"open", wkek>> /\ ram.loaded
  BY <1>0, QuietHead
<1>2. CASE /\ Opens(cache) /\ ram' = [ram EXCEPT !.cache = flash[cache].holds]
           /\ Does(<<>>) /\ UNCHANGED <<flash, given, failed, spoiled, count>>
  <2>1. Readable(cache) /\ cache \in Files
    BY <1>1, <1>2, OpensReadable, FilesDiffer
  <2> DEFINE h == flash[cache].holds
  <2>2. h \in [CacheKeys -> 0 .. count.seeds] /\ \A k \in CacheKeys : h[k] > 0
    BY <2>1, Values DEF FileInv, Readable
  <2>3. (~spoiled /\ count.misreads = 0) => Readable(seed) /\ h = flash[seed].holds
    BY <2>1 DEF Normal, Safe, Same
  <2>4. ram' = [ram EXCEPT !.cache = h]
    BY <1>2
  <2> HIDE DEF h
  <2>5. /\ ram'.wkek = ram.wkek /\ ram'.loaded = ram.loaded /\ ram'.init = ram.init
        /\ ram'.cache = h /\ ram'.seed = ram.seed /\ ram'.got = ram.got
    BY <2>4 DEF TypeInv, RamType
  <2>6. TypeInv'
    <3>1. RamType'
      BY <1>2, <2>2, <2>4 DEF TypeInv, RamType
    <3> QED BY <1>2, <3>1, RamChange
  <2>7. Goods' = CacheKeys
    BY <1>2, <2>2, <2>3, <2>5, FlashFrame DEF Goods
  <2>8. SeedGood => SeedGood'
    BY <1>2, <2>5, FlashFrame DEF SeedGood
  <2>9. ~spoiled => Kept'
    BY <1>2, <2>5, FlashFrame DEF Normal, Safe, Kept
  <2>10. Goods \subseteq Goods'
    BY <2>7 DEF Goods
  <2> QED BY <1>0, <1>2, <2>5, <2>6, <2>7, <2>8, <2>9, <2>10, QuietStep
<1>3. CASE Fails /\ UNCHANGED <<flash, ram, given, failed, spoiled, count>>
  BY <1>1, <1>3, FailNormal
<1>4. CASE /\ flash' = [flash EXCEPT ![cache] = Absent] /\ Does(create_derived_key_cache)
           /\ UNCHANGED <<ram, given, failed, spoiled, count>>
  BY <1>0, <1>4, RecreateNormal
<1>5. CASE Fault /\ Fails /\ UNCHANGED <<flash, ram, given, failed, spoiled>>
  BY <1>5, FailNormal
<1> QED BY <1>2, <1>3, <1>4, <1>5 DEF UnsealCache

LEMMA HitNormal ==
    ASSUME TypeInv, FileInv, Normal, CacheHit
    PROVE  TypeInv' /\ FileInv' /\ Normal'
<1> DEFINE x == Subject
<1>0. Doing("hit") /\ Does(<<>>) /\ UNCHANGED <<flash, given, failed, spoiled, count>>
  BY DEF CacheHit
<1>1. Goods = CacheKeys /\ x \in CacheKeys
  BY <1>0, QuietHead, NormalHead
<1>2. ram' = [ram EXCEPT !.init = TRUE, !.got = @ \cup {ram.cache[x]}]
  BY DEF CacheHit
<1> HIDE DEF x
<1>3. ram.cache[x] > 0 /\ ((~spoiled /\ count.misreads = 0) => Readable(seed) /\ flash[seed].holds[x] = ram.cache[x])
  BY <1>1 DEF Goods
<1>4. ram.cache[x] \in 1 .. count.seeds
  <2>1. ram.cache[x] \in 0 .. count.seeds /\ count.seeds \in Nat
    BY <1>1, Values
  <2> QED BY <2>1, <1>3, <1>1 DEF Goods
<1>5. (~spoiled /\ count.misreads = 0) => Readable(seed) /\ flash[seed].holds = OfSeed(ram.cache[x])
  BY <1>1, <1>3, OneSeed DEF Goods
<1>6. /\ ram'.wkek = ram.wkek /\ ram'.loaded = ram.loaded /\ ram'.init = TRUE
      /\ ram'.cache = ram.cache /\ ram'.seed = ram.seed /\ ram'.got = ram.got \cup {ram.cache[x]}
  BY <1>2 DEF TypeInv, RamType
<1>7. TypeInv'
  <2>1. RamType'
    BY <1>0, <1>2, <1>4 DEF TypeInv, RamType
  <2> QED BY <1>0, <2>1, RamChange
<1>8. Goods' = CacheKeys /\ Goods' = Goods
  BY <1>0, <1>1, <1>6, GoodsFrame
<1>9. SeedGood => SeedGood'
  BY <1>0, <1>6, FlashFrame DEF SeedGood
<1>10. ~spoiled => Kept'
  BY <1>0, <1>5, <1>6, FlashFrame DEF Normal, Safe, Kept
<1> QED BY <1>0, <1>6, <1>7, <1>8, <1>9, <1>10, QuietStep

LEMMA WsmNormal ==
    ASSUME TypeInv, FileInv, Normal, VerifyWsm
    PROVE  TypeInv' /\ FileInv' /\ Normal'
<1>0. Doing("wsm") /\ UNCHANGED <<flash, ram, given, failed, spoiled, count>>
  BY DEF VerifyWsm
<1>1. TypeInv'
  <2>1. RamType'
    BY <1>0 DEF TypeInv, RamType
  <2> QED BY <1>0, <2>1, RamChange
<1>2. /\ (SeedGood => SeedGood') /\ Goods' = Goods /\ (CanUnlock => CanUnlock') /\ (RamInv => RamInv')
  BY <1>0, FlagFrame
<1>3. ~spoiled' => Safe'
  BY <1>0, SafeFrame DEF Normal
<1>4. CASE Does(<<>>)
  <2>1. ~spoiled => Kept'
    BY <1>0, <1>3 DEF Safe
  <2>2. ram'.init => Goods' = CacheKeys
    BY <1>0, <1>2 DEF Normal, RamInv
  <2> QED BY <1>0, <1>1, <1>2, <1>4, <2>1, <2>2, QuietStep
<1>5. CASE todo' = <<>>
  <2>1. /\ todo # <<>> /\ ~Has(todo, {<<"write", seed>>}) /\ Head(todo) # <<"open", wkek>>
    BY <1>0, QuietHead
  <2>2. KeyCount' /\ SeedCount'
    BY <1>0, <2>1, CountsFrame
  <2>3. Promise(<<>>, ram'.loaded, SeedGood', Goods', NewKek', NewSeed', CanUnlock')
    BY PromiseEmpty
  <2>4. Program'
    BY <1>5, <2>3 DEF Program
  <2> QED BY <1>0, <1>1, <1>2, <1>3, <2>2, <2>4, FlashFrame DEF Normal
<1> QED BY <1>4, <1>5 DEF VerifyWsm

LEMMA KeysetNormal ==
    ASSUME TypeInv, FileInv, Normal, UnsealKeyset
    PROVE  TypeInv' /\ FileInv' /\ Normal'
<1>0. Doing("unseal") /\ Subject = keyset /\ UNCHANGED <<flash, given, failed, spoiled>>
  BY DEF UnsealKeyset
<1>1. /\ todo # <<>> /\ ~Has(todo, {<<"write", seed>>}) /\ Head(todo) # <<"open", wkek>> /\ ram.loaded
  BY <1>0, QuietHead
<1>2. CASE Fails /\ UNCHANGED ram /\ (UNCHANGED count \/ Fault)
  BY <1>0, <1>1, <1>2, FailNormal
<1>3. CASE /\ Opens(keyset) /\ Does(<<>>) /\ UNCHANGED count
           /\ ram' = [ram EXCEPT !.got = @ \cup {flash[keyset].holds["auth"]}]
  <2> DEFINE s == flash[keyset].holds["auth"]
  <2>1. Readable(keyset) /\ keyset \in Files /\ "auth" \in CacheKeys /\ keyset # cache
    BY <1>1, <1>3, OpensReadable, FilesDiffer, Sealing
  <2>2. s \in 1 .. count.seeds
    <3>1. flash[keyset].holds \in [CacheKeys -> 0 .. count.seeds] /\ s > 0 /\ count.seeds \in Nat
      BY <2>1, Values DEF FileInv, Readable
    <3>2. s \in 0 .. count.seeds
      BY <2>1, <3>1
    <3> QED BY <3>1, <3>2
  <2>3. (~spoiled /\ count.misreads = 0) => Readable(seed) /\ flash[seed].holds = OfSeed(s)
    <3>1. (~spoiled /\ count.misreads = 0) => Readable(seed) /\ flash[keyset].holds = flash[seed].holds
      BY <2>1 DEF Normal, Safe, Same
    <3> QED BY <3>1, OneSeed
  <2>4. ram' = [ram EXCEPT !.got = @ \cup {s}]
    BY <1>3
  <2> HIDE DEF s
  <2>5. /\ ram'.wkek = ram.wkek /\ ram'.loaded = ram.loaded /\ ram'.init = ram.init
        /\ ram'.cache = ram.cache /\ ram'.seed = ram.seed /\ ram'.got = ram.got \cup {s}
    BY <2>4 DEF TypeInv, RamType
  <2>6. TypeInv'
    <3>1. RamType'
      BY <1>0, <1>3, <2>2, <2>4 DEF TypeInv, RamType
    <3> QED BY <1>0, <1>3, <3>1, RamChange
  <2>7. Goods' = Goods /\ (ram'.init => Goods' = CacheKeys)
    BY <1>0, <1>3, <2>5, GoodsFrame DEF Normal, RamInv
  <2>8. SeedGood => SeedGood'
    BY <1>0, <2>5, FlashFrame DEF SeedGood
  <2>9. ~spoiled => Kept'
    BY <1>0, <1>3, <2>3, <2>5, FlashFrame DEF Normal, Safe, Kept
  <2> QED BY <1>0, <1>3, <2>1, <2>5, <2>6, <2>7, <2>8, <2>9, QuietStep
<1> QED BY <1>2, <1>3 DEF UnsealKeyset

LEMMA ReplyNormal ==
    ASSUME TypeInv, FileInv, Normal, Reply
    PROVE  TypeInv' /\ FileInv' /\ Normal'
<1>0. /\ Doing("reply") /\ Does(<<>>) /\ UNCHANGED <<flash, ram, failed, spoiled, count>>
      /\ given' = given \cup ram.got
  BY DEF Reply
<1>1. TypeInv'
  <2>1. FlashType' /\ RamType' /\ CountType'
    BY <1>0 DEF TypeInv, FlashType, RamType, CountType, Contents
  <2>2. HistoryType'
    BY <1>0, Values DEF TypeInv, HistoryType
  <2> QED BY <2>1, <2>2 DEF TypeInv
<1>2. /\ (SeedGood => SeedGood') /\ Goods' = Goods
  BY <1>0, FlagFrame
<1>3. ~spoiled => Kept'
  BY <1>0, FlashFrame DEF Normal, Safe, Kept
<1>4. ram'.init => Goods' = CacheKeys
  BY <1>0, <1>2 DEF Normal, RamInv
<1> QED BY <1>0, <1>1, <1>2, <1>3, <1>4, QuietStep

-----------------------------------------------------------------------------
(* Commands *)
LEMMA IdleCounts ==
    ASSUME Normal, todo = <<>>
    PROVE  /\ count.keys <= Losses \/ (count.keys = Losses + 1 /\ fs_file_exists(wkek))
           /\ count.seeds <= Losses \/ (count.seeds = Losses + 1 /\ Readable(seed))
<1>1. ~Has(todo, {<<"write", seed>>})
  BY DEF Has
<1> QED BY <1>1 DEF Normal, KeyCount, SeedCount

LEMMA CommandNormal ==
    ASSUME TypeInv, FileInv, Normal, NEW p, Command(p),
           UNCHANGED <<flash, given, failed, spoiled, count>>,
           Promise(p, ram'.loaded, SeedGood', Goods', NewKek', NewSeed', CanUnlock')
    PROVE  TypeInv' /\ FileInv' /\ Normal'
<1>1. todo = <<>> /\ todo' = p /\ ram' = [ram EXCEPT !.seed = 0, !.got = {}]
  BY DEF Command, Idle
<1>2. /\ ram'.wkek = ram.wkek /\ ram'.loaded = ram.loaded /\ ram'.init = ram.init
      /\ ram'.cache = ram.cache /\ ram'.got = {}
  BY <1>1 DEF TypeInv, RamType
<1>3. TypeInv'
  <2>1. 0 \in 0 .. count.seeds /\ RamType
    BY Numbers DEF TypeInv
  <2>2. RamType'
    BY <1>1, <2>1 DEF RamType
  <2> QED BY <2>2, RamChange
<1>4. Goods' = Goods
  BY <1>2, GoodsFrame
<1>5. Program'
  BY <1>1 DEF Program
<1>6. RamInv'
  BY <1>2, <1>4 DEF Normal, RamInv
<1>7. ~spoiled' => Safe'
  BY <1>2, FlashFrame DEF Normal, Safe, Kept
<1>8. KeyCount' /\ SeedCount'
  <2>1. Losses' = Losses
    BY DEF Losses
  <2> QED BY <1>1, <2>1, IdleCounts, FlashFrame DEF KeyCount, SeedCount
<1> QED BY <1>3, <1>5, <1>6, <1>7, <1>8, FlashFrame DEF Normal

\* A command that somebody who can unlock gives.
LEMMA GuardedNormal ==
    ASSUME TypeInv, FileInv, Normal, NEW p, Command(p), CanUnlock,
           UNCHANGED <<flash, given, failed, spoiled, count>>,
           Promise(p, ram'.loaded, SeedGood', Goods', NewKek', NewSeed', TRUE)
    PROVE  TypeInv' /\ FileInv' /\ Normal'
<1>1. CanUnlock'
  BY FlashFrame
<1>2. Promise(p, ram'.loaded, SeedGood', Goods', NewKek', NewSeed', CanUnlock')
  BY <1>1 DEF Promise, Served
<1> QED BY <1>2, CommandNormal

LEMMA CommandsNormal ==
    ASSUME TypeInv, FileInv, Normal,
           \/ handle_derive \/ key_manager_derive_and_sign \/ BuildDescriptor
           \/ key_manager_task_port_handle_get_address \/ handle_seal_csek
    PROVE  TypeInv' /\ FileInv' /\ Normal'
<1>1. CASE handle_derive
  <2> DEFINE p == derive_key_priv_from_seed("caller") \o <<<<"reply", seed>>>>
  <2>1. Promise(p, ram'.loaded, SeedGood', Goods', NewKek', NewSeed', TRUE)
    BY DeriveCommand
  <2>2. Command(p) /\ CanUnlock /\ UNCHANGED <<flash, given, failed, spoiled, count>>
    BY <1>1 DEF handle_derive
  <2> HIDE DEF p
  <2> QED BY <2>1, <2>2, GuardedNormal
<1>2. CASE key_manager_derive_and_sign
  <2>1. PICK k \in CacheKeys : Command(wallet_derive_key_priv_using_cache(k) \o <<<<"reply", seed>>>>)
    BY <1>2 DEF key_manager_derive_and_sign
  <2> DEFINE p == wallet_derive_key_priv_using_cache(k) \o <<<<"reply", seed>>>>
  <2>2. Promise(p, ram'.loaded, SeedGood', Goods', NewKek', NewSeed', TRUE)
    BY SignCommand
  <2>3. Command(p) /\ CanUnlock /\ UNCHANGED <<flash, given, failed, spoiled, count>>
    BY <1>2, <2>1 DEF key_manager_derive_and_sign
  <2> HIDE DEF p
  <2> QED BY <2>2, <2>3, GuardedNormal
<1>3. CASE BuildDescriptor
  <2> DEFINE p == key_manager_task_port_handle_verify_keys_and_build_descriptor
  <2>1. Promise(p, ram'.loaded, SeedGood', Goods', NewKek', NewSeed', TRUE)
    BY BuildCommand
  <2>2. Command(p) /\ CanUnlock /\ UNCHANGED <<flash, given, failed, spoiled, count>>
    BY <1>3 DEF BuildDescriptor
  <2> HIDE DEF p
  <2> QED BY <2>1, <2>2, GuardedNormal
<1>4. CASE key_manager_task_port_handle_get_address
  <2> DEFINE p == AddressProgram
  <2>1. Promise(p, ram'.loaded, SeedGood', Goods', NewKek', NewSeed', TRUE)
    BY AddressCommand
  <2>2. Command(p) /\ CanUnlock /\ UNCHANGED <<flash, given, failed, spoiled, count>>
    BY <1>4 DEF key_manager_task_port_handle_get_address, AddressProgram
  <2> HIDE DEF p
  <2> QED BY <2>1, <2>2, GuardedNormal
<1>5. CASE handle_seal_csek
  <2> DEFINE p == wkek_lazy_init
  <2>1. Promise(p, ram'.loaded, SeedGood', Goods', NewKek', NewSeed', CanUnlock')
    BY SealCommand
  <2>2. Command(p) /\ UNCHANGED <<flash, given, failed, spoiled, count>>
    BY <1>5 DEF handle_seal_csek
  <2> HIDE DEF p
  <2> QED BY <2>1, <2>2, CommandNormal
<1> QED BY <1>1, <1>2, <1>3, <1>4, <1>5

LEMMA ClearNormal ==
    ASSUME TypeInv, FileInv, Normal, wallet_clear_derived_key_cache
    PROVE  TypeInv' /\ FileInv' /\ Normal'
<1>1. /\ todo = <<>> /\ ram' = [ram EXCEPT !.cache = NoKeys, !.init = FALSE]
      /\ UNCHANGED <<flash, todo, given, failed, spoiled, count>>
  BY DEF wallet_clear_derived_key_cache, Idle
<1>2. /\ ram'.wkek = ram.wkek /\ ram'.loaded = ram.loaded /\ ram'.init = FALSE
      /\ ram'.got = ram.got
  BY <1>1 DEF TypeInv, RamType
<1>3. TypeInv'
  <2>1. NoKeys \in [CacheKeys -> 0 .. count.seeds] /\ RamType
    BY Numbers DEF TypeInv, NoKeys
  <2>2. RamType'
    BY <1>1, <2>1 DEF RamType
  <2> QED BY <1>1, <2>2, RamChange
<1>4. Promise(<<>>, ram'.loaded, SeedGood', Goods', NewKek', NewSeed', CanUnlock')
  BY PromiseEmpty
<1>5. Program'
  BY <1>1, <1>4 DEF Program
<1>6. RamInv'
  BY <1>1, <1>2 DEF Normal, RamInv
<1>7. ~spoiled' => Safe'
  BY <1>1, <1>2, FlashFrame DEF Normal, Safe, Kept
<1>8. KeyCount' /\ SeedCount'
  BY <1>1, CountsFrame
<1> QED BY <1>1, <1>3, <1>5, <1>6, <1>7, <1>8, FlashFrame DEF Normal

LEMMA SetUpNormal ==
    ASSUME TypeInv, FileInv, Normal, SetUp
    PROVE  TypeInv' /\ FileInv' /\ Normal'
<1>1. PICK x \in {unlock} \cup Fingerprints : flash' = [flash EXCEPT ![x] = Sealed(0, NoKeys)]
  BY DEF SetUp
<1>2. todo = <<>> /\ UNCHANGED <<ram, todo, given, failed, spoiled, count>>
  BY DEF SetUp, Idle
<1>3. x \in Files /\ x \notin {wkek, seed, cache, keyset} /\ {wkek, seed, cache, keyset} \subseteq Files
  BY FilesDiffer
<1>4. flash'[x] = Sealed(0, NoKeys) /\ \A f \in {wkek, seed, cache, keyset} : flash'[f] = flash[f]
  BY <1>1, <1>3 DEF TypeInv, FlashType
<1>5. CanUnlock'
  <2>1. flash'[x] # Absent
    BY <1>4, Sealing
  <2> QED BY <2>1 DEF CanUnlock, fs_file_exists
<1>6. /\ flash'[wkek] = flash[wkek] /\ flash'[seed] = flash[seed]
      /\ flash'[cache] = flash[cache] /\ flash'[keyset] = flash[keyset]
      /\ (Readable(seed)' <=> Readable(seed)) /\ (Readable(cache)' <=> Readable(cache))
      /\ (Readable(keyset)' <=> Readable(keyset)) /\ (fs_file_exists(wkek)' <=> fs_file_exists(wkek))
  <2>1. /\ flash'[wkek] = flash[wkek] /\ flash'[seed] = flash[seed]
        /\ flash'[cache] = flash[cache] /\ flash'[keyset] = flash[keyset]
    BY <1>4
  <2> QED BY <2>1 DEF Readable, fs_file_exists
<1>7. TypeInv'
  <2>1. Sealed(0, NoKeys) \in Contents
    BY Values DEF Sealed, NoKeys, Contents
  <2> QED BY <1>1, <1>2, <2>1, StoreType
<1>8. FileInv'
  BY <1>4 DEF FileInv
<1>9. Promise(<<>>, ram'.loaded, SeedGood', Goods', NewKek', NewSeed', CanUnlock')
  BY PromiseEmpty
<1>10. Program'
  BY <1>2, <1>9 DEF Program
<1>11. RamInv'
  <2>1. Goods' = Goods
    BY <1>2, <1>6 DEF Goods
  <2> QED BY <1>2, <1>4, <2>1 DEF Normal, RamInv
<1>12. ~spoiled' => Safe'
  <2> SUFFICES ASSUME ~spoiled, Safe PROVE Safe'
    BY <1>2 DEF Normal
  <2>1. Kept'
    BY <1>2, <1>6 DEF Safe, Kept
  <2>2. Same'
    BY <1>2, <1>6 DEF Safe, Same
  <2> QED BY <1>5, <2>1, <2>2 DEF Safe, Unlockable
<1>13. KeyCount' /\ SeedCount'
  <2>1. Losses' = Losses
    BY <1>2 DEF Losses
  <2> QED BY <1>2, <1>6, <2>1, IdleCounts DEF KeyCount, SeedCount
<1> QED BY <1>2, <1>7, <1>8, <1>10, <1>11, <1>12, <1>13 DEF Normal

-----------------------------------------------------------------------------
(* A reset *)

\* RAM is that of a reset, no program runs, and the files are as they were.
LEMMA ResetNormal ==
    ASSUME TypeInv, FileInv, UNCHANGED <<flash, given>>, ram' = Booted, todo' = <<>>, failed' = 0,
           CountType', HistoryType', count'.keys = count.keys, count'.seeds = count.seeds,
           count.keys <= Losses', count.seeds <= Losses', ~spoiled' => Safe'
    PROVE  TypeInv' /\ FileInv' /\ Normal'
<1>1. ram'.loaded = FALSE /\ ram'.init = FALSE
  BY DEF Booted
<1>2. RamType'
  <2>1. /\ 0 \in 0 .. count'.keys /\ 0 \in 0 .. count'.seeds
        /\ NoKeys \in [CacheKeys -> 0 .. count'.seeds]
    BY Values DEF NoKeys
  <2> QED BY <2>1 DEF RamType, Booted
<1>3. FlashType'
  BY DEF TypeInv, FlashType, Contents
<1>4. Promise(<<>>, ram'.loaded, SeedGood', Goods', NewKek', NewSeed', CanUnlock')
  BY PromiseEmpty
<1>5. Program'
  BY <1>4 DEF Program
<1>6. RamInv'
  BY <1>1 DEF RamInv
<1>7. KeyCount' /\ SeedCount'
  BY DEF KeyCount, SeedCount
<1> QED BY <1>2, <1>3, <1>5, <1>6, <1>7, FlashFrame DEF TypeInv, Normal

\* Nothing was read from the KEK, or all keys that were given are kept.
LEMMA PowerNormal ==
    ASSUME TypeInv, FileInv, Normal \/ Wipe, PowerLoss
    PROVE  TypeInv' /\ FileInv' /\ Normal'
<1>1. /\ count.crashes < MaxCrashes /\ count' = [count EXCEPT !.crashes = @ + 1]
      /\ ram' = Booted /\ todo' = <<>> /\ spoiled' = (spoiled \/ failed > 0) /\ failed' = 0
      /\ UNCHANGED <<flash, given>>
  BY DEF PowerLoss
<1>2. /\ count'.keys = count.keys /\ count'.seeds = count.seeds /\ count'.wipes = count.wipes
      /\ count'.faults = count.faults /\ count'.misreads = count.misreads /\ count'.crashes = count.crashes + 1
  BY <1>1 DEF TypeInv, CountType
<1>3. CountType'
  <2>1. count.crashes + 1 \in 0 .. MaxCrashes
    BY <1>1, Numbers DEF TypeInv
  <2> QED BY <1>1, <2>1 DEF TypeInv, CountType
<1>4. HistoryType'
  <2>1. 0 \in 0 .. count.faults
    BY Numbers DEF TypeInv
  <2> QED BY <1>1, <1>2, <2>1 DEF TypeInv, HistoryType
<1>5. Losses' = Losses + 1 /\ Losses \in Nat
  BY <1>2, Numbers DEF TypeInv, Losses
<1>6. count.keys <= Losses' /\ count.seeds <= Losses'
  <2>1. count.keys <= Losses + 1 /\ count.seeds <= Losses + 1
    <3>1. CASE Normal
      BY <1>5, <3>1, Numbers DEF TypeInv, Normal, KeyCount, SeedCount
    <3>2. CASE Wipe
      BY <1>5, <3>2, Numbers DEF TypeInv, Wipe
    <3> QED BY <3>1, <3>2
  <2> QED BY <1>5, <2>1
<1>7. ~spoiled' => Safe'
  <2> SUFFICES ASSUME ~spoiled' PROVE Safe'
    OBVIOUS
  <2>1. ~spoiled /\ failed = 0
    <3>1. ~spoiled /\ ~(failed > 0)
      BY <1>1
    <3>2. failed \in Nat
      BY Numbers DEF TypeInv, HistoryType
    <3> QED BY <3>1, <3>2
  <2>2. Safe
    BY <2>1 DEF Normal, Wipe
  <2>3. ram'.got = {}
    BY <1>1 DEF Booted
  <2> QED BY <1>1, <2>2, <2>3, FlashFrame DEF Safe, Kept
<1> QED BY <1>1, <1>2, <1>3, <1>4, <1>6, <1>7, ResetNormal

-----------------------------------------------------------------------------
(* A pass of the wipe *)
LEMMA RemovalsShape ==
    ASSUME NEW F, NEW fs \in Seq(F), NEW S, \A f \in F : <<"remove", f>> \in S
    PROVE  /\ Removals(fs) \in Seq(S) /\ Len(Removals(fs)) = Len(fs)
           /\ \A i \in 1 .. Len(fs) : Removals(fs)[i] = <<"remove", fs[i]>>
<1> DEFINE r == Removals(fs)
<1> DEFINE n == Len(fs)
<1>1. n \in Nat /\ DOMAIN fs = 1 .. n /\ \A i \in 1 .. n : fs[i] \in F
  OBVIOUS
<1>2. r = [i \in 1 .. n |-> <<"remove", fs[i]>>]
  BY <1>1 DEF Removals
<1> HIDE DEF r, n
<1>3. r \in [1 .. n -> S] /\ \A i \in 1 .. n : r[i] = <<"remove", fs[i]>>
  BY <1>1, <1>2
<1>4. r \in Seq(S) /\ Len(r) = n
  BY <1>1, <1>3
<1> QED BY <1>3, <1>4 DEF r, n

LEMMA PassFiles ==
    /\ PassLen \in Nat /\ PassLen >= 6
    /\ PassFile(1) = pubkey /\ PassFile(2) = cache /\ PassFile(3) = keyset
    /\ PassFile(4) = seed /\ PassFile(5) = wkek /\ PassFile(6) = unlock
    /\ \A i \in 1 .. TemplateCount : PassFile(6 + i) = FileOf(i - 1) /\ 6 + i \in 1 .. PassLen
    /\ \A i \in 1 .. PassLen : PassFile(i) \in Files
    /\ \A i \in 1 .. PassLen : i > 3 => PassFile(i) \notin {pubkey, cache, keyset}
    /\ \A f \in {seed, wkek, unlock} \cup Fingerprints : \E i \in 1 .. PassLen : f = PassFile(i)
<1>1. PassLen \in Nat /\ PassLen >= 6 /\ PassLen = 6 + TemplateCount /\ TemplateCount \in Nat
  BY DEF PassLen
<1>2. /\ PassFile(1) = pubkey /\ PassFile(2) = cache /\ PassFile(3) = keyset
      /\ PassFile(4) = seed /\ PassFile(5) = wkek /\ PassFile(6) = unlock
  BY DEF PassFile
<1>3. \A i \in 1 .. TemplateCount : PassFile(6 + i) = FileOf(i - 1) /\ 6 + i \in 1 .. PassLen
  <2> TAKE i \in 1 .. TemplateCount
  <2>1. 6 + i \in 1 .. PassLen /\ 6 + i > 6 /\ (6 + i) - 7 = i - 1
    BY <1>1
  <2>2. PassFile(6 + i) = FileOf((6 + i) - 7)
    BY <2>1 DEF PassFile
  <2> QED BY <2>1, <2>2
<1>4. \A i \in 1 .. PassLen : i > 6 => i - 6 \in 1 .. TemplateCount /\ i = 6 + (i - 6)
  BY <1>1
<1>5. \A i \in 1 .. TemplateCount : FileOf(i - 1) \in Fingerprints
  <2> TAKE i \in 1 .. TemplateCount
  <2>1. i - 1 \in Templates
    BY <1>1 DEF Templates
  <2> QED BY <2>1 DEF Fingerprints
<1>6. \A i \in 1 .. PassLen : i > 6 => PassFile(i) \in Fingerprints
  BY <1>3, <1>4, <1>5
<1>7. \A i \in 1 .. PassLen : i \in {1, 2, 3, 4, 5, 6} \/ i > 6
  BY <1>1
<1>8. \A i \in 1 .. PassLen : PassFile(i) \in Files
  BY <1>2, <1>6, <1>7, FilesDiffer
<1>9. \A i \in 1 .. PassLen : i > 3 => PassFile(i) \notin {pubkey, cache, keyset}
  <2> TAKE i \in 1 .. PassLen
  <2>1. i > 3 => i \in {4, 5, 6} \/ i > 6
    BY <1>7
  <2> QED BY <1>2, <1>6, <2>1, FilesDiffer
<1>10. ASSUME NEW f \in Fingerprints PROVE \E i \in 1 .. PassLen : f = PassFile(i)
  <2>1. PICK t \in Templates : f = FileOf(t)
    BY DEF Fingerprints
  <2>2. t + 1 \in 1 .. TemplateCount /\ (t + 1) - 1 = t
    BY <1>1 DEF Templates
  <2>3. PassFile(6 + (t + 1)) = f /\ 6 + (t + 1) \in 1 .. PassLen
    BY <1>3, <2>1, <2>2
  <2> QED BY <2>3
<1>11. 4 \in 1 .. PassLen /\ 5 \in 1 .. PassLen /\ 6 \in 1 .. PassLen
  BY <1>1
<1>12. \A f \in {seed, wkek, unlock} \cup Fingerprints : \E i \in 1 .. PassLen : f = PassFile(i)
  BY <1>2, <1>10, <1>11
<1> QED BY <1>1, <1>2, <1>3, <1>8, <1>9, <1>12

LEMMA WipeParts ==
    ASSUME NEW S, \A f \in Files : <<"remove", f>> \in S
    PROVE  /\ WipePass \in Seq(S) /\ Len(WipePass) = PassLen
           /\ \A i \in 1 .. PassLen : WipePass[i] = <<"remove", PassFile(i)>>
<1> DEFINE a == Removals(<<pubkey>>)
<1> DEFINE b == wallet_remove_files
<1> DEFINE c == Removals(<<unlock>>)
<1> DEFINE d == bio_wipe_state
<1>0. {pubkey, cache, keyset, seed, wkek, unlock} \subseteq Files
  BY FilesDiffer
<1>1. a \in Seq(S) /\ Len(a) = 1 /\ a[1] = <<"remove", pubkey>>
  <2> DEFINE fs == <<pubkey>>
  <2>1. fs \in Seq(Files) /\ Len(fs) = 1 /\ fs[1] = pubkey
    BY <1>0
  <2>2. a = Removals(fs)
    OBVIOUS
  <2> HIDE DEF fs, a
  <2>3. a \in Seq(S) /\ Len(a) = Len(fs) /\ \A i \in 1 .. Len(fs) : a[i] = <<"remove", fs[i]>>
    BY <2>1, <2>2, RemovalsShape
  <2>4. 1 \in 1 .. Len(fs)
    BY <2>1
  <2> QED BY <2>1, <2>3, <2>4
<1>2. /\ b \in Seq(S) /\ Len(b) = 4 /\ b[1] = <<"remove", cache>> /\ b[2] = <<"remove", keyset>>
      /\ b[3] = <<"remove", seed>> /\ b[4] = <<"remove", wkek>>
  <2> DEFINE fs == <<cache, keyset, seed, wkek>>
  <2>1. fs \in Seq(Files) /\ Len(fs) = 4 /\ fs[1] = cache /\ fs[2] = keyset /\ fs[3] = seed /\ fs[4] = wkek
    BY <1>0
  <2>2. b = Removals(fs)
    BY DEF wallet_remove_files
  <2> HIDE DEF fs, b
  <2>3. b \in Seq(S) /\ Len(b) = Len(fs) /\ \A i \in 1 .. Len(fs) : b[i] = <<"remove", fs[i]>>
    BY <2>1, <2>2, RemovalsShape
  <2>4. 1 \in 1 .. Len(fs) /\ 2 \in 1 .. Len(fs) /\ 3 \in 1 .. Len(fs) /\ 4 \in 1 .. Len(fs)
    BY <2>1
  <2> QED BY <2>1, <2>3, <2>4
<1>3. c \in Seq(S) /\ Len(c) = 1 /\ c[1] = <<"remove", unlock>>
  <2> DEFINE fs == <<unlock>>
  <2>1. fs \in Seq(Files) /\ Len(fs) = 1 /\ fs[1] = unlock
    BY <1>0
  <2>2. c = Removals(fs)
    OBVIOUS
  <2> HIDE DEF fs, c
  <2>3. c \in Seq(S) /\ Len(c) = Len(fs) /\ \A i \in 1 .. Len(fs) : c[i] = <<"remove", fs[i]>>
    BY <2>1, <2>2, RemovalsShape
  <2>4. 1 \in 1 .. Len(fs)
    BY <2>1
  <2> QED BY <2>1, <2>3, <2>4
<1>4. /\ d \in Seq(S) /\ Len(d) = TemplateCount
      /\ \A i \in 1 .. TemplateCount : d[i] = <<"remove", PassFile(6 + i)>>
  <2> DEFINE fs == [i \in 1 .. TemplateCount |-> FileOf(i - 1)]
  <2>1. \A i \in 1 .. TemplateCount : FileOf(i - 1) = PassFile(6 + i) /\ FileOf(i - 1) \in Files
    BY PassFiles
  <2>2. fs \in [1 .. TemplateCount -> Files] /\ \A i \in 1 .. TemplateCount : fs[i] = PassFile(6 + i)
    BY <2>1
  <2>3. d = Removals(fs) /\ TemplateCount \in Nat
    BY DEF bio_wipe_state
  <2> HIDE DEF fs, d
  <2>4. fs \in Seq(Files) /\ Len(fs) = TemplateCount
    BY <2>2, <2>3
  <2>5. d \in Seq(S) /\ Len(d) = Len(fs) /\ \A i \in 1 .. Len(fs) : d[i] = <<"remove", fs[i]>>
    BY <2>3, <2>4, RemovalsShape
  <2> QED BY <2>2, <2>4, <2>5
<1>5. WipePass = ((a \o b) \o c) \o d
  BY DEF WipePass
<1> HIDE DEF a, b, c, d
<1> DEFINE ab == a \o b
<1> DEFINE abc == ab \o c
<1> DEFINE q == abc \o d
<1>6. /\ ab \in Seq(S) /\ Len(ab) = Len(a) + Len(b)
      /\ \A i \in 1 .. Len(a) : ab[i] = a[i]
      /\ \A i \in 1 .. Len(b) : ab[Len(a) + i] = b[i]
  <2>1. a \in Seq(S) /\ b \in Seq(S)
    BY <1>1, <1>2
  <2> QED BY <2>1, JoinShape
<1>7. q = WipePass
  BY <1>5
<1> HIDE DEF ab
<1>8. /\ ab \in Seq(S) /\ Len(ab) = 5 /\ ab[1] = a[1] /\ ab[2] = b[1] /\ ab[3] = b[2]
      /\ ab[4] = b[3] /\ ab[5] = b[4]
  <2>1. 1 \in 1 .. Len(a) /\ 1 \in 1 .. Len(b) /\ 2 \in 1 .. Len(b) /\ 3 \in 1 .. Len(b) /\ 4 \in 1 .. Len(b)
    BY <1>1, <1>2
  <2>2. Len(a) = 1 /\ Len(b) = 4
    BY <1>1, <1>2
  <2>3. /\ ab[1] = a[1] /\ ab[1 + 1] = b[1] /\ ab[1 + 2] = b[2]
        /\ ab[1 + 3] = b[3] /\ ab[1 + 4] = b[4]
    BY <1>6, <2>1, <2>2
  <2> QED BY <1>6, <2>2, <2>3
<1>9. /\ abc \in Seq(S) /\ Len(abc) = Len(ab) + Len(c)
      /\ \A i \in 1 .. Len(ab) : abc[i] = ab[i]
      /\ \A i \in 1 .. Len(c) : abc[Len(ab) + i] = c[i]
  <2>1. ab \in Seq(S) /\ c \in Seq(S)
    BY <1>3, <1>8
  <2> QED BY <2>1, JoinShape
<1> HIDE DEF abc
<1>10. /\ abc \in Seq(S) /\ Len(abc) = 6 /\ \A i \in 1 .. 6 : abc[i] = <<"remove", PassFile(i)>>
  <2>1. Len(ab) = 5 /\ Len(c) = 1 /\ 1 \in 1 .. Len(c)
    BY <1>3, <1>8
  <2>2. /\ abc[1] = ab[1] /\ abc[2] = ab[2] /\ abc[3] = ab[3] /\ abc[4] = ab[4] /\ abc[5] = ab[5]
    BY <1>9, <2>1
  <2>3. abc[5 + 1] = c[1]
    BY <1>9, <2>1
  <2>4. abc[6] = c[1]
    BY <2>3
  <2>5. /\ abc[1] = <<"remove", PassFile(1)>> /\ abc[2] = <<"remove", PassFile(2)>>
        /\ abc[3] = <<"remove", PassFile(3)>> /\ abc[4] = <<"remove", PassFile(4)>>
        /\ abc[5] = <<"remove", PassFile(5)>> /\ abc[6] = <<"remove", PassFile(6)>>
    BY <1>1, <1>2, <1>3, <1>8, <2>2, <2>4, PassFiles
  <2>6. \A i \in 1 .. 6 : i \in {1, 2, 3, 4, 5, 6}
    OBVIOUS
  <2>7. \A i \in 1 .. 6 : abc[i] = <<"remove", PassFile(i)>>
    BY <2>5, <2>6
  <2> QED BY <1>9, <2>1, <2>7
<1>11. /\ q \in Seq(S) /\ Len(q) = Len(abc) + Len(d)
       /\ \A i \in 1 .. Len(abc) : q[i] = abc[i]
       /\ \A i \in 1 .. Len(d) : q[Len(abc) + i] = d[i]
  <2>1. abc \in Seq(S) /\ d \in Seq(S)
    BY <1>4, <1>10
  <2> QED BY <2>1, JoinShape
<1> HIDE DEF q
<1>12. /\ Len(q) = PassLen /\ (\A i \in 1 .. 6 : q[i] = abc[i])
       /\ \A i \in 1 .. TemplateCount : q[6 + i] = <<"remove", PassFile(6 + i)>>
  BY <1>4, <1>10, <1>11 DEF PassLen
<1>13. \A i \in 1 .. PassLen : q[i] = <<"remove", PassFile(i)>>
  <2> TAKE i \in 1 .. PassLen
  <2>1. CASE i \in 1 .. 6
    BY <1>10, <1>12, <2>1
  <2>2. CASE i \notin 1 .. 6
    <3>1. i - 6 \in 1 .. TemplateCount /\ 6 + (i - 6) = i
      BY <2>2 DEF PassLen
    <3>2. q[6 + (i - 6)] = <<"remove", PassFile(6 + (i - 6))>>
      BY <1>12, <3>1
    <3> QED BY <3>1, <3>2
  <2> QED BY <2>1, <2>2
<1> QED BY <1>7, <1>11, <1>12, <1>13

LEMMA WipeShape ==
    ASSUME NEW k
    PROVE  WipePass \o <<<<"verify", k>>>> = Rest(k, 0)
<1> DEFINE S == {<<"remove", f>> : f \in Files} \cup {<<"verify", k>>}
<1> DEFINE e == <<<<"verify", k>>>>
<1> DEFINE q == WipePass \o e
<1> DEFINE r == Rest(k, 0)
<1>1. \A f \in Files : <<"remove", f>> \in S
  OBVIOUS
<1>2. e \in Seq(S) /\ Len(e) = 1 /\ e[1] = <<"verify", k>> /\ <<"verify", k>> \in S
  OBVIOUS
<1> HIDE DEF S, e
<1>3. /\ WipePass \in Seq(S) /\ Len(WipePass) = PassLen
      /\ \A i \in 1 .. PassLen : WipePass[i] = <<"remove", PassFile(i)>>
  BY <1>1, WipeParts
<1>4. /\ q \in Seq(S) /\ Len(q) = Len(WipePass) + Len(e)
      /\ \A i \in 1 .. Len(WipePass) : q[i] = WipePass[i]
      /\ \A i \in 1 .. Len(e) : q[Len(WipePass) + i] = e[i]
  <2>1. WipePass \in Seq(S) /\ e \in Seq(S)
    BY <1>2, <1>3
  <2> QED BY <2>1, JoinShape
<1> HIDE DEF q
<1>5. PassLen \in Nat
  BY PassFiles
<1>6. /\ Len(q) = PassLen + 1 /\ (\A i \in 1 .. PassLen : q[i] = <<"remove", PassFile(i)>>)
      /\ q[PassLen + 1] = <<"verify", k>>
  BY <1>2, <1>3, <1>4, <1>5
<1>7. r = [i \in 1 .. PassLen + 1 |-> IF i <= PassLen THEN <<"remove", PassFile(i)>> ELSE <<"verify", k>>]
  <2>1. PassLen + 1 - 0 = PassLen + 1 /\ \A i \in 1 .. PassLen + 1 : i + 0 = i
    BY <1>5
  <2> QED BY <2>1 DEF Rest
<1> HIDE DEF r
<1>8. \A i \in 1 .. PassLen + 1 : r[i] = q[i]
  <2> TAKE i \in 1 .. PassLen + 1
  <2>1. i \in 1 .. PassLen \/ i = PassLen + 1
    BY <1>5
  <2>2. r[i] = IF i <= PassLen THEN <<"remove", PassFile(i)>> ELSE <<"verify", k>>
    BY <1>7
  <2> QED BY <1>5, <1>6, <2>1, <2>2
<1>9. r \in Seq(S) /\ Len(r) = PassLen + 1
  <2>1. \A i \in 1 .. PassLen + 1 : q[i] \in S
    BY <1>4, <1>6
  <2>2. DOMAIN r = 1 .. PassLen + 1 /\ r = [i \in DOMAIN r |-> r[i]]
    BY <1>7
  <2>3. r \in [1 .. PassLen + 1 -> S]
    BY <1>8, <2>1, <2>2
  <2> QED BY <1>5, <2>3
<1>10. q = r
  BY <1>4, <1>6, <1>8, <1>9, SeqEqual
<1> QED BY <1>10 DEF q, r, e

-----------------------------------------------------------------------------
(* The wipe *)

LEMMA RestJoin ==
    ASSUME NEW k, NEW n \in 0 .. PassLen
    PROVE  <<>> \o Rest(k, n) = Rest(k, n) /\ Rest(k, n) \o <<>> = Rest(k, n)
<1> DEFINE m == PassLen + 1 - n
<1> DEFINE r == Rest(k, n)
<1> DEFINE S == {r[i] : i \in 1 .. m}
<1>1. m \in Nat
  BY PassFiles
<1>2. DOMAIN r = 1 .. m /\ r = [i \in DOMAIN r |-> r[i]]
  BY DEF Rest
<1> HIDE DEF m, r
<1>3. r \in [1 .. m -> S]
  BY <1>2
<1> HIDE DEF S
<1>4. r \in Seq(S)
  BY <1>1, <1>3
<1>5. <<>> \o r = r /\ r \o <<>> = r
  BY <1>4
<1> QED BY <1>5 DEF r

\* Keys that were given are keys of a seed that is there.
LEMMA GivenGone ==
    ASSUME Kept, count.misreads = 0, flash[seed] = Absent
    PROVE  given = {} /\ ram.got = {}
<1>1. ~Readable(seed)
  BY Sealing DEF Readable
<1> QED BY <1>1 DEF Kept

LEMMA WipeBegins ==
    ASSUME TypeInv, FileInv, Normal, onboarding_wipe_state
    PROVE  TypeInv' /\ FileInv' /\ Wipe'
<1>1. /\ todo = <<>> /\ todo' = WipePass \o <<<<"verify", 0>>>>
      /\ ram' = [ram EXCEPT !.seed = 0, !.got = {}] /\ count.wipes < MaxWipes
      /\ count' = [count EXCEPT !.wipes = @ + 1] /\ UNCHANGED <<flash, given, failed, spoiled>>
  BY DEF onboarding_wipe_state, Command, Idle
<1>2. /\ count'.keys = count.keys /\ count'.seeds = count.seeds /\ count'.wipes = count.wipes + 1
      /\ count'.faults = count.faults /\ count'.misreads = count.misreads /\ count'.crashes = count.crashes
  BY <1>1 DEF TypeInv, CountType
<1>3. CountType'
  <2>1. count.wipes + 1 \in 0 .. MaxWipes
    BY SMTT(60), <1>1, Numbers DEF TypeInv
  <2> QED BY <1>1, <2>1 DEF TypeInv, CountType
<1>4. /\ ram'.wkek = ram.wkek /\ ram'.loaded = ram.loaded /\ ram'.init = ram.init
      /\ ram'.cache = ram.cache /\ ram'.got = {}
  BY <1>1 DEF TypeInv, RamType
<1>5. TypeInv'
  <2>1. 0 \in 0 .. count.seeds /\ RamType
    BY Numbers DEF TypeInv
  <2>2. RamType'
    BY <1>1, <1>2, <2>1 DEF RamType
  <2>3. FlashType' /\ HistoryType'
    BY <1>1, <1>2 DEF TypeInv, FlashType, HistoryType, Contents
  <2> QED BY <1>3, <2>2, <2>3 DEF TypeInv
<1>6. failed' = 0
  BY <1>1 DEF Normal
<1>7. Removing'
  <2>1. todo' = Rest(0, 0)
    BY <1>1, WipeShape
  <2>2. 0 \in 0 .. 3 /\ 0 \in 0 .. PassLen /\ (~\E i \in 1 .. 0 : flash'[PassFile(i)] # Absent)
    BY PassFiles
  <2>3. failed' >= 0
    BY <1>6
  <2> QED BY <2>1, <2>2, <2>3 DEF Removing
<1>8. ram'.loaded => ram'.wkek > 0
  BY <1>4 DEF Normal, RamInv
<1>9. ram'.init => \A k \in CacheKeys : ram'.cache[k] > 0
  BY <1>4 DEF Normal, RamInv, Goods
<1>10. ~spoiled => Safe'
  BY <1>1, <1>4, FlashFrame DEF Normal, Safe, Kept
<1>11. ~spoiled /\ count.misreads = 0 /\ flash[seed] = Absent => given = {}
  BY GivenGone DEF Normal, Safe
<1>12. count'.keys <= Losses' /\ count'.seeds <= Losses'
  <2>1. Losses' = Losses + 1 /\ Losses \in Nat
    BY <1>2, Numbers DEF TypeInv, Losses
  <2>2. count.keys <= Losses + 1 /\ count.seeds <= Losses + 1
    BY <2>1, Numbers DEF TypeInv, Normal, KeyCount, SeedCount
  <2> QED BY <1>2, <2>1, <2>2
<1>13. Wipe'
  BY <1>1, <1>4, <1>7, <1>8, <1>9, <1>10, <1>11, <1>12 DEF Wipe
<1> QED BY <1>1, <1>5, <1>13, FlashFrame

\* The pass, and how far it is.
LEMMA PassHead ==
    ASSUME Wipe, NEW w, Doing(w), w \in {"remove", "verify"}
    PROVE  \E k \in 0 .. 3, n \in 0 .. PassLen :
             /\ todo = Rest(k, n) /\ failed >= k
             /\ (\E i \in 1 .. n : flash[PassFile(i)] # Absent) => failed >= k + 1
             /\ w = "remove" => /\ n < PassLen /\ Subject = PassFile(n + 1)
                                /\ Tail(todo) = Rest(k, n + 1)
             /\ w = "verify" => n = PassLen /\ Subject = k /\ Tail(todo) = <<>>
<1>1. ~Wiped
  BY DEF Wiped, Doing
<1>2. PICK k \in 0 .. 3, n \in 0 .. PassLen :
             /\ todo = Rest(k, n) /\ failed >= k
             /\ (\E i \in 1 .. n : flash[PassFile(i)] # Absent) => failed >= k + 1
  BY <1>1 DEF Wipe, Removing
<1>3. /\ Head(todo) = (IF n < PassLen THEN <<"remove", PassFile(n + 1)>> ELSE <<"verify", k>>)
      /\ n < PassLen => Tail(todo) = Rest(k, n + 1)
      /\ n = PassLen => Tail(todo) = <<>>
      /\ PassLen \in Nat
  BY <1>2, RestShape
<1>4. n < PassLen \/ n = PassLen
  BY <1>3
<1>5. n < PassLen => w = "remove" /\ Subject = PassFile(n + 1)
  BY <1>3 DEF Doing, Subject
<1>6. n = PassLen => w = "verify" /\ Subject = k
  BY <1>3 DEF Doing, Subject
<1>7. w = "remove" => n < PassLen
  BY <1>4, <1>6
<1>8. w = "verify" => n = PassLen
  BY <1>4, <1>5
<1> QED BY <1>2, <1>3, <1>5, <1>6, <1>7, <1>8

\* A file goes away, and the seed only after the keys that were derived from it.
LEMMA RemoveSafe ==
    ASSUME TypeInv, Safe, ram.got = {}, count'.misreads = count.misreads,
           count.misreads = 0 /\ flash[seed] = Absent => given = {},
           NEW n \in 0 .. PassLen, n < PassLen, \A i \in 1 .. n : flash[PassFile(i)] = Absent,
           NEW x, x = PassFile(n + 1), flash' = [flash EXCEPT ![x] = Absent],
           given' = (IF x = seed THEN {} ELSE given), UNCHANGED ram
    PROVE  Safe'
<1>1. PassLen \in Nat /\ n + 1 \in 1 .. PassLen
  BY PassFiles
<1>2. x \in Files /\ {wkek, seed, cache, keyset} \subseteq Files
  BY <1>1, PassFiles, FilesDiffer
<1>3. flash'[x] = Absent /\ \A f \in Files : f # x => flash'[f] = flash[f]
  BY <1>2 DEF TypeInv, FlashType
<1>4. CASE n <= 2
  <2>1. x \in {pubkey, cache, keyset}
    <3>1. n \in {0, 1, 2}
      BY <1>4
    <3>2. n + 1 \in {1, 2, 3}
      BY <3>1
    <3> QED BY <3>2, PassFiles
  <2>2. x \notin {wkek, seed} /\ x \notin {unlock} \cup Fingerprints
    BY <2>1, FilesDiffer
  <2>3. flash'[wkek] = flash[wkek] /\ flash'[seed] = flash[seed] /\ given' = given
    BY <1>2, <1>3, <2>2
  <2>4. Kept'
    BY <2>3 DEF Safe, Kept, Readable
  <2>5. Same'
    <3> SUFFICES ASSUME count'.misreads = 0, NEW f \in {cache, keyset}, Readable(f)'
                 PROVE  Readable(seed)' /\ flash'[f].holds = flash'[seed].holds
      BY DEF Same
    <3>1. f # x
      BY <1>3, Sealing DEF Readable
    <3>2. flash'[f] = flash[f]
      BY <1>2, <1>3, <3>1
    <3>3. Readable(f)
      BY <2>3, <3>2 DEF Readable
    <3>4. Readable(seed) /\ flash[f].holds = flash[seed].holds
      BY <3>3 DEF Safe, Same
    <3> QED BY <2>3, <3>2, <3>4 DEF Readable
  <2>6. CanUnlock => CanUnlock'
    <3>1. \A f \in {unlock} \cup Fingerprints : f \in Files /\ f # x
      BY <2>2, FilesDiffer
    <3> QED BY <1>3, <3>1 DEF CanUnlock, fs_file_exists
  <2>7. Unlockable'
    BY <2>3, <2>6 DEF Safe, Unlockable, fs_file_exists
  <2> QED BY <2>4, <2>5, <2>7 DEF Safe
<1>5. CASE n >= 3
  <2>1. 2 \in 1 .. n /\ 3 \in 1 .. n /\ (n = 3 \/ 4 \in 1 .. n)
    BY <1>5
  <2>2. flash[cache] = Absent /\ flash[keyset] = Absent /\ (n = 3 \/ flash[seed] = Absent)
    BY <2>1, PassFiles
  <2>3. flash'[cache] = Absent /\ flash'[keyset] = Absent
    BY <1>2, <1>3, <2>2
  <2>4. n = 3 => x = seed
    <3>1. n = 3 => n + 1 = 4
      OBVIOUS
    <3> QED BY <3>1, PassFiles
  <2>5. flash'[seed] = Absent /\ (count'.misreads = 0 => given' = {})
    BY <1>2, <1>3, <2>2, <2>4
  <2>6. \A f \in {seed, cache, keyset} : ~Readable(f)'
    BY <2>3, <2>5, Sealing DEF Readable
  <2> QED BY <2>5, <2>6 DEF Safe, Kept, Same, Unlockable, fs_file_exists
<1>6. n <= 2 \/ n >= 3
  BY <1>1
<1> QED BY <1>4, <1>5, <1>6

LEMMA RemoveWipe ==
    ASSUME TypeInv, FileInv, Wipe, fs_remove
    PROVE  TypeInv' /\ FileInv' /\ Wipe'
<1> DEFINE x == Subject
<1>1. Doing("remove") /\ todo' = <<>> \o Tail(todo) /\ UNCHANGED <<ram, spoiled>>
  BY DEF fs_remove, Does
<1>2. PICK k \in 0 .. 3, n \in 0 .. PassLen :
             /\ todo = Rest(k, n) /\ failed >= k
             /\ (\E i \in 1 .. n : flash[PassFile(i)] # Absent) => failed >= k + 1
             /\ n < PassLen /\ x = PassFile(n + 1) /\ Tail(todo) = Rest(k, n + 1)
  BY <1>1, PassHead
<1>3. PassLen \in Nat /\ n + 1 \in 1 .. PassLen /\ n + 1 \in 0 .. PassLen
  BY <1>2, PassFiles
<1>4. x \in Files /\ {wkek, seed, cache, keyset} \subseteq Files
  BY <1>2, <1>3, PassFiles, FilesDiffer
<1>5. todo' = Rest(k, n + 1)
  BY <1>1, <1>2, <1>3, RestJoin
<1> HIDE DEF x
<1>6. failed \in Nat /\ count.faults \in Nat /\ failed <= count.faults
  BY Numbers DEF TypeInv, HistoryType
<1>7. CASE /\ flash' = [flash EXCEPT ![x] = Absent]
           /\ given' = (IF x = seed THEN {} ELSE given)
           /\ UNCHANGED <<failed, count>>
  <2>1. Absent \in Contents /\ Absent.key = -1
    BY Values, Sealing DEF Absent, Sealed, NoKeys, Contents
  <2>2. TypeInv'
    <3>1. FlashType'
      BY <1>7, <2>1 DEF TypeInv, FlashType, Contents
    <3>2. RamType' /\ CountType'
      BY <1>1, <1>7 DEF TypeInv, RamType, CountType
    <3>3. HistoryType'
      BY <1>1, <1>7 DEF TypeInv, HistoryType
    <3> QED BY <3>1, <3>2, <3>3 DEF TypeInv
  <2>3. flash'[x] = Absent /\ \A f \in Files : f # x => flash'[f] = flash[f]
    BY <1>4, <1>7 DEF TypeInv, FlashType
  <2>4. FileInv'
    <3>1. \A f \in {seed, cache, keyset} : flash'[f] = flash[f] \/ flash'[f].key = -1
      BY <1>4, <2>1, <2>3
    <3> QED BY <3>1 DEF FileInv
  <2>5. (\E i \in 1 .. n + 1 : flash'[PassFile(i)] # Absent) => failed >= k + 1
    <3> SUFFICES ASSUME NEW i \in 1 .. n + 1, flash'[PassFile(i)] # Absent PROVE failed >= k + 1
      OBVIOUS
    <3>1. PassFile(i) # x /\ i # n + 1
      BY <1>2, <2>3
    <3>2. i \in 1 .. n /\ i \in 1 .. PassLen
      BY <1>3, <3>1
    <3>3. PassFile(i) \in Files
      BY <3>2, PassFiles
    <3>4. flash[PassFile(i)] # Absent
      BY <2>3, <3>1, <3>3
    <3> QED BY <1>2, <3>2, <3>4
  <2>6. Removing'
    BY <1>2, <1>3, <1>5, <1>7, <2>5 DEF Removing
  <2>7. failed = 0 /\ ~spoiled => Safe'
    <3> SUFFICES ASSUME failed = 0, ~spoiled PROVE Safe'
      OBVIOUS
    <3>1. ~(failed >= k + 1)
      BY <1>6
    <3>2. \A i \in 1 .. n : flash[PassFile(i)] = Absent
      BY <1>2, <3>1
    <3>3. Safe /\ ram.got = {} /\ (count.misreads = 0 /\ flash[seed] = Absent => given = {})
      BY DEF Wipe
    <3> QED BY <1>1, <1>2, <1>7, <3>2, <3>3, RemoveSafe
  <2>8. ~spoiled /\ count'.misreads = 0 /\ flash'[seed] = Absent => given' = {}
    BY <1>4, <1>7, <2>3 DEF Wipe
  <2>9. Losses' = Losses
    BY <1>7 DEF Losses
  <2>10. Wipe'
    BY <1>1, <1>7, <2>6, <2>7, <2>8, <2>9 DEF Wipe
  <2> QED BY <2>2, <2>4, <2>10
<1>8. CASE Fault /\ failed' = failed + 1 /\ UNCHANGED <<flash, given>>
  <2>1. /\ count' = [count EXCEPT !.faults = @ + 1] /\ count.faults < MaxFaults
    BY <1>8 DEF Fault
  <2>2. /\ count'.keys = count.keys /\ count'.seeds = count.seeds /\ count'.wipes = count.wipes
        /\ count'.faults = count.faults + 1 /\ count'.misreads = count.misreads /\ count'.crashes = count.crashes
    BY <2>1 DEF TypeInv, CountType
  <2>3. TypeInv'
    <3>1. count.faults + 1 \in 0 .. MaxFaults
      BY <1>6, <2>1
    <3>2. CountType'
      BY <2>1, <3>1 DEF TypeInv, CountType
    <3>3. FlashType' /\ RamType'
      BY <1>1, <1>8, <2>2 DEF TypeInv, FlashType, RamType, Contents
    <3>4. failed + 1 \in 0 .. count.faults + 1
      BY <1>6
    <3>5. HistoryType'
      BY <1>1, <1>8, <2>2, <3>4 DEF TypeInv, HistoryType
    <3> QED BY <3>2, <3>3, <3>5 DEF TypeInv
  <2>4. failed' >= k /\ failed' >= k + 1 /\ failed' # 0
    BY <1>2, <1>6, <1>8
  <2>5. Removing'
    BY <1>2, <1>3, <1>5, <2>4 DEF Removing
  <2>6. count'.keys <= Losses' /\ count'.seeds <= Losses'
    <3>1. Losses' = Losses + 1 /\ Losses \in Nat /\ count.keys \in Nat /\ count.seeds \in Nat
      BY <2>2, Numbers DEF TypeInv, Losses
    <3> QED BY <2>2, <3>1 DEF Wipe
  <2>7. Wipe'
    BY <1>1, <1>8, <2>2, <2>4, <2>5, <2>6 DEF Wipe
  <2> QED BY <1>8, <2>3, <2>7, FlashFrame
<1> QED BY <1>7, <1>8 DEF fs_remove, x

LEMMA VerifyWipe ==
    ASSUME TypeInv, FileInv, Wipe, VerifyWiped
    PROVE  TypeInv' /\ FileInv' /\ Wipe'
<1>1. Doing("verify") /\ UNCHANGED <<flash, ram, given, failed, spoiled, count>>
  BY DEF VerifyWiped
<1>2. PICK k \in 0 .. 3, n \in 0 .. PassLen :
             /\ failed >= k
             /\ (\E i \in 1 .. n : flash[PassFile(i)] # Absent) => failed >= k + 1
             /\ n = PassLen /\ Subject = k /\ Tail(todo) = <<>>
  BY <1>1, PassHead
<1>3. onboarding_files_remain => failed >= k + 1
  <2> SUFFICES ASSUME onboarding_files_remain PROVE \E i \in 1 .. n : flash[PassFile(i)] # Absent
    BY <1>2
  <2>1. PICK f \in {seed, wkek, unlock} \cup Fingerprints : flash[f] # Absent
    BY DEF onboarding_files_remain, fs_file_exists
  <2>2. PICK i \in 1 .. PassLen : f = PassFile(i)
    BY PassFiles
  <2> QED BY <1>2, <2>1, <2>2
<1>4. onboarding_files_remain' <=> onboarding_files_remain
  BY <1>1 DEF onboarding_files_remain, fs_file_exists
<1>5. Removing' \/ Wiped'
  <2>1. CASE k < 3 /\ onboarding_files_remain
    <3> DEFINE r == Rest(k + 1, 0)
    <3>1. todo' = (WipePass \o <<<<"verify", k + 1>>>>) \o <<>>
      BY <1>2, <2>1 DEF VerifyWiped, Does
    <3>2. todo' = r \o <<>>
      BY <3>1, WipeShape
    <3>3. 0 \in 0 .. PassLen
      BY PassFiles
    <3>4. todo' = r
      BY <3>2, <3>3, RestJoin
    <3>5. k + 1 \in 0 .. 3 /\ 0 \in 0 .. PassLen /\ (~\E i \in 1 .. 0 : flash'[PassFile(i)] # Absent)
      BY <2>1, PassFiles
    <3>6. todo' = Rest(k + 1, 0) /\ failed' >= k + 1
      BY <1>1, <1>3, <2>1, <3>4 DEF r
    <3> QED BY <3>5, <3>6 DEF Removing
  <2>2. CASE ~(k < 3 /\ onboarding_files_remain)
    <3>1. todo' = <<<<"wiped", 0>>>> \o <<>>
      BY <1>2, <2>2 DEF VerifyWiped, Does
    <3>2. todo' = <<<<"wiped", 0>>>>
      BY <3>1
    <3>3. onboarding_files_remain => failed >= 4
      <4>1. k < 3 \/ k = 3
        OBVIOUS
      <4>2. k = 3 => k + 1 = 4
        OBVIOUS
      <4> QED BY <1>3, <2>2, <4>1, <4>2
    <3> QED BY <1>1, <1>4, <3>2, <3>3 DEF Wiped
  <2> QED BY <2>1, <2>2
<1>6. TypeInv'
  <2>1. RamType'
    BY <1>1 DEF TypeInv, RamType
  <2> QED BY <1>1, <2>1, RamChange
<1>7. Safe => Safe'
  BY <1>1, SafeFrame
<1>8. Losses' = Losses
  BY <1>1 DEF Losses
<1>9. Wipe'
  BY <1>1, <1>5, <1>7, <1>8 DEF Wipe
<1> QED BY <1>1, <1>6, <1>9, FlashFrame

LEMMA ResetWipe ==
    ASSUME TypeInv, FileInv, Wipe, mcu_reset_with_reason
    PROVE  TypeInv' /\ FileInv' /\ Normal'
<1>1. /\ ram' = Booted /\ todo' = <<>> /\ failed' = 0
      /\ spoiled' = (spoiled \/ onboarding_files_remain) /\ UNCHANGED <<flash, given, count>>
  BY DEF mcu_reset_with_reason
<1>2. CountType'
  BY <1>1 DEF TypeInv, CountType
<1>3. HistoryType'
  <2>1. 0 \in 0 .. count.faults
    BY Numbers DEF TypeInv
  <2>2. (spoiled \/ onboarding_files_remain) \in BOOLEAN
    BY DEF TypeInv, HistoryType, onboarding_files_remain
  <2> QED BY <1>1, <2>1, <2>2 DEF TypeInv, HistoryType
<1>4. Losses' = Losses
  BY <1>1 DEF Losses
<1>5. ~spoiled' => Safe'
  <2> SUFFICES ASSUME ~spoiled, ~onboarding_files_remain PROVE Safe'
    BY <1>1
  <2>1. flash[seed] = Absent /\ flash[wkek] = Absent
    BY DEF onboarding_files_remain, fs_file_exists
  <2>2. (count'.misreads = 0 => given' = {}) /\ ram'.got = {}
    BY <1>1, <2>1 DEF Wipe, Booted
  <2>3. flash'[seed] = Absent /\ flash'[wkek] = Absent
    BY <1>1, <2>1
  <2>4. \A f : ~Readable(f)'
    BY <2>3, Sealing DEF Readable
  <2> QED BY <2>2, <2>3, <2>4 DEF Safe, Kept, Same, Unlockable, fs_file_exists
<1>6. count.keys <= Losses /\ count.seeds <= Losses
  BY DEF Wipe
<1> QED BY <1>1, <1>2, <1>3, <1>4, <1>5, <1>6, ResetNormal

-----------------------------------------------------------------------------
(* The invariant is inductive *)
LEMMA WalletInit == Init => WalletInv
<1> SUFFICES ASSUME Init PROVE WalletInv
  OBVIOUS
<1>1. /\ flash = [f \in Files |-> Absent] /\ ram = Booted /\ todo = <<>> /\ given = {}
      /\ failed = 0 /\ spoiled = FALSE
      /\ count = [keys |-> 0, seeds |-> 0, wipes |-> 0, faults |-> 0, misreads |-> 0, crashes |-> 0]
  BY DEF Init
<1>2. /\ count.keys = 0 /\ count.seeds = 0 /\ count.wipes = 0 /\ count.faults = 0
      /\ count.crashes = 0 /\ Losses = 0
  BY <1>1 DEF Losses
<1>3. CountType
  BY <1>1 DEF CountType
<1>4. FlashType
  <2>1. Absent \in Contents
    BY <1>2 DEF Absent, Sealed, NoKeys, Contents
  <2> QED BY <1>1, <2>1 DEF FlashType
<1>5. RamType /\ ram.loaded = FALSE /\ ram.init = FALSE /\ ram.got = {}
  BY <1>1, <1>2 DEF RamType, Booted, NoKeys
<1>6. HistoryType
  <2>1. given \subseteq 1 .. count.seeds
    BY <1>1
  <2>2. failed \in 0 .. count.faults
    BY <1>1, <1>2
  <2>3. spoiled \in BOOLEAN
    BY <1>1
  <2> QED BY <2>1, <2>2, <2>3 DEF HistoryType
<1>7. \A f \in Files : flash[f] = Absent
  BY <1>1
<1>8. flash[seed] = Absent /\ flash[cache] = Absent /\ flash[keyset] = Absent
  BY <1>7, FilesDiffer
<1>9. FileInv
  BY <1>8, Sealing DEF FileInv
<1>10. Program
  <2>1. Promise(<<>>, ram.loaded, SeedGood, Goods, NewKek, NewSeed, CanUnlock)
    BY PromiseEmpty
  <2> QED BY <1>1, <2>1 DEF Program
<1>11. Safe
  <2>1. ~Readable(cache) /\ ~Readable(keyset)
    BY <1>8, Sealing DEF Readable
  <2> QED BY <1>1, <1>5, <1>8, <2>1 DEF Safe, Kept, Same, Unlockable, fs_file_exists
<1>12. RamInv /\ KeyCount /\ SeedCount
  BY <1>2, <1>5 DEF RamInv, KeyCount, SeedCount
<1> QED BY <1>1, <1>3, <1>4, <1>5, <1>6, <1>9, <1>10, <1>11, <1>12
       DEF WalletInv, TypeInv, Normal

LEMMA WalletStutter == WalletInv /\ UNCHANGED vars => WalletInv'
<1> SUFFICES ASSUME WalletInv, UNCHANGED vars PROVE WalletInv'
  OBVIOUS
<1>1. UNCHANGED <<flash, ram, todo, given, failed, spoiled, count>>
  BY DEF vars
<1>2. TypeInv'
  BY <1>1 DEF WalletInv, TypeInv, FlashType, RamType, CountType, HistoryType, Contents
<1>3. FileInv'
  BY <1>1, FlashFrame DEF WalletInv
<1>4. Safe => Safe'
  BY <1>1, SafeFrame
<1>5. CASE Normal
  <2>1. /\ (SeedGood => SeedGood') /\ Goods' = Goods /\ (NewKek => NewKek') /\ (NewSeed => NewSeed')
        /\ (CanUnlock => CanUnlock') /\ (RamInv => RamInv') /\ ram'.loaded = ram.loaded
    BY <1>1, FlagFrame
  <2>2. Promise(todo, ram'.loaded, SeedGood', Goods', NewKek', NewSeed', CanUnlock')
    <3>1. Promise(todo, ram.loaded, SeedGood, Goods, NewKek, NewSeed, CanUnlock)
      BY <1>5 DEF Normal, Program
    <3> QED BY <2>1, <3>1 DEF Promise, Served, Lead
  <2>3. Program'
    BY <1>1, <2>2 DEF Program
  <2>4. Losses' = Losses
    BY <1>1 DEF Losses
  <2>5. KeyCount'
    BY <1>1, <1>5, <2>4, FlashFrame DEF Normal, KeyCount
  <2>6. SeedCount'
    BY <1>1, <1>5, <2>4, FlashFrame DEF Normal, SeedCount
  <2>7. Normal'
    BY <1>1, <1>4, <1>5, <2>1, <2>3, <2>5, <2>6 DEF Normal
  <2> QED BY <1>2, <1>3, <2>7 DEF WalletInv
<1>6. CASE Wipe
  <2>1. Losses' = Losses
    BY <1>1 DEF Losses
  <2>2. Removing => Removing'
    BY <1>1 DEF Removing
  <2>3. Wiped => Wiped'
    BY <1>1 DEF Wiped, onboarding_files_remain, fs_file_exists
  <2>4. Wipe'
    BY <1>1, <1>4, <1>6, <2>1, <2>2, <2>3 DEF Wipe
  <2> QED BY <1>2, <1>3, <2>4 DEF WalletInv
<1> QED BY <1>5, <1>6 DEF WalletInv

\* A step of a command, or the beginning of a wipe.
LEMMA NormalStep ==
    ASSUME TypeInv, FileInv, Normal, Next
    PROVE  TypeInv' /\ FileInv' /\ (Normal' \/ Wipe')
<1>1. CASE FsOpen
  BY <1>1, OpenNormal
<1>2. CASE FsWrite
  BY <1>2, WriteNormal
<1>3. CASE WkekLazyInit
  BY <1>3, WkekNormal
<1>4. CASE wkek_load
  BY <1>4, LoadNormal
<1>5. CASE master_key_lazy_init
  BY <1>5, SeedNormal
<1>6. CASE Derived
  BY <1>6, DerivedNormal
<1>7. CASE UseCache
  BY <1>7, UseNormal
<1>8. CASE UnsealCache
  BY <1>8, UnsealNormal
<1>9. CASE CacheHit
  BY <1>9, HitNormal
<1>10. CASE VerifyWsm
  BY <1>10, WsmNormal
<1>11. CASE UnsealKeyset
  BY <1>11, KeysetNormal
<1>12. CASE Reply
  BY <1>12, ReplyNormal
<1>13. CASE fs_remove \/ VerifyWiped \/ mcu_reset_with_reason
  BY <1>13, NormalNotWipe DEF fs_remove, VerifyWiped, mcu_reset_with_reason
<1>14. CASE \/ handle_derive \/ key_manager_derive_and_sign \/ BuildDescriptor
            \/ key_manager_task_port_handle_get_address \/ handle_seal_csek
  BY <1>14, CommandsNormal
<1>15. CASE wallet_clear_derived_key_cache
  BY <1>15, ClearNormal
<1>16. CASE SetUp
  BY <1>16, SetUpNormal
<1>17. CASE onboarding_wipe_state
  BY <1>17, WipeBegins
<1>18. CASE PowerLoss
  BY <1>18, PowerNormal
<1> QED BY <1>1, <1>2, <1>3, <1>4, <1>5, <1>6, <1>7, <1>8, <1>9, <1>10, <1>11, <1>12, <1>13,
           <1>14, <1>15, <1>16, <1>17, <1>18 DEF Next

\* During a wipe nothing but the wipe is done.
LEMMA WipeStep ==
    ASSUME TypeInv, FileInv, Wipe, Next
    PROVE  TypeInv' /\ FileInv' /\ (Normal' \/ Wipe')
<1>1. todo # <<>>
  BY WipeBusy
<1>2. \A w \in {"open", "write", "wkek", "load", "seed", "derived", "use", "unseal", "hit", "wsm", "reply"} :
        ~Doing(w)
  BY WipeHead
<1>3. ~FsOpen /\ ~FsWrite /\ ~WkekLazyInit /\ ~wkek_load /\ ~master_key_lazy_init /\ ~Derived
  BY <1>2 DEF FsOpen, FsWrite, WkekLazyInit, wkek_load, master_key_lazy_init, Derived
<1>4. ~UseCache /\ ~UnsealCache /\ ~CacheHit /\ ~VerifyWsm /\ ~UnsealKeyset /\ ~Reply
  BY <1>2 DEF UseCache, UnsealCache, CacheHit, VerifyWsm, UnsealKeyset, Reply
<1>5. /\ ~handle_derive /\ ~key_manager_derive_and_sign /\ ~BuildDescriptor
      /\ ~key_manager_task_port_handle_get_address /\ ~handle_seal_csek
      /\ ~wallet_clear_derived_key_cache /\ ~SetUp /\ ~onboarding_wipe_state
  BY <1>1 DEF handle_derive, key_manager_derive_and_sign, BuildDescriptor,
              key_manager_task_port_handle_get_address, handle_seal_csek,
              wallet_clear_derived_key_cache, SetUp, onboarding_wipe_state, Command, Idle
<1>6. CASE fs_remove
  BY <1>6, RemoveWipe
<1>7. CASE VerifyWiped
  BY <1>7, VerifyWipe
<1>8. CASE mcu_reset_with_reason
  BY <1>8, ResetWipe
<1>9. CASE PowerLoss
  BY <1>9, PowerNormal
<1> QED BY <1>3, <1>4, <1>5, <1>6, <1>7, <1>8, <1>9 DEF Next

\* The invariant holds throughout.
THEOREM WalletInvariant == Spec => []WalletInv
<1>1. WalletInv /\ [Next]_vars => WalletInv'
  <2> SUFFICES ASSUME WalletInv, [Next]_vars PROVE WalletInv'
    OBVIOUS
  <2>1. CASE UNCHANGED vars
    BY <2>1, WalletStutter
  <2>2. CASE Next /\ Normal
    BY <2>2, NormalStep DEF WalletInv
  <2>3. CASE Next /\ Wipe
    BY <2>3, WipeStep DEF WalletInv
  <2> QED BY <2>1, <2>2, <2>3 DEF WalletInv
<1> QED BY <1>1, WalletInit, PTL DEF Spec

-----------------------------------------------------------------------------
(* What follows from it *)

\* Everything a file, the RAM or a history variable holds is of its type, and
\* no more KEKs and seeds are made than the wipes, the failed writes and the
\* losses of power account for (wkek.c, seed.c).
THEOREM TypeCorrect == Spec => []TypeOK
<1>1. WalletInv => TypeOK
  <2> SUFFICES ASSUME WalletInv PROVE TypeOK
    OBVIOUS
  <2>0. TypeInv
    BY DEF WalletInv
  <2>1. Losses \in Nat /\ count.keys \in Nat /\ count.seeds \in Nat
    BY <2>0, Numbers DEF TypeInv
  <2>2. count.keys <= Losses + 1 /\ count.seeds <= Losses + 1
    <3>1. CASE Normal
      BY <2>1, <3>1 DEF Normal, KeyCount, SeedCount
    <3>2. CASE Wipe
      BY <2>1, <3>2 DEF Wipe
    <3> QED BY <3>1, <3>2 DEF WalletInv
  <2>3. MaxMade \in Nat /\ count.keys <= MaxMade /\ count.seeds <= MaxMade
    <3>1. /\ count.wipes \in 0 .. MaxWipes /\ count.faults \in 0 .. MaxFaults
          /\ count.crashes \in 0 .. MaxCrashes
      BY <2>0 DEF TypeInv, CountType
    <3>2. MaxWipes \in Nat /\ MaxFaults \in Nat /\ MaxCrashes \in Nat
      OBVIOUS
    <3>3. MaxMade \in Nat /\ Losses + 1 <= MaxMade
      BY <3>1, <3>2 DEF MaxMade, Losses
    <3> QED BY <2>1, <2>2, <3>3
  <2>4. \A i : /\ (i \in -2 .. count.keys => i \in -2 .. MaxMade)
               /\ (i \in 0 .. count.keys => i \in 0 .. MaxMade)
               /\ (i \in 0 .. count.seeds => i \in 0 .. MaxMade)
               /\ (i \in 1 .. count.seeds => i \in 1 .. MaxMade)
    BY <2>1, <2>3
  <2>5. \A h \in [CacheKeys -> 0 .. count.seeds] : h \in [CacheKeys -> 0 .. MaxMade]
    BY <2>4
  <2>6. flash \in [Files -> [key : -2 .. MaxMade, holds : [CacheKeys -> 0 .. MaxMade]]]
    <3>1. \A v \in Contents : v \in [key : -2 .. MaxMade, holds : [CacheKeys -> 0 .. MaxMade]]
      BY <2>4, <2>5 DEF Contents
    <3> QED BY <2>0, <3>1 DEF TypeInv, FlashType
  <2>7. ram \in [wkek : 0 .. MaxMade, loaded : BOOLEAN, init : BOOLEAN,
                 cache : [CacheKeys -> 0 .. MaxMade], seed : 0 .. MaxMade,
                 got : SUBSET (1 .. MaxMade)]
    BY <2>0, <2>4, <2>5 DEF TypeInv, RamType
  <2>8. given \subseteq 1 .. MaxMade /\ spoiled \in BOOLEAN
    BY <2>0, <2>4 DEF TypeInv, HistoryType
  <2>9. failed \in 0 .. MaxFaults
    <3>1. failed \in 0 .. count.faults /\ count.faults \in 0 .. MaxFaults
      BY <2>0 DEF TypeInv, HistoryType, CountType
    <3> QED BY <3>1
  <2>10. count \in [keys : 0 .. MaxMade, seeds : 0 .. MaxMade, wipes : 0 .. MaxWipes,
                    faults : 0 .. MaxFaults, misreads : 0 .. MaxFaults, crashes : 0 .. MaxCrashes]
    <3>1. count.keys \in 0 .. MaxMade /\ count.seeds \in 0 .. MaxMade
      BY <2>1, <2>3
    <3> QED BY <2>0, <3>1 DEF TypeInv, CountType
  <2>11. ram.loaded => ram.wkek > 0
    BY DEF WalletInv, Normal, RamInv, Wipe
  <2>12. ram.init => \A k \in CacheKeys : ram.cache[k] > 0
    <3>1. CASE Normal
      BY <3>1 DEF Normal, RamInv, Goods
    <3>2. CASE Wipe
      BY <3>2 DEF Wipe
    <3> QED BY <3>1, <3>2 DEF WalletInv
  <2>13. ram.init => 0 \notin {ram.cache[k] : k \in CacheKeys}
    BY <2>12
  <2> QED BY <2>6, <2>7, <2>8, <2>9, <2>10, <2>11, <2>13 DEF TypeOK
<1> QED BY <1>1, WalletInvariant, PTL

\* Between commands the three properties hold unless a wipe was spoiled.
LEMMA IdleSafe ==
    ASSUME WalletInv, Idle, ~spoiled
    PROVE  Safe
<1>1. ~Wipe
  BY WipeBusy DEF Idle
<1> QED BY <1>1 DEF WalletInv, Normal

\* A key that was answered stays a key of the seed in flash, and the KEK in
\* flash opens that seed, whatever reads and writes failed and wherever power was
\* lost (seed.c, wkek.c, derived_key_cache.c), until an intact seed is misread
\* and replaced (seed.c:22-32).
THEOREM AnsweredKeysAreKept == Spec => []AnsweredKeysKept
<1>1. WalletInv => AnsweredKeysKept
  <2> SUFFICES ASSUME WalletInv, Idle, ~spoiled, count.misreads = 0, NEW s \in given
               PROVE  Readable(seed) /\ flash[seed].holds = OfSeed(s)
    BY DEF AnsweredKeysKept
  <2>1. Kept
    BY IdleSafe DEF Safe
  <2> QED BY <2>1 DEF Kept
<1> QED BY <1>1, WalletInvariant, PTL

\* No cache and no keyset that can be read is of another seed than the one in
\* flash (wallet_remove_files deletes them before the seed), until an intact seed
\* is misread and replaced.
THEOREM KeysDoNotOutliveSeed == Spec => []NoStaleKeys
<1>1. WalletInv => NoStaleKeys
  <2> SUFFICES ASSUME WalletInv, ~spoiled, count.misreads = 0, NEW f \in {cache, keyset}, Idle, Readable(f)
               PROVE  Readable(seed) /\ flash[f].holds = flash[seed].holds
    BY DEF NoStaleKeys
  <2>1. Same
    BY IdleSafe DEF Safe
  <2> QED BY <2>1 DEF Same
<1> QED BY <1>1, WalletInvariant, PTL

\* While the device is set up somebody can unlock it, so a wipe that was
\* interrupted can be tried again (onboarding_wipe_state deletes the wallet
\* before the means to unlock).
THEOREM WipeCanBeRetried == Spec => []StaysUnlockable
<1>1. WalletInv => StaysUnlockable
  <2> SUFFICES ASSUME WalletInv, Idle, ~spoiled, onboarding_complete
               PROVE  CanUnlock
    BY DEF StaysUnlockable
  <2>1. Unlockable
    BY IdleSafe DEF Safe
  <2> QED BY <2>1 DEF Unlockable, onboarding_complete, wallet_is_initialized
<1> QED BY <1>1, WalletInvariant, PTL

\* When a wipe ends, and before a confirmed one is answered, the seed, the KEK and
\* whatever unlocks the device are gone, though up to three deletions failed: one
\* attempt is made for each, and a fourth (onboarding_wipe_state).
THEOREM WipeEndsClean == Spec => []WipedClean
<1>1. WalletInv => WipedClean
  <2> SUFFICES ASSUME WalletInv, Doing("wiped"), failed <= 3, onboarding_files_remain
               PROVE  FALSE
    BY DEF WipedClean
  <2>1. Wipe
    BY NormalNotWipe DEF WalletInv
  <2>2. ~Removing
    <3> SUFFICES ASSUME Removing PROVE FALSE
      OBVIOUS
    <3>1. PICK k \in 0 .. 3, n \in 0 .. PassLen : todo = Rest(k, n)
      BY DEF Removing
    <3>2. Head(todo) = <<"remove", PassFile(n + 1)>> \/ Head(todo) = <<"verify", k>>
      BY <3>1, RestShape
    <3> QED BY <3>2 DEF Doing
  <2>3. failed >= 4
    BY <2>1, <2>2 DEF Wipe, Wiped
  <2>4. failed \in Nat
    BY Numbers DEF WalletInv, TypeInv, HistoryType
  <2> QED BY <2>3, <2>4
<1> QED BY <1>1, WalletInvariant, PTL
=============================================================================
