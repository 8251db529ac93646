--------------------------- MODULE CollectorProofs --------------------------
(***************************************************************************)
(* What holds of the collector for any sources, bodies, candidates and     *)
(* limits: how often and where a source is asked, that a list of           *)
(* candidates is never on disk without its sources, whose verdict each     *)
(* candidate and each source gets, and what the cap and the two lists may  *)
(* leave out.                                                              *)
(***************************************************************************)
EXTENDS Collector, SequenceTheorems, FiniteSetTheorems, TLAPS

-----------------------------------------------------------------------------
(* The downloads.                                                          *)

Download ==
  [state : {"waiting", "running"} \cup Ended, url : Urls, listed : Urls,
   attempt : 0..Retries, hops : 0..MaxRedirects, requests : Nat,
   configs : Bodies \cup {{}}]

\* The requests of a download fit in the series of attempts behind it and the
\* one under way, and it is asked where it was listed or may have been sent.
Fitting(f) == f.requests <= f.hops * (Retries + 1) + f.attempt

Staying(f) ==
  f.url # f.listed => /\ f.url.scheme = "https"
                      /\ \/ f.url.port = f.listed.port
                         \/ f.url.port = 443 /\ f.listed.port = 80
                                             /\ f.listed.scheme = "http"

FetchInv ==
  /\ fetch \in [Sources -> Download]
  /\ \A s \in Sources : Fitting(fetch[s]) /\ Staying(fetch[s])

\* A download that is not under way keeps every promise.
LEMMA IdleKeeps ==
  ASSUME NEW state \in {"waiting"} \cup Ended, NEW body \in Bodies \cup {{}}
  PROVE  /\ Idle(state, body) \in Download
         /\ Fitting(Idle(state, body)) /\ Staying(Idle(state, body))
<1>1. Idle(state, body) \in Download
  BY FetchAssumption DEF Idle, Download, Urls, Ended
<1>2. Fitting(Idle(state, body))
  BY FetchAssumption DEF Idle, Fitting
<1>3. Staying(Idle(state, body))
  BY DEF Idle, Staying
<1> QED  BY <1>1, <1>2, <1>3

\* A step that changes one download needs looking at there only.
LEMMA OneDownload ==
  ASSUME FetchInv, NEW s \in Sources, NEW g \in Download, Fitting(g), Staying(g),
         fetch' = [fetch EXCEPT ![s] = g]
  PROVE  FetchInv'
BY DEF FetchInv

LEMMA EndKeeps ==
  ASSUME FetchInv, NEW s \in Sources, NEW state \in Ended,
         NEW body \in Bodies \cup {{}}, End(s, state, body)
  PROVE  FetchInv'
BY IdleKeeps, OneDownload DEF End

LEMMA StartKeeps ==
  ASSUME FetchInv, NEW s \in Sources, Start(s)
  PROVE  FetchInv'
<1>1. CASE End(s, "failed", {})
  BY <1>1, EndKeeps DEF Ended
<1>2. ASSUME NEW u \in Urls,
             fetch' = [fetch EXCEPT ![s].state = "running", ![s].url = u, ![s].listed = u]
      PROVE  FetchInv'
  <2> DEFINE g == [fetch[s] EXCEPT !.state = "running", !.url = u, !.listed = u]
  <2>1. fetch[s] \in Download /\ Fitting(fetch[s])
    BY DEF FetchInv
  <2>2. g \in Download /\ Staying(g)
    BY <2>1 DEF Download, Staying
  <2>3. Fitting(g)
    BY <2>1 DEF Download, Fitting
  <2>4. fetch' = [fetch EXCEPT ![s] = g]
    BY <1>2, <2>1 DEF FetchInv
  <2> QED  BY <2>2, <2>3, <2>4, OneDownload
<1> QED  BY <1>1, <1>2 DEF Start

\* A redirect leaves room for a whole series of attempts.
LEMMA FollowKeeps ==
  ASSUME FetchInv, NEW s \in Sources, NEW to \in Urls, fetch[s].hops # MaxRedirects,
         SafeRedirect(fetch[s].url, to), Follow(s, to)
  PROVE  FetchInv'
<1> DEFINE f == fetch[s]
           g == [f EXCEPT !.url = to, !.hops = @ + 1, !.attempt = 0, !.requests = @ + 1]
<1>1. f \in Download /\ Fitting(f) /\ Staying(f)
  BY DEF FetchInv
<1>2. fetch' = [fetch EXCEPT ![s] = g]
  BY DEF Follow, FetchInv
<1>3. g \in Download
  <2>1. /\ f.hops + 1 \in 0..MaxRedirects /\ 0 \in 0..Retries /\ f.requests + 1 \in Nat
    BY <1>1, FetchAssumption DEF Download
  <2> QED  BY <1>1, <2>1 DEF Download
<1>4. Fitting(g)
  <2>1. /\ g.hops = f.hops + 1 /\ g.attempt = 0 /\ g.requests = f.requests + 1
        /\ f.hops \in Nat /\ f.attempt \in 0..Retries /\ f.requests \in Nat
    BY <1>1, FetchAssumption DEF Download
  <2>2. (f.hops + 1) * (Retries + 1) = f.hops * (Retries + 1) + (Retries + 1)
    BY <2>1, FetchAssumption
  <2>3. f.hops * (Retries + 1) \in Nat
    BY <2>1, FetchAssumption
  <2> QED  BY <1>1, <2>1, <2>2, <2>3, FetchAssumption DEF Fitting
<1>5. Staying(g)
  BY <1>1 DEF Staying, SafeRedirect, Download, Urls
<1> HIDE DEF g
<1> QED  BY <1>2, <1>3, <1>4, <1>5, OneDownload

LEMMA BusyKeeps ==
  ASSUME FetchInv, NEW s \in Sources, Busy(s)
  PROVE  FetchInv'
<1>1. CASE fetch[s].attempt < Retries
  <2> DEFINE f == fetch[s]
             g == [f EXCEPT !.attempt = @ + 1, !.requests = @ + 1]
  <2>1. f \in Download /\ Fitting(f) /\ Staying(f)
    BY DEF FetchInv
  <2>2. fetch' = [fetch EXCEPT ![s] = g]
    BY <1>1 DEF Busy, Again, FetchInv
  <2>3. g \in Download /\ Staying(g)
    <3>1. f.attempt + 1 \in 0..Retries /\ f.requests + 1 \in Nat
      BY <1>1, <2>1, FetchAssumption DEF Download
    <3> QED  BY <2>1, <3>1 DEF Download, Staying
  <2>4. f.hops * (Retries + 1) \in Nat
    BY <2>1, FetchAssumption DEF Download
  <2>5. Fitting(g)
    BY <2>1, <2>4, FetchAssumption DEF Download, Fitting
  <2> HIDE DEF g
  <2> QED  BY <2>2, <2>3, <2>5, OneDownload
<1>2. CASE ~(fetch[s].attempt < Retries)
  BY <1>2, EndKeeps DEF Busy, Ended
<1> QED  BY <1>1, <1>2

LEMMA FetchKeeps ==
  ASSUME FetchInv, NEW s \in Sources, FetchStep(s)
  PROVE  FetchInv'
<1>1. CASE Start(s)
  BY <1>1, StartKeeps
<1>2. CASE Redirected(s)
  BY <1>2, FollowKeeps, EndKeeps DEF Redirected, Ended
<1>3. CASE Busy(s)
  BY <1>3, BusyKeeps
<1>4. CASE Gone(s) \/ Refused(s)
  BY <1>4, EndKeeps DEF Gone, Refused, Ended
<1>5. CASE Delivered(s)
  BY <1>5, EndKeeps DEF Delivered, Ended
<1> QED  BY <1>1, <1>2, <1>3, <1>4, <1>5 DEF FetchStep

LEMMA FetchInvKeeps ==
  ASSUME FetchInv, [Next]_vars
  PROVE  FetchInv'
<1>1. ASSUME NEW s \in Sources, Fetch(s) PROVE FetchInv'
  BY <1>1, FetchKeeps DEF Fetch
<1>2. CASE UNCHANGED fetch
  BY <1>2 DEF FetchInv
<1> QED  BY <1>1, <1>2 DEF Next, Work, Fails, Terminated, Assemble, Test, Count,
            WriteMap, WriteLight, WriteAll, vars

\* No source is asked without end, nor elsewhere than where it was listed or may
\* send the collector, however redirects and retries follow each other (main.rs,
\* the loop of requests).
THEOREM SourcesStaySafe == Spec => []SourcesAskedSafely
<1>1. Init => FetchInv
  BY IdleKeeps DEF Init, FetchInit, FetchInv
<1>2. FetchInv /\ [Next]_vars => FetchInv'
  BY FetchInvKeeps
<1>3. FetchInv => SourcesAskedSafely
  BY DEF FetchInv, Fitting, Staying, SourcesAskedSafely, RequestsBounded, RedirectsStay
<1> QED  BY <1>1, <1>2, <1>3, PTL DEF Spec

-----------------------------------------------------------------------------
(* The files.                                                              *)

\* What is new on disk at each step.
NewFiles ==
  CASE step \in {"fetch", "test", "count", "map"} -> {}
    [] step = "light" -> {"map"}
    [] step = "all"   -> {"map", "light"}
    [] step = "done"  -> {"map", "light", "all"}
    [] OTHER          -> disk.new

DiskInv ==
  /\ disk = [map |-> disk.map, light |-> disk.light, all |-> disk.all, new |-> disk.new]
  /\ step \in {"fetch", "test", "count", "map", "light", "all", "done", "failed"}
  /\ disk.new = NewFiles
  /\ step \in {"light", "all"} => DOMAIN disk.map = Range(light)
  /\ FilesInOrder

LEMMA DiskKeeps ==
  ASSUME DiskInv, [Next]_vars
  PROVE  DiskInv'
<1>1. CASE WriteMap
  <2>1. /\ step = "map" /\ step' = "light" /\ light' = light /\ disk.new = {}
        /\ disk' = [map |-> [c \in Range(light) |-> SourcesOf(c)],
                    light |-> disk.light, all |-> disk.all, new |-> {"map"}]
    BY <1>1 DEF WriteMap, DiskInv, NewFiles
  <2>2. disk'.new = {"map"} /\ DOMAIN disk'.map = Range(light)
    BY <2>1
  <2> QED  BY <2>1, <2>2 DEF DiskInv, NewFiles, FilesInOrder
<1>2. CASE WriteLight
  <2>1. /\ step = "light" /\ step' = "all" /\ light' = light /\ disk.new = {"map"}
        /\ DOMAIN disk.map = Range(light)
        /\ disk' = [map |-> disk.map, light |-> light, all |-> disk.all,
                    new |-> {"map", "light"}]
    BY <1>2 DEF WriteLight, DiskInv, NewFiles
  <2> QED  BY <2>1 DEF DiskInv, NewFiles, FilesInOrder
<1>3. CASE WriteAll
  <2>1. /\ step = "all" /\ step' = "done" /\ disk.new = {"map", "light"}
        /\ Range(disk.light) \subseteq DOMAIN disk.map
        /\ disk' = [map |-> disk.map, light |-> disk.light, all |-> AllCandidates,
                    new |-> {"map", "light", "all"}]
    BY <1>3 DEF WriteAll, DiskInv, NewFiles, FilesInOrder
  <2> QED  BY <2>1 DEF DiskInv, NewFiles, FilesInOrder
<1>4. ASSUME disk' = disk,
             \/ step' = step /\ light' = light
             \/ /\ step \in {"fetch", "test", "count"}
                /\ step' \in {"test", "count", "map", "failed"}
             \/ step # "done" /\ step' = "failed"
      PROVE  DiskInv'
  BY <1>4 DEF DiskInv, NewFiles, FilesInOrder
<1>5. CASE Fails \/ Terminated \/ UNCHANGED vars \/ \E s \in Sources : Fetch(s)
  BY <1>4, <1>5 DEF Fails, Terminated, vars, Fetch
<1>6. CASE Assemble \/ Test \/ Count
  BY <1>4, <1>6 DEF Assemble, Test, Count
<1> QED  BY <1>1, <1>2, <1>3, <1>5, <1>6 DEF Next, Work

\* The map is written before the list it explains, and that before all.txt; the
\* candidates are not touched in between (main.rs, the three write_atomic).
THEOREM FilesStayInOrder == Spec => []FilesInOrder
<1>1. Init => DiskInv
  BY DEF Init, DiskInv, NewFiles, FilesInOrder
<1>2. DiskInv /\ [Next]_vars => DiskInv'
  BY DiskKeeps
<1>3. DiskInv => FilesInOrder
  BY DEF DiskInv
<1> QED  BY <1>1, <1>2, <1>3, PTL DEF Spec

-----------------------------------------------------------------------------
(* Orders of finite sets: the place of an element, and the sequence of all.*)

\* A strict order, as a set of pairs, that tells any two elements of S apart.
Orders(R, S) ==
  \A c, d \in S :
    /\ <<c, c>> \notin R
    /\ c # d => <<c, d>> \in R \/ <<d, c>> \in R
    /\ \A e \in S : <<c, d>> \in R /\ <<d, e>> \in R => <<c, e>> \in R

\* How many elements of S come before c.
Below(R, S, c) == Cardinality({d \in S : <<d, c>> \in R})

LEMMA BelowIsBounded ==
  ASSUME NEW S, IsFiniteSet(S), NEW R, Orders(R, S), NEW c \in S
  PROVE  Below(R, S, c) \in 0..(Cardinality(S) - 1)
<1> DEFINE D == {d \in S : <<d, c>> \in R}
<1>1. D \subseteq S /\ D # S
  BY DEF Orders
<1>2. IsFiniteSet(D) /\ Cardinality(D) <= Cardinality(S) /\ Cardinality(D) # Cardinality(S)
  BY <1>1, FS_Subset
<1>3. Cardinality(D) \in Nat /\ Cardinality(S) \in Nat
  BY <1>2, FS_CardinalityType
<1> HIDE DEF D
<1>4. Cardinality(D) \in 0..(Cardinality(S) - 1)
  BY <1>2, <1>3
<1> QED  BY <1>4 DEF Below, D

LEMMA BelowIncreases ==
  ASSUME NEW S, IsFiniteSet(S), NEW R, Orders(R, S), NEW c \in S, NEW e \in S,
         <<c, e>> \in R
  PROVE  Below(R, S, c) < Below(R, S, e)
<1> DEFINE D == {d \in S : <<d, c>> \in R}
           E == {d \in S : <<d, e>> \in R}
<1>1. D \subseteq E /\ E \subseteq S /\ D # E
  <2>1. c \in E /\ c \notin D
    BY DEF Orders
  <2>2. D \subseteq E
    BY DEF Orders
  <2> QED  BY <2>1, <2>2
<1>2. IsFiniteSet(E) /\ IsFiniteSet(D)
  BY <1>1, FS_Subset
<1>3. Cardinality(D) <= Cardinality(E) /\ Cardinality(D) # Cardinality(E)
  BY <1>1, <1>2, FS_Subset
<1>4. Cardinality(D) \in Nat /\ Cardinality(E) \in Nat
  BY <1>2, FS_CardinalityType
<1> HIDE DEF D, E
<1>5. Cardinality(D) < Cardinality(E)
  BY <1>3, <1>4
<1> QED  BY <1>5 DEF Below, D, E

LEMMA BelowTellsOrder ==
  ASSUME NEW S, IsFiniteSet(S), NEW R, Orders(R, S), NEW c \in S, NEW e \in S
  PROVE  /\ <<c, e>> \in R <=> Below(R, S, c) < Below(R, S, e)
         /\ Below(R, S, c) \in Nat /\ Below(R, S, e) \in Nat
<1>1. Below(R, S, c) \in Nat /\ Below(R, S, e) \in Nat
  BY BelowIsBounded
<1>2. <<c, e>> \in R => Below(R, S, c) < Below(R, S, e)
  BY BelowIncreases
<1>3. <<e, c>> \in R => Below(R, S, e) < Below(R, S, c)
  BY BelowIncreases
<1>4. c = e \/ <<c, e>> \in R \/ <<e, c>> \in R
  BY DEF Orders
<1> QED  BY <1>1, <1>2, <1>3, <1>4

LEMMA BelowTellsApart ==
  ASSUME NEW S, IsFiniteSet(S), NEW R, Orders(R, S), NEW c \in S, NEW e \in S,
         Below(R, S, c) = Below(R, S, e)
  PROVE  c = e
<1>1. Below(R, S, c) \in Nat /\ Below(R, S, e) \in Nat
  BY BelowIsBounded
<1>2. <<c, e>> \notin R /\ <<e, c>> \notin R
  BY <1>1, BelowTellsOrder
<1> QED  BY <1>2 DEF Orders

LEMMA BelowIsOnto ==
  ASSUME NEW S, IsFiniteSet(S), NEW R, Orders(R, S), NEW n \in 0..(Cardinality(S) - 1)
  PROVE  \E c \in S : Below(R, S, c) = n
<1> DEFINE k == Cardinality(S)
           T == 0..(k - 1)
           f == [c \in S |-> Below(R, S, c)]
<1>1. f \in [S -> T]
  BY BelowIsBounded
<1>2. k \in Nat
  BY FS_CardinalityType
<1>3. IsFiniteSet(T) /\ Cardinality(T) = k
  <2> HIDE DEF k
  <2> DEFINE m == k - 1
  <2>1. m \in Int /\ 0 \in Int
    BY <1>2
  <2> HIDE DEF m
  <2>2. IsFiniteSet(0..m) /\ Cardinality(0..m) = IF 0 > m THEN 0 ELSE m - 0 + 1
    BY <2>1, FS_Interval
  <2>3. (IF 0 > m THEN 0 ELSE m - 0 + 1) = k
    BY <1>2 DEF m
  <2>4. IsFiniteSet(0..m) /\ Cardinality(0..m) = k
    BY <2>2, <2>3
  <2> QED  BY <2>4 DEF m
<1>4. \A c, e \in S : f[c] = f[e] => c = e
  <2>1. \A c, e \in S : Below(R, S, c) = Below(R, S, e) => c = e
    BY BelowTellsApart
  <2> QED  BY <2>1
<1>5. f \in Injection(S, T)
  BY <1>1, <1>4 DEF Injection, IsInjective
<1>6. f \in Surjection(S, T)
  BY <1>3, <1>5, FS_Injection
<1>7. n \in T
  OBVIOUS
<1> HIDE DEF T
<1> QED  BY <1>6, <1>7 DEF Surjection

\* There is an element for each place, so a choice by the place finds it.
LEMMA PlacesAreFound ==
  ASSUME NEW S, IsFiniteSet(S), NEW R, Orders(R, S), NEW n \in 1..Cardinality(S)
  PROVE  \E c \in S : Below(R, S, c) = n - 1
<1>1. Cardinality(S) \in Nat
  BY FS_CardinalityType
<1>2. n - 1 \in 0..(Cardinality(S) - 1)
  BY <1>1
<1> QED  BY <1>2, BelowIsOnto

\* The sequence of all elements in their order, and what it is like.
Enumerates(q, R, S) ==
  /\ q \in [1..Cardinality(S) -> S]
  /\ \A n \in 1..Cardinality(S) : Below(R, S, q[n]) = n - 1

InSequence(q, R, S) ==
  /\ q \in Seq(S) /\ Len(q) = Cardinality(S) /\ DOMAIN q = 1..Cardinality(S)
  /\ Range(q) = S
  /\ \A n, m \in DOMAIN q : <<q[n], q[m]>> \in R <=> n < m
  /\ \A n, m \in DOMAIN q : q[n] = q[m] => n = m
  /\ \A n \in DOMAIN q : q[n] \in S /\ Below(R, S, q[n]) = n - 1
  /\ \A c \in S : Below(R, S, c) + 1 \in DOMAIN q /\ q[Below(R, S, c) + 1] = c

LEMMA OrderedSequence ==
  ASSUME NEW S, IsFiniteSet(S), NEW R, Orders(R, S), NEW q, Enumerates(q, R, S)
  PROVE  InSequence(q, R, S)
<1>1. Cardinality(S) \in Nat
  BY FS_CardinalityType
<1>2. \A n \in 1..Cardinality(S) : q[n] \in S /\ Below(R, S, q[n]) = n - 1
  BY DEF Enumerates
<1>3. q \in [1..Cardinality(S) -> S] /\ DOMAIN q = 1..Cardinality(S)
  BY DEF Enumerates
<1>4. q \in Seq(S) /\ Len(q) = Cardinality(S)
  BY <1>1, <1>3
<1>5. ASSUME NEW n \in 1..Cardinality(S), NEW m \in 1..Cardinality(S)
      PROVE  /\ <<q[n], q[m]>> \in R <=> n < m
             /\ q[n] = q[m] => n = m
  <2>1. n \in Nat /\ m \in Nat
    BY <1>1
  <2>2. /\ q[n] \in S /\ q[m] \in S
        /\ Below(R, S, q[n]) = n - 1 /\ Below(R, S, q[m]) = m - 1
    BY <1>2
  <2>3. <<q[n], q[m]>> \in R <=> n - 1 < m - 1
    BY <2>2, BelowTellsOrder
  <2> QED  BY <2>1, <2>2, <2>3
<1>6. ASSUME NEW c \in S
      PROVE  /\ Below(R, S, c) + 1 \in DOMAIN q
             /\ q[Below(R, S, c) + 1] = c
  <2> DEFINE b == Below(R, S, c)
  <2>1. b \in 0..(Cardinality(S) - 1)
    BY BelowIsBounded
  <2> HIDE DEF b
  <2>2. b + 1 \in 1..Cardinality(S) /\ (b + 1) - 1 = b
    BY <1>1, <2>1
  <2>3. q[b + 1] \in S /\ Below(R, S, q[b + 1]) = b
    BY <1>2, <2>2
  <2>4. q[b + 1] = c
    <3>1. Below(R, S, q[b + 1]) = Below(R, S, c)
      BY <2>3 DEF b
    <3> QED  BY <2>3, <3>1, BelowTellsApart
  <2> QED  BY <1>3, <2>2, <2>4 DEF b
<1>7. Range(q) = S
  BY <1>2, <1>3, <1>6 DEF Range
<1> QED  BY <1>2, <1>3, <1>4, <1>5, <1>6, <1>7 DEF InSequence

\* Of the elements of S, n come among the first n, or all do.
LEMMA FirstFew ==
  ASSUME NEW S, IsFiniteSet(S), NEW R, Orders(R, S), NEW n \in Nat
  PROVE  LET F == {c \in S : Below(R, S, c) < n}
         IN  /\ IsFiniteSet(F)
             /\ Cardinality(F) = IF Cardinality(S) < n THEN Cardinality(S) ELSE n
<1> DEFINE k == IF Cardinality(S) < n THEN Cardinality(S) ELSE n
           F == {c \in S : Below(R, S, c) < n}
           f == [c \in F |-> Below(R, S, c) + 1]
<1>1. Cardinality(S) \in Nat
  BY FS_CardinalityType
<1>2. k \in Nat /\ k <= n /\ k <= Cardinality(S)
  BY <1>1
<1>3. IsFiniteSet(F)
  BY FS_Subset
<1>4. f \in [F -> 1..k]
  <2> SUFFICES ASSUME NEW c \in F PROVE Below(R, S, c) + 1 \in 1..k
    OBVIOUS
  <2>1. Below(R, S, c) \in 0..(Cardinality(S) - 1) /\ Below(R, S, c) < n
    BY BelowIsBounded
  <2> QED  BY <1>1, <2>1
<1>5. \A c, e \in F : f[c] = f[e] => c = e
  <2> SUFFICES ASSUME NEW c \in F, NEW e \in F, Below(R, S, c) + 1 = Below(R, S, e) + 1
               PROVE  c = e
    OBVIOUS
  <2>1. Below(R, S, c) \in Nat /\ Below(R, S, e) \in Nat
    BY BelowTellsOrder
  <2>2. Below(R, S, c) = Below(R, S, e)
    BY <2>1
  <2> QED  BY <2>2, BelowTellsApart
<1>6. ASSUME NEW i \in 1..k PROVE \E c \in F : f[c] = i
  <2>1. i - 1 \in 0..(Cardinality(S) - 1) /\ i - 1 < n /\ (i - 1) + 1 = i
    BY <1>1, <1>2
  <2>2. PICK c \in S : Below(R, S, c) = i - 1
    BY <2>1, BelowIsOnto
  <2> QED  BY <2>1, <2>2
<1> HIDE DEF k, F, f
<1>7. f \in Bijection(F, 1..k)
  BY <1>4, <1>5, <1>6 DEF Bijection, Injection, Surjection, IsInjective
<1>8. Cardinality(1..k) = Cardinality(F)
  BY <1>3, <1>7, FS_Bijection DEF ExistsBijection
<1>9. Cardinality(1..k) = k
  BY <1>2, FS_Interval
<1> QED  BY <1>3, <1>8, <1>9 DEF k, F

\* An injective function counts its arguments.
LEMMA CountedByImages ==
  ASSUME NEW A, IsFiniteSet(A), NEW f, A \subseteq DOMAIN f,
         \A x, y \in A : f[x] = f[y] => x = y
  PROVE  LET B == {f[x] : x \in A} IN IsFiniteSet(B) /\ Cardinality(B) = Cardinality(A)
<1> DEFINE B == {f[x] : x \in A}
           g == [x \in A |-> f[x]]
<1>1. g \in Bijection(A, B)
  BY DEF Bijection, Injection, Surjection, IsInjective
<1> HIDE DEF B, g
<1>2. ExistsBijection(A, B)
  BY <1>1 DEF ExistsBijection
<1>3. IsFiniteSet(B) /\ Cardinality(B) = Cardinality(A)
  BY <1>2, FS_Bijection
<1> QED  BY <1>3 DEF B

-----------------------------------------------------------------------------
(* The lists of the model.                                                 *)

Rising(S) == {p \in S \X S : p[1] < p[2]}

LEMMA NaturalsRise ==
  ASSUME NEW S \in SUBSET Nat
  PROVE  /\ Orders(Rising(S), S)
         /\ \A c \in S : Below(Rising(S), S, c) = Cardinality({d \in S : d < c})
         /\ \A c, d \in S : <<d, c>> \in Rising(S) <=> d < c
<1>1. \A c, d \in S : <<d, c>> \in Rising(S) <=> d < c
  BY DEF Rising
<1>2. \A c \in S : Below(Rising(S), S, c) = Cardinality({d \in S : d < c})
  <2> TAKE c \in S
  <2>1. {d \in S : <<d, c>> \in Rising(S)} = {d \in S : d < c}
    BY <1>1
  <2> QED  BY <2>1 DEF Below
<1>3. Orders(Rising(S), S)
  <2> SUFFICES ASSUME NEW c \in S, NEW d \in S, NEW e \in S
               PROVE  /\ <<c, c>> \notin Rising(S)
                      /\ c # d => <<c, d>> \in Rising(S) \/ <<d, c>> \in Rising(S)
                      /\ <<c, d>> \in Rising(S) /\ <<d, e>> \in Rising(S)
                           => <<c, e>> \in Rising(S)
    BY DEF Orders
  <2>1. c \in Nat /\ d \in Nat /\ e \in Nat
    OBVIOUS
  <2> QED  BY <1>1, <2>1
<1> QED  BY <1>1, <1>2, <1>3

LEMMA InOrderProperties ==
  ASSUME NEW S \in SUBSET Nat, IsFiniteSet(S)
  PROVE  /\ InSequence(InOrder(S), Rising(S), S)
         /\ \A n, m \in DOMAIN InOrder(S) : InOrder(S)[n] < InOrder(S)[m] <=> n < m
<1> DEFINE q == InOrder(S)
<1>1. Orders(Rising(S), S)
  BY NaturalsRise
<1>2. Enumerates(q, Rising(S), S)
  <2>1. ASSUME NEW n \in 1..Cardinality(S)
        PROVE  q[n] \in S /\ Below(Rising(S), S, q[n]) = n - 1
    <3>1. \E c \in S : Below(Rising(S), S, c) = n - 1
      BY <1>1, PlacesAreFound
    <3>2. \E c \in S : Cardinality({d \in S : d < c}) = n - 1
      BY <3>1, NaturalsRise
    <3>3. q[n] = CHOOSE c \in S : Cardinality({d \in S : d < c}) = n - 1
      BY DEF InOrder
    <3>4. q[n] \in S /\ Cardinality({d \in S : d < q[n]}) = n - 1
      BY <3>2, <3>3
    <3> QED  BY <3>4, NaturalsRise
  <2>2. q = [n \in 1..Cardinality(S) |->
               CHOOSE c \in S : Cardinality({d \in S : d < c}) = n - 1]
    BY DEF InOrder
  <2>3. DOMAIN q = 1..Cardinality(S) /\ q = [n \in DOMAIN q |-> q[n]]
    BY <2>2
  <2> HIDE DEF q
  <2> QED  BY <2>1, <2>3 DEF Enumerates
<1> HIDE DEF q
<1>3. InSequence(q, Rising(S), S)
  BY <1>1, <1>2, OrderedSequence
<1>4. \A n, m \in DOMAIN q : q[n] < q[m] <=> n < m
  BY <1>3, NaturalsRise DEF InSequence
<1> QED  BY <1>3, <1>4 DEF q

LEMMA AtProperties ==
  ASSUME NEW s \in Seq(Classes), NEW I \in SUBSET DOMAIN s
  PROVE  /\ I \in SUBSET Nat /\ IsFiniteSet(I) /\ Cardinality(I) \in Nat
         /\ At(s)[I] = [n \in 1..Cardinality(I) |-> s[InOrder(I)[n]]]
         /\ At(s)[I] \in Seq(Classes) /\ Len(At(s)[I]) = Cardinality(I)
<1>1. I \in SUBSET Nat /\ IsFiniteSet(I)
  <2>1. DOMAIN s = 1..Len(s) /\ Len(s) \in Nat
    OBVIOUS
  <2>2. IsFiniteSet(1..Len(s))
    BY <2>1, FS_Interval
  <2> QED  BY <2>1, <2>2, FS_Subset
<1>2. Cardinality(I) \in Nat
  BY <1>1, FS_CardinalityType
<1>3. DOMAIN InOrder(I) = 1..Cardinality(I) /\ \A n \in DOMAIN InOrder(I) : InOrder(I)[n] \in I
  BY <1>1, InOrderProperties DEF InSequence
<1>4. At(s)[I] = [n \in 1..Cardinality(I) |-> s[InOrder(I)[n]]]
  BY <1>1, <1>3 DEF At
<1>5. \A n \in 1..Cardinality(I) : s[InOrder(I)[n]] \in Classes
  BY <1>3
<1> QED  BY <1>1, <1>2, <1>4, <1>5

\* The positions that pass the counter of their endpoint, those of them that are
\* taken, and the list they make.
Passed(s, limit) ==
  {i \in DOMAIN s :
     Cardinality({j \in 1..(i - 1) : Endpoint(s[j]) = Endpoint(s[i])}) < limit}
Taken(s, limit, most) ==
  {i \in Passed(s, limit) :
     Below(Rising(Passed(s, limit)), Passed(s, limit), i) < most}
Listed(s, limit, most) == Take(FirstPerEndpoint(limit)[s], most)

LEMMA ListIsTaken ==
  ASSUME NEW s \in Seq(Classes), NEW limit \in Nat \ {0}, NEW most \in Nat \ {0},
         NEW L, L = Listed(s, limit, most), NEW T, T = Taken(s, limit, most)
  PROVE  /\ L \in Seq(Classes) /\ Len(L) <= most
         /\ IsFiniteSet(T) /\ Cardinality(T) = Len(L)
         /\ \E f \in [1..Len(L) -> T] :
              /\ \A n \in 1..Len(L) : L[n] = s[f[n]]
              /\ \A n, m \in 1..Len(L) : f[n] = f[m] => n = m
              /\ \A i \in T : \E n \in 1..Len(L) : f[n] = i
<1> DEFINE P == Passed(s, limit)
           q == At(s)[P]
           c == Cardinality(P)
           k == IF c < most THEN c ELSE most
<1>1. P \in SUBSET DOMAIN s
  BY DEF Passed
<1>2. /\ P \in SUBSET Nat /\ IsFiniteSet(P) /\ c \in Nat
      /\ q = [n \in 1..c |-> s[InOrder(P)[n]]]
      /\ q \in Seq(Classes) /\ Len(q) = c
  BY <1>1, AtProperties
<1>3. FirstPerEndpoint(limit)[s] = q
  BY DEF FirstPerEndpoint, Passed
<1>4. k \in Nat /\ k <= c /\ k <= most
  BY <1>2
<1>5. L = SubSeq(q, 1, k)
  BY <1>2, <1>3 DEF Listed, Take
<1>6. /\ DOMAIN InOrder(P) = 1..c
      /\ \A n \in 1..c : InOrder(P)[n] \in P /\ Below(Rising(P), P, InOrder(P)[n]) = n - 1
      /\ \A n, m \in 1..c : InOrder(P)[n] = InOrder(P)[m] => n = m
      /\ \A i \in P : /\ Below(Rising(P), P, i) + 1 \in 1..c
                      /\ InOrder(P)[Below(Rising(P), P, i) + 1] = i
  <2> HIDE DEF P
  <2>1. InSequence(InOrder(P), Rising(P), P)
    BY <1>2, InOrderProperties
  <2> QED  BY <2>1 DEF InSequence
<1>7. Orders(Rising(P), P)
  BY <1>2, NaturalsRise
<1>8. IsFiniteSet(T) /\ Cardinality(T) = k
  BY <1>2, <1>7, FirstFew DEF Taken
<1>9. T = {i \in P : Below(Rising(P), P, i) < most}
  BY DEF Taken
<1>10. \A i \in P : Below(Rising(P), P, i) \in Nat
  BY <1>2, <1>7, BelowIsBounded
<1> DEFINE g == InOrder(P)
<1> HIDE DEF P, q, k, g
<1>11. L \in Seq(Classes) /\ Len(L) = k /\ \A n \in 1..k : L[n] = s[g[n]]
  <2>1. \A n \in 1..k : q[n] \in Classes /\ q[n] = s[g[n]]
    BY <1>2, <1>4 DEF g
  <2>2. /\ SubSeq(q, 1, k) \in Seq(Classes) /\ Len(SubSeq(q, 1, k)) = k
        /\ \A n \in 1..k : SubSeq(q, 1, k)[n] = q[n]
    <3>1. \A i \in 1..k : q[i] \in Classes
      BY <2>1
    <3>2. 1 \in Int /\ k \in Int
      BY <1>4
    <3>3. /\ SubSeq(q, 1, k) \in Seq(Classes)
          /\ Len(SubSeq(q, 1, k)) = IF 1 <= k THEN k - 1 + 1 ELSE 0
          /\ \A i \in 1..(k - 1 + 1) : SubSeq(q, 1, k)[i] = q[1 + i - 1]
      BY <3>1, <3>2, SubSeqProperties
    <3> QED  BY <1>4, <3>3
  <2> QED  BY <1>5, <2>1, <2>2
<1> DEFINE f == [n \in 1..k |-> g[n]]
<1>12. \A n \in 1..k : n \in 1..c /\ g[n] \in T
  <2> SUFFICES ASSUME NEW n \in 1..k PROVE n \in 1..c /\ g[n] \in T
    OBVIOUS
  <2>1. n \in 1..c /\ n - 1 < most
    BY <1>2, <1>4
  <2> QED  BY <1>6, <1>9, <2>1 DEF g
<1>13. f \in [1..k -> T] /\ \A n, m \in 1..k : f[n] = f[m] => n = m
  BY <1>6, <1>12 DEF g
<1>14. ASSUME NEW i \in T PROVE \E n \in 1..k : f[n] = i
  <2> DEFINE b == Below(Rising(P), P, i) + 1
  <2>1. i \in P /\ Below(Rising(P), P, i) < most /\ Below(Rising(P), P, i) \in Nat
    BY <1>9, <1>10
  <2>2. b \in 1..c /\ g[b] = i
    BY <1>6, <2>1 DEF g
  <2>3. b \in 1..k
    BY <1>2, <2>1, <2>2 DEF k
  <2> QED  BY <2>2, <2>3
<1> HIDE DEF f
<1>15. \A n \in 1..k : L[n] = s[f[n]]
  BY <1>11 DEF f
<1> QED  BY <1>4, <1>8, <1>11, <1>13, <1>14, <1>15

\* The positions of an endpoint.
PlacesOf(s, e) == {i \in DOMAIN s : Endpoint(s[i]) = e}

LEMMA PlacesAreNaturals ==
  ASSUME NEW s \in Seq(Classes), NEW P \in SUBSET DOMAIN s
  PROVE  /\ P \in SUBSET Nat /\ IsFiniteSet(P) /\ Cardinality(P) \in Nat
         /\ Orders(Rising(P), P)
         /\ \A c, d \in P : <<d, c>> \in Rising(P) <=> d < c
BY AtProperties, NaturalsRise

\* The counter of an endpoint lets its first limit positions pass.
LEMMA FirstOfEndpoint ==
  ASSUME NEW s \in Seq(Classes), NEW limit \in Nat, NEW e
  PROVE  {i \in Passed(s, limit) : Endpoint(s[i]) = e}
           = {i \in PlacesOf(s, e) : Below(Rising(PlacesOf(s, e)), PlacesOf(s, e), i) < limit}
<1> DEFINE E == PlacesOf(s, e)
<1>1. E \in SUBSET DOMAIN s
  BY DEF PlacesOf
<1>2. ASSUME NEW i \in E
      PROVE  Cardinality({j \in 1..(i - 1) : Endpoint(s[j]) = Endpoint(s[i])})
               = Below(Rising(E), E, i)
  <2>1. DOMAIN s = 1..Len(s) /\ Len(s) \in Nat /\ i \in 1..Len(s) /\ Endpoint(s[i]) = e
    BY DEF PlacesOf
  <2>2. {d \in E : <<d, i>> \in Rising(E)} = {d \in E : d < i}
    BY <1>1, PlacesAreNaturals
  <2>3. {d \in E : d < i} = {j \in 1..(i - 1) : Endpoint(s[j]) = e}
    BY <2>1 DEF PlacesOf
  <2> QED  BY <2>1, <2>2, <2>3 DEF Below
<1> QED  BY <1>2 DEF Passed, PlacesOf

LEMMA EndpointIsBounded ==
  ASSUME NEW s \in Seq(Classes), NEW limit \in Nat, NEW e
  PROVE  LET F == {i \in Passed(s, limit) : Endpoint(s[i]) = e}
         IN  IsFiniteSet(F) /\ Cardinality(F) \in Nat /\ Cardinality(F) <= limit
<1> DEFINE E == PlacesOf(s, e)
           F == {i \in E : Below(Rising(E), E, i) < limit}
<1>1. E \in SUBSET DOMAIN s
  BY DEF PlacesOf
<1> HIDE DEF E
<1>2. IsFiniteSet(E) /\ Cardinality(E) \in Nat /\ Orders(Rising(E), E)
  BY <1>1, PlacesAreNaturals
<1>3. IsFiniteSet(F) /\ Cardinality(F) = IF Cardinality(E) < limit THEN Cardinality(E) ELSE limit
  BY <1>2, FirstFew
<1>4. Cardinality(F) \in Nat /\ Cardinality(F) <= limit
  BY <1>2, <1>3
<1> QED  BY <1>3, <1>4, FirstOfEndpoint DEF E

\* A position that passed and is not taken found the list full.
LEMMA FullBefore ==
  ASSUME NEW s \in Seq(Classes), NEW limit \in Nat, NEW most \in Nat,
         NEW p \in Passed(s, limit) \ Taken(s, limit, most)
  PROVE  /\ Cardinality(Taken(s, limit, most)) = most
         /\ \A i \in Taken(s, limit, most) : i < p
<1> DEFINE P == Passed(s, limit)
           T == Taken(s, limit, most)
<1>1. P \in SUBSET DOMAIN s
  BY DEF Passed
<1>2. T = {i \in P : Below(Rising(P), P, i) < most}
  BY DEF Taken
<1> HIDE DEF P, T
<1>3. /\ IsFiniteSet(P) /\ Cardinality(P) \in Nat /\ Orders(Rising(P), P)
      /\ \A c, d \in P : <<d, c>> \in Rising(P) <=> d < c
  BY <1>1, PlacesAreNaturals
<1>4. p \in P /\ ~(Below(Rising(P), P, p) < most)
  BY <1>2 DEF P, T
<1>5. Below(Rising(P), P, p) \in 0..(Cardinality(P) - 1)
  BY <1>3, <1>4, BelowIsBounded
<1>6. Cardinality(T) = IF Cardinality(P) < most THEN Cardinality(P) ELSE most
  BY <1>2, <1>3, FirstFew
<1>7. Cardinality(T) = most
  BY <1>3, <1>4, <1>5, <1>6
<1>8. ASSUME NEW i \in T PROVE i < p
  <2>1. i \in P /\ Below(Rising(P), P, i) < most
    BY <1>2
  <2>2. Below(Rising(P), P, i) \in Nat /\ Below(Rising(P), P, p) \in Nat
    BY <1>3, <1>4, <2>1, BelowIsBounded
  <2>3. Below(Rising(P), P, i) < Below(Rising(P), P, p)
    BY <1>4, <2>1, <2>2
  <2>4. <<i, p>> \in Rising(P)
    BY <1>3, <1>4, <2>1, <2>3, BelowTellsOrder
  <2> QED  BY <1>3, <1>4, <2>1, <2>4
<1> QED  BY <1>7, <1>8 DEF T

\* A position is left out because the list was full before it, or its endpoint.
LEMMA LeftOut ==
  ASSUME NEW s \in Seq(Classes), NEW limit \in Nat, NEW most \in Nat,
         NEW k \in DOMAIN s, k \notin Taken(s, limit, most)
  PROVE  \/ Cardinality({i \in Taken(s, limit, most) : i < k}) = most
         \/ Cardinality({i \in Taken(s, limit, most) :
                           i < k /\ Endpoint(s[i]) = Endpoint(s[k])}) = limit
<1> DEFINE P == Passed(s, limit)
           T == Taken(s, limit, most)
           e == Endpoint(s[k])
           E == PlacesOf(s, e)
           F == {i \in E : Below(Rising(E), E, i) < limit}
<1>1. T \subseteq P /\ P \subseteq DOMAIN s /\ DOMAIN s \in SUBSET Nat
  BY DEF Taken, Passed
<1>2. CASE k \in P
  <2>1. Cardinality(T) = most /\ \A i \in T : i < k
    BY <1>2, FullBefore
  <2>2. {i \in T : i < k} = T
    BY <2>1
  <2> QED  BY <2>1, <2>2
<1>3. CASE k \notin P
  <2>1. E \in SUBSET DOMAIN s /\ k \in E
    BY DEF PlacesOf
  <2>2. F = {i \in P : Endpoint(s[i]) = e}
    BY FirstOfEndpoint
  <2> HIDE DEF P, T, e, E
  <2>3. /\ IsFiniteSet(E) /\ Cardinality(E) \in Nat /\ Orders(Rising(E), E)
        /\ \A c, d \in E : <<d, c>> \in Rising(E) <=> d < c
    BY <2>1, PlacesAreNaturals
  <2>4. ~(Below(Rising(E), E, k) < limit)
    <3>1. k \notin F
      BY <1>3, <2>2
    <3> QED  BY <2>1, <3>1
  <2>5. Below(Rising(E), E, k) \in 0..(Cardinality(E) - 1)
    BY <2>1, <2>3, BelowIsBounded
  <2>6. IsFiniteSet(F)
        /\ Cardinality(F) = IF Cardinality(E) < limit THEN Cardinality(E) ELSE limit
    <3>1. IsFiniteSet(E) /\ Orders(Rising(E), E)
      BY <2>3
    <3> QED  BY <3>1, FirstFew
  <2>7. Cardinality(F) = limit
    BY <2>3, <2>4, <2>5, <2>6
  <2>8. ASSUME NEW i \in F PROVE i < k
    <3>1. Below(Rising(E), E, i) \in Nat /\ i \in E /\ Below(Rising(E), E, i) < limit
      BY <2>3, BelowIsBounded
    <3>2. Below(Rising(E), E, i) < Below(Rising(E), E, k)
      BY <2>4, <2>5, <3>1
    <3>3. <<i, k>> \in Rising(E)
      BY <2>1, <2>3, <3>1, <3>2, BelowTellsOrder
    <3> QED  BY <2>1, <2>3, <3>1, <3>3
  <2> HIDE DEF F
  <2>9. CASE F \subseteq T
    <3>1. {i \in T : i < k /\ Endpoint(s[i]) = e} = F
      BY <1>1, <2>2, <2>8, <2>9
    <3> QED  BY <2>7, <3>1 DEF T, e
  <2>10. CASE ~(F \subseteq T)
    <3>1. PICK p \in F : p \notin T
      BY <2>10
    <3>2. p \in P /\ p < k
      BY <2>2, <2>8, <3>1
    <3>3. Cardinality(T) = most /\ \A i \in T : i < p
      BY <3>1, <3>2, FullBefore DEF P, T
    <3>4. {i \in T : i < k} = T
      <4>1. \A i \in T : i \in Nat
        BY <1>1
      <4>2. k \in Nat /\ p \in Nat
        BY <1>1, <3>2
      <4> QED  BY <3>2, <3>3, <4>1, <4>2
    <3> QED  BY <3>3, <3>4 DEF T
  <2> QED  BY <2>9, <2>10
<1> QED  BY <1>2, <1>3

\* What is listed: the limits are kept, and what is left out met one of them.
LEMMA ListKeepsLimits ==
  ASSUME NEW s \in Seq(Classes), NEW limit \in Nat \ {0}, NEW most \in Nat \ {0},
         NEW L, L = Listed(s, limit, most)
  PROVE  /\ L \in Seq(Classes) /\ Len(L) \in Nat /\ Len(L) <= most
         /\ Range(L) = {s[i] : i \in Taken(s, limit, most)}
         /\ IsInjective(s) => IsInjective(L)
         /\ \A c : AtEndpoint(L, c) <= limit
         /\ \A k \in DOMAIN s :
              Contains(L, s[k]) \/ Len(L) = most \/ AtEndpoint(L, s[k]) = limit
<1> DEFINE T == Taken(s, limit, most)
           P == Passed(s, limit)
           len == Len(L)
<1>1. /\ L \in Seq(Classes) /\ len <= most /\ IsFiniteSet(T) /\ Cardinality(T) = len
      /\ \E f \in [1..len -> T] :
           /\ \A n \in 1..len : L[n] = s[f[n]]
           /\ \A n, m \in 1..len : f[n] = f[m] => n = m
           /\ \A i \in T : \E n \in 1..len : f[n] = i
  BY ListIsTaken
<1>2. T \subseteq P /\ P \subseteq DOMAIN s /\ len \in Nat /\ DOMAIN L = 1..len
  BY <1>1 DEF Taken, Passed
<1> HIDE DEF T, P, len
<1>3. PICK f \in [1..len -> T] :
        /\ \A n \in 1..len : L[n] = s[f[n]]
        /\ \A n, m \in 1..len : f[n] = f[m] => n = m
        /\ \A i \in T : \E n \in 1..len : f[n] = i
  BY <1>1
<1>4. Range(L) = {s[i] : i \in T}
  <2>1. ASSUME NEW n \in 1..len PROVE L[n] \in {s[i] : i \in T}
    BY <1>3
  <2>2. ASSUME NEW i \in T PROVE s[i] \in Range(L)
    <3>1. PICK n \in 1..len : f[n] = i
      BY <1>3
    <3>2. L[n] = s[i]
      BY <1>3, <3>1
    <3> QED  BY <1>2, <3>2 DEF Range
  <2> QED  BY <1>2, <2>1, <2>2 DEF Range
<1>5. ASSUME IsInjective(s) PROVE IsInjective(L)
  <2> SUFFICES ASSUME NEW n \in 1..len, NEW m \in 1..len, L[n] = L[m] PROVE n = m
    BY <1>2 DEF IsInjective
  <2>1. s[f[n]] = s[f[m]] /\ f[n] \in DOMAIN s /\ f[m] \in DOMAIN s
    BY <1>2, <1>3
  <2>2. f[n] = f[m]
    BY <1>5, <2>1 DEF IsInjective
  <2> QED  BY <1>3, <2>2
<1>6. ASSUME NEW c
      PROVE  LET G == {i \in T : Endpoint(s[i]) = Endpoint(c)}
             IN  AtEndpoint(L, c) = Cardinality(G) /\ Cardinality(G) \in Nat
                 /\ IsFiniteSet(G) /\ Cardinality(G) <= limit
  <2> DEFINE e == Endpoint(c)
             A == {n \in DOMAIN L : Endpoint(L[n]) = e}
             G == {i \in T : Endpoint(s[i]) = e}
             H == {i \in P : Endpoint(s[i]) = e}
  <2>1. IsFiniteSet(H) /\ Cardinality(H) \in Nat /\ Cardinality(H) <= limit
    BY EndpointIsBounded DEF P
  <2>2. G \subseteq H
    BY <1>2
  <2>3. IsFiniteSet(G) /\ Cardinality(G) <= Cardinality(H) /\ Cardinality(G) \in Nat
    BY <2>1, <2>2, FS_Subset, FS_CardinalityType
  <2>4. A \subseteq 1..len /\ IsFiniteSet(A)
    <3>1. A \subseteq 1..len
      BY <1>2
    <3>2. IsFiniteSet(1..len)
      BY <1>2, FS_Interval
    <3> QED  BY <3>1, <3>2, FS_Subset
  <2>5. {f[n] : n \in A} = G
    <3>1. ASSUME NEW n \in A PROVE f[n] \in G
      BY <1>2, <1>3
    <3>2. ASSUME NEW i \in G PROVE i \in {f[n] : n \in A}
      <4>1. PICK n \in 1..len : f[n] = i
        BY <1>3
      <4>2. n \in A
        BY <1>2, <1>3, <4>1
      <4> QED  BY <4>1, <4>2
    <3> QED  BY <3>1, <3>2
  <2>6. Cardinality(A) = Cardinality(G)
    <3>1. A \subseteq DOMAIN f /\ \A x, y \in A : f[x] = f[y] => x = y
      BY <1>3, <2>4
    <3> HIDE DEF A, G
    <3>2. Cardinality({f[n] : n \in A}) = Cardinality(A)
      BY <2>4, <3>1, CountedByImages
    <3> QED  BY <2>5, <3>2
  <2> QED  BY <2>1, <2>3, <2>6 DEF AtEndpoint
<1>7. ASSUME NEW k \in DOMAIN s
      PROVE  Contains(L, s[k]) \/ Len(L) = most \/ AtEndpoint(L, s[k]) = limit
  <2>1. CASE k \in T
    <3>1. s[k] \in Range(L)
      BY <1>4, <2>1
    <3> QED  BY <1>2, <3>1 DEF Range, Contains, len
  <2>2. CASE k \notin T
    <3> DEFINE X == {i \in T : i < k}
               Y == {i \in T : i < k /\ Endpoint(s[i]) = Endpoint(s[k])}
               G == {i \in T : Endpoint(s[i]) = Endpoint(s[k])}
    <3>1. Cardinality(X) = most \/ Cardinality(Y) = limit
      BY <2>2, LeftOut DEF T
    <3>2. X \subseteq T /\ Y \subseteq G
      OBVIOUS
    <3>3. /\ AtEndpoint(L, s[k]) = Cardinality(G) /\ Cardinality(G) \in Nat
          /\ IsFiniteSet(G) /\ Cardinality(G) <= limit
      BY <1>6
    <3> HIDE DEF X, Y, G
    <3>4. Cardinality(X) <= len /\ Cardinality(Y) <= Cardinality(G)
      BY <1>1, <3>2, <3>3, FS_Subset DEF T, len
    <3> QED  BY <1>1, <1>2, <3>1, <3>3, <3>4 DEF len
  <2> QED  BY <2>1, <2>2
<1>8. \A c : AtEndpoint(L, c) <= limit
  BY <1>6
<1> QED  BY <1>1, <1>2, <1>4, <1>5, <1>7, <1>8 DEF T, len

\* Nothing that comes later in a list of distinct candidates takes a place from
\* what comes earlier.
LEMMA EarlierGoFirst ==
  ASSUME NEW s \in Seq(Classes), NEW limit \in Nat \ {0}, NEW most \in Nat \ {0},
         IsInjective(s), NEW L, L = Listed(s, limit, most), NEW k \in DOMAIN s
  PROVE  LET X == {s[j] : j \in 1..(k - 1)} \cap Range(L)
         IN  \/ Contains(L, s[k])
             \/ Cardinality(X) = most
             \/ Cardinality({d \in X : Endpoint(d) = Endpoint(s[k])}) = limit
<1> DEFINE T == Taken(s, limit, most)
           X == {s[j] : j \in 1..(k - 1)} \cap Range(L)
           A == {i \in T : i < k}
           B == {i \in T : i < k /\ Endpoint(s[i]) = Endpoint(s[k])}
           Y == {d \in X : Endpoint(d) = Endpoint(s[k])}
<1>1. L \in Seq(Classes) /\ Range(L) = {s[i] : i \in T}
  BY ListKeepsLimits
<1>2. /\ DOMAIN s = 1..Len(s) /\ Len(s) \in Nat /\ k \in 1..Len(s)
      /\ T \subseteq DOMAIN s /\ IsFiniteSet(T)
  <2>1. T \subseteq DOMAIN s
    BY DEF Taken, Passed
  <2>2. IsFiniteSet(T)
    BY ListIsTaken
  <2> QED  BY <2>1, <2>2
<1> HIDE DEF T
<1>3. CASE k \in T
  <2>1. s[k] \in Range(L)
    BY <1>1, <1>3
  <2> QED  BY <1>1, <2>1 DEF Range, Contains
<1>4. CASE k \notin T
  <2>1. Cardinality(A) = most \/ Cardinality(B) = limit
    BY <1>4, LeftOut DEF T
  <2>2. X = {s[i] : i \in A}
    <3>1. ASSUME NEW i \in A PROVE s[i] \in X
      <4>1. i \in 1..(k - 1) /\ i \in T
        BY <1>2
      <4> QED  BY <1>1, <4>1
    <3>2. ASSUME NEW d \in X PROVE d \in {s[i] : i \in A}
      <4>1. PICK j \in 1..(k - 1) : d = s[j]
        OBVIOUS
      <4>2. PICK i \in T : d = s[i]
        BY <1>1
      <4>3. j \in DOMAIN s /\ i \in DOMAIN s
        BY <1>2
      <4>4. i = j
        BY <4>1, <4>2, <4>3 DEF IsInjective
      <4>5. i < k
        BY <1>2, <4>1, <4>4
      <4> QED  BY <4>2, <4>5
    <3> QED  BY <3>1, <3>2
  <2>3. Y = {s[i] : i \in B}
    BY <2>2
  <2>4. A \subseteq DOMAIN s /\ B \subseteq DOMAIN s /\ IsFiniteSet(A) /\ IsFiniteSet(B)
    BY <1>2, FS_Subset
  <2> HIDE DEF A, B, X, Y
  <2>5. \A x, y \in DOMAIN s : s[x] = s[y] => x = y
    BY DEF IsInjective
  <2>6. Cardinality({s[i] : i \in A}) = Cardinality(A)
    BY <2>4, <2>5, CountedByImages
  <2>7. Cardinality({s[i] : i \in B}) = Cardinality(B)
    BY <2>4, <2>5, CountedByImages
  <2> QED  BY <2>1, <2>2, <2>3, <2>6, <2>7 DEF X, Y
<1> QED  BY <1>3, <1>4

-----------------------------------------------------------------------------
(* The transport test.                                                     *)

Networks == [Hosts -> {Never} \cup Latencies]

LEMMA LatencyIsCounted ==
  ASSUME NEW net \in Networks, NEW c \in Classes
  PROVE  /\ TransportLatency(c, net) \in Nat
         /\ Endpoint(c) = NoEndpoint => TransportLatency(c, net) = Never
         /\ NeedsCoreOnly(c) => TransportLatency(c, net) = Never
<1>1. \A h \in Hosts : net[h] \in Nat
  <2>1. {Never} \cup Latencies \subseteq Nat
    BY CollectorAssumption DEF Never
  <2> QED  BY <2>1 DEF Networks
<1>2. Endpoint(c) # NoEndpoint => Config[c].endpoint \in Hosts /\ Config[c].handshake \in Hosts
  <2>1. ASSUME NEW h \in {Config[c].endpoint, Config[c].handshake}, h # NoEndpoint
        PROVE  h \in Hosts
    <3> DEFINE all == {{Config[d].endpoint, Config[d].handshake} : d \in Classes}
    <3>1. Hosts = (UNION all) \ {NoEndpoint}
      BY DEF Hosts
    <3>2. {Config[c].endpoint, Config[c].handshake} \in all
      OBVIOUS
    <3> HIDE DEF all
    <3> QED  BY <2>1, <3>1, <3>2
  <2> QED  BY <2>1, HandshakeAssumption DEF Endpoint
<1>3. CASE Scheme(c) \in {"hysteria", "hysteria2"}
  <2>1. TransportLatency(c, net) = QuicLatency(c, net)
    BY <1>3 DEF TransportLatency
  <2> QED  BY <1>1, <1>2, <2>1 DEF QuicLatency, Never
<1>4. CASE Scheme(c) = "wg"
  <2>1. TransportLatency(c, net) = WireGuardLatency(c, net)
    BY <1>4 DEF TransportLatency
  <2> QED  BY <1>1, <1>2, <1>4, <2>1 DEF WireGuardLatency, Never, NeedsCoreOnly
<1>5. CASE Scheme(c) \notin {"hysteria", "hysteria2", "wg"}
  <2>1. TransportLatency(c, net) = TcpLatency(c, net)
    BY <1>5 DEF TransportLatency
  <2> QED  BY <1>1, <1>2, <1>5, <2>1 DEF TcpLatency, Never, NeedsCoreOnly, Endpoint
<1> QED  BY <1>3, <1>4, <1>5

\* What the probe of a candidate depends on is in its key.
LEMMA KeyDecidesVerdict ==
  ASSUME NEW net, NEW c \in Classes, NEW d \in Classes, ProbeKey(d) = ProbeKey(c)
  PROVE  TransportLatency(d, net) = TransportLatency(c, net)
<1> DEFINE Quic(x) == <<Scheme(x), Config[x].handshake, Config[x].features.obfs>>
           WireGuard(x) == <<"wg", x>>
           Tcp(x) == <<"tcp", Endpoint(x)>>
<1>1. \A x : /\ Scheme(x) \in {"hysteria", "hysteria2"} => ProbeKey(x) = Quic(x)
             /\ Scheme(x) = "wg" => ProbeKey(x) = WireGuard(x)
             /\ Scheme(x) \notin {"hysteria", "hysteria2", "wg"} => ProbeKey(x) = Tcp(x)
  BY DEF ProbeKey
<1>2. \A x, y : /\ Quic(x) # WireGuard(y) /\ Quic(x) # Tcp(y) /\ WireGuard(x) # Tcp(y)
                /\ WireGuard(x) = WireGuard(y) => x = y
                /\ Tcp(x) = Tcp(y) => Endpoint(x) = Endpoint(y)
                /\ Quic(x) = Quic(y) => /\ Scheme(x) = Scheme(y)
                                        /\ Config[x].handshake = Config[y].handshake
                                        /\ Config[x].features.obfs = Config[y].features.obfs
  <2> TAKE x, y
  <2>1. Len(Quic(x)) = 3 /\ Len(WireGuard(y)) = 2 /\ Len(Tcp(y)) = 2
    OBVIOUS
  <2>2. Quic(x) # WireGuard(y) /\ Quic(x) # Tcp(y)
    BY <2>1
  <2> QED  BY <2>2
<1> HIDE DEF Quic, WireGuard, Tcp
<1>3. CASE Scheme(c) \in {"hysteria", "hysteria2"}
  <2>1. ProbeKey(c) = Quic(c)
    BY <1>1, <1>3
  <2>2. ProbeKey(d) = Quic(d)
    BY <1>1, <1>2, <2>1
  <2>3. /\ Scheme(d) = Scheme(c) /\ Config[d].handshake = Config[c].handshake
        /\ Config[d].features.obfs = Config[c].features.obfs
    BY <1>2, <2>1, <2>2
  <2>4. Endpoint(d) = Endpoint(c)
    BY <1>3, <2>3, HandshakeAssumption DEF Endpoint, Scheme
  <2> QED  BY <1>3, <2>3, <2>4 DEF TransportLatency, QuicLatency, NeedsCoreOnly
<1>4. CASE Scheme(c) = "wg"
  <2>1. ProbeKey(c) = WireGuard(c)
    BY <1>1, <1>4
  <2>2. ProbeKey(d) = WireGuard(d)
    BY <1>1, <1>2, <2>1
  <2> QED  BY <1>2, <2>1, <2>2
<1>5. CASE Scheme(c) \notin {"hysteria", "hysteria2", "wg"}
  <2>1. ProbeKey(c) = Tcp(c)
    BY <1>1, <1>5
  <2>2. ProbeKey(d) = Tcp(d) /\ Scheme(d) \notin {"hysteria", "hysteria2", "wg"}
    BY <1>1, <1>2, <2>1
  <2>3. Endpoint(d) = Endpoint(c)
    BY <1>2, <2>1, <2>2
  <2> QED  BY <1>5, <2>2, <2>3 DEF TransportLatency, TcpLatency, Endpoint
<1> QED  BY <1>3, <1>4, <1>5

\* A finite set of naturals has a least element.
LEMMA LeastExists ==
  ASSUME NEW S \in SUBSET Nat, IsFiniteSet(S), S # {}
  PROVE  \E d \in S : \A e \in S : d <= e
<1>1. Cardinality(S) \in Nat /\ Cardinality(S) # 0
  BY FS_CardinalityType, FS_EmptySet
<1>2. InSequence(InOrder(S), Rising(S), S)
  BY InOrderProperties
<1> DEFINE q == InOrder(S)
<1>3. /\ DOMAIN q = 1..Cardinality(S) /\ Range(q) = S
      /\ \A n, m \in DOMAIN q : q[n] < q[m] <=> n < m
      /\ \A n \in DOMAIN q : q[n] \in S
  BY <1>2, InOrderProperties DEF InSequence
<1> HIDE DEF q
<1>4. 1 \in DOMAIN q
  BY <1>1, <1>3
<1>5. ASSUME NEW e \in S PROVE q[1] <= e
  <2>1. PICK n \in DOMAIN q : q[n] = e
    BY <1>3 DEF Range
  <2>2. ~(n < 1)
    BY <1>1, <1>3, <2>1
  <2>3. q[1] \in Nat /\ e \in Nat /\ ~(e < q[1])
    BY <1>3, <1>4, <2>1, <2>2
  <2> QED  BY <2>3
<1> QED  BY <1>3, <1>4, <1>5

LEMMA TestedIsOwn ==
  ASSUME NEW S \in SUBSET Classes, NEW net
  PROVE  /\ DOMAIN Tested(S, net) = S
         /\ \A c \in S : Tested(S, net)[c] = TransportLatency(c, net)
<1> SUFFICES ASSUME NEW c \in S PROVE Tested(S, net)[c] = TransportLatency(c, net)
  BY DEF Tested
<1> DEFINE group == {d \in S : ProbeKey(d) = ProbeKey(c)}
           first == CHOOSE d \in group : \A e \in group : d <= e
<1>1. group \in SUBSET Nat /\ IsFiniteSet(group) /\ group # {}
  <2>1. group \subseteq Classes /\ c \in group
    OBVIOUS
  <2> HIDE DEF group
  <2> QED  BY <2>1, CollectorAssumption, FS_Subset
<1>2. Tested(S, net)[c] = TransportLatency(first, net)
  BY DEF Tested
<1>3. first \in group
  <2> HIDE DEF group
  <2>1. \E d \in group : \A e \in group : d <= e
    BY <1>1, LeastExists
  <2> QED  BY <2>1
<1> HIDE DEF first
<1>4. first \in Classes /\ ProbeKey(first) = ProbeKey(c) /\ c \in Classes
  BY <1>3
<1>5. TransportLatency(first, net) = TransportLatency(c, net)
  BY <1>4, KeyDecidesVerdict
<1> QED  BY <1>2, <1>5

\* What answered, each once.
Answering(lat) == {c \in DOMAIN lat : lat[c] # Never}

LEMMA RankedProperties ==
  ASSUME NEW lat, DOMAIN lat \subseteq Classes, \A c \in DOMAIN lat : lat[c] \in Nat
  PROVE  /\ RankedBy(lat) \in Seq(Classes) /\ Len(RankedBy(lat)) \in Nat
         /\ Range(RankedBy(lat)) = Answering(lat) /\ IsInjective(RankedBy(lat))
<1> DEFINE S == Answering(lat)
           Before(d, c) == lat[d] < lat[c] \/ (lat[d] = lat[c] /\ d < c)
           R == {p \in S \X S : Before(p[1], p[2])}
           q == RankedBy(lat)
<1>1. S \subseteq Classes /\ S \subseteq Nat /\ IsFiniteSet(S)
  <2>1. S \subseteq Classes
    BY DEF Answering
  <2> HIDE DEF S
  <2> QED  BY <2>1, CollectorAssumption, FS_Subset
<1>2. \A c, d \in S : <<d, c>> \in R <=> Before(d, c)
  OBVIOUS
<1>3. \A c \in S : lat[c] \in Nat /\ c \in Nat
  BY <1>1 DEF Answering
<1>4. q = [n \in 1..Cardinality(S) |->
             CHOOSE c \in S : Cardinality({d \in S : Before(d, c)}) = n - 1]
  BY DEF RankedBy, Answering
<1> HIDE DEF S, R, q
<1>5. Orders(R, S)
  <2> SUFFICES ASSUME NEW c \in S, NEW d \in S
               PROVE  /\ <<c, c>> \notin R
                      /\ c # d => <<c, d>> \in R \/ <<d, c>> \in R
                      /\ \A e \in S : <<c, d>> \in R /\ <<d, e>> \in R => <<c, e>> \in R
    BY DEF Orders
  <2>1. ~Before(c, c)
    BY <1>3
  <2>2. c # d => Before(c, d) \/ Before(d, c)
    BY <1>3
  <2>3. \A e \in S : Before(c, d) /\ Before(d, e) => Before(c, e)
    BY <1>3
  <2> HIDE DEF Before
  <2> QED  BY <1>2, <2>1, <2>2, <2>3
<1>6. \A c \in S : Below(R, S, c) = Cardinality({d \in S : Before(d, c)})
  <2> TAKE c \in S
  <2>1. {d \in S : <<d, c>> \in R} = {d \in S : Before(d, c)}
    BY <1>2
  <2> QED  BY <2>1 DEF Below
<1>7. Enumerates(q, R, S)
  <2>1. ASSUME NEW n \in 1..Cardinality(S)
        PROVE  q[n] \in S /\ Below(R, S, q[n]) = n - 1
    <3>1. \E c \in S : Below(R, S, c) = n - 1
      BY <1>1, <1>5, PlacesAreFound
    <3>2. \E c \in S : Cardinality({d \in S : Before(d, c)}) = n - 1
      BY <1>6, <3>1
    <3>3. q[n] = CHOOSE c \in S : Cardinality({d \in S : Before(d, c)}) = n - 1
      BY <1>4
    <3> HIDE DEF Before
    <3>4. q[n] \in S /\ Cardinality({d \in S : Before(d, q[n])}) = n - 1
      BY <3>2, <3>3
    <3> QED  BY <1>6, <3>4
  <2> DEFINE pick(n) == CHOOSE c \in S : Cardinality({d \in S : Before(d, c)}) = n - 1
  <2>2. q = [n \in 1..Cardinality(S) |-> pick(n)]
    BY <1>4
  <2> HIDE DEF pick
  <2>3. q \in [1..Cardinality(S) -> S]
    BY <2>1, <2>2
  <2> QED  BY <2>1, <2>3 DEF Enumerates
<1>8. InSequence(q, R, S)
  BY <1>1, <1>5, <1>7, OrderedSequence
<1>9. q \in Seq(S) /\ Range(q) = S /\ IsInjective(q)
  BY <1>8 DEF InSequence, IsInjective
<1>10. q \in Seq(Classes) /\ Len(q) \in Nat
  <2>1. q \in [1..Len(q) -> S] /\ Len(q) \in Nat
    BY <1>9
  <2>2. q \in [1..Len(q) -> Classes]
    BY <1>1, <2>1
  <2> QED  BY <2>1, <2>2
<1> QED  BY <1>9, <1>10 DEF S, q

-----------------------------------------------------------------------------
(* The cap.                                                                *)

\* What passes the screening.
Screenable == {c \in Classes : Cheap(Config[c].features)}

LEMMA SchemesAreRanked ==
  ASSUME NEW c \in Screenable
  PROVE  SchemeRank(c) \in 1..9 /\ SchemeOrder[SchemeRank(c)] = Scheme(c)
<1>1. Scheme(c) \in {"hysteria", "hysteria2", "socks", "ss", "trojan", "vless", "vmess", "wg"}
  BY DEF Screenable, Cheap, Scheme
<1>2. \E i \in DOMAIN SchemeOrder : SchemeOrder[i] = Scheme(c)
  BY <1>1 DEF SchemeOrder
<1>3. DOMAIN SchemeOrder = 1..9
  BY DEF SchemeOrder
<1> QED  BY <1>2, <1>3 DEF SchemeRank

\* The candidates of S with the scheme of c, and the pairs in the order of the
\* rounds.
Alike(S, c) == {d \in S : Scheme(d) = Scheme(c)}
Taking(S)   == {p \in S \X S : TakenBefore(p[1], p[2], S)}

LEMMA ScreenedAreCounted ==
  ASSUME NEW S \in SUBSET Screenable
  PROVE  /\ S \in SUBSET Nat /\ S \in SUBSET Classes /\ IsFiniteSet(S)
         /\ \A c : /\ Alike(S, c) \in SUBSET Nat /\ IsFiniteSet(Alike(S, c))
                   /\ Orders(Rising(Alike(S, c)), Alike(S, c))
<1>1. S \in SUBSET Classes
  BY DEF Screenable
<1>2. S \in SUBSET Nat /\ IsFiniteSet(S)
  BY <1>1, CollectorAssumption, FS_Subset
<1>3. ASSUME NEW c
      PROVE  Alike(S, c) \in SUBSET Nat /\ IsFiniteSet(Alike(S, c))
  <2>1. Alike(S, c) \subseteq S
    BY DEF Alike
  <2> QED  BY <1>2, <2>1, FS_Subset
<1> QED  BY <1>1, <1>2, <1>3, NaturalsRise

\* The round of a candidate is its place among those of its scheme.
LEMMA RoundIsPlace ==
  ASSUME NEW S \in SUBSET Screenable, NEW c \in S
  PROVE  /\ Round(c, S) = Below(Rising(Alike(S, c)), Alike(S, c), c)
         /\ Round(c, S) \in Nat /\ c \in Alike(S, c)
         /\ \A d \in S : Scheme(d) = Scheme(c) /\ Round(d, S) = Round(c, S) => d = c
<1> DEFINE A == Alike(S, c)
<1>1. A \in SUBSET Nat /\ IsFiniteSet(A) /\ Orders(Rising(A), A)
  BY ScreenedAreCounted
<1>2. \A d \in S : Scheme(d) = Scheme(c) => d \in A /\ Alike(S, d) = A
  BY DEF Alike
<1>3. ASSUME NEW d \in S, Scheme(d) = Scheme(c)
      PROVE  Round(d, S) = Below(Rising(A), A, d)
  <2>1. {x \in S : Scheme(x) = Scheme(d) /\ x < d} = {x \in A : x < d}
    BY <1>3 DEF Alike
  <2>2. Below(Rising(A), A, d) = Cardinality({x \in A : x < d})
    BY <1>1, <1>2, <1>3, NaturalsRise
  <2> QED  BY <2>1, <2>2 DEF Round
<1> HIDE DEF A
<1>4. c \in A
  BY <1>2
<1>5. Round(c, S) = Below(Rising(A), A, c)
  BY <1>3
<1>6. Round(c, S) \in Nat
  BY <1>1, <1>4, <1>5, BelowIsBounded
<1>7. ASSUME NEW d \in S, Scheme(d) = Scheme(c), Round(d, S) = Round(c, S)
      PROVE  d = c
  <2>1. d \in A /\ Below(Rising(A), A, d) = Below(Rising(A), A, c)
    BY <1>2, <1>3, <1>5, <1>7
  <2> QED  BY <1>1, <1>4, <2>1, BelowTellsApart
<1> QED  BY <1>4, <1>5, <1>6, <1>7 DEF A

LEMMA TakingOrders ==
  ASSUME NEW S \in SUBSET Screenable
  PROVE  /\ Orders(Taking(S), S)
         /\ \A c, d \in S : <<d, c>> \in Taking(S) <=> TakenBefore(d, c, S)
         /\ \A c \in S : Below(Taking(S), S, c) = Cardinality({d \in S : TakenBefore(d, c, S)})
<1>1. \A c, d \in S : <<d, c>> \in Taking(S) <=> TakenBefore(d, c, S)
  BY DEF Taking
<1>2. \A c \in S : Round(c, S) \in Nat /\ SchemeRank(c) \in Nat
  <2> TAKE c \in S
  <2>1. c \in Screenable
    OBVIOUS
  <2> QED  BY <2>1, RoundIsPlace, SchemesAreRanked
<1>3. \A c, d \in S : Round(c, S) = Round(d, S) /\ SchemeRank(c) = SchemeRank(d) => c = d
  <2> SUFFICES ASSUME NEW c \in S, NEW d \in S, Round(c, S) = Round(d, S),
                      SchemeRank(c) = SchemeRank(d)
               PROVE  c = d
    OBVIOUS
  <2>1. c \in Screenable /\ d \in Screenable
    OBVIOUS
  <2>2. Scheme(c) = Scheme(d)
    BY <2>1, SchemesAreRanked
  <2> QED  BY <2>2, RoundIsPlace
<1>4. Orders(Taking(S), S)
  <2> SUFFICES ASSUME NEW c \in S, NEW d \in S
               PROVE  /\ <<c, c>> \notin Taking(S)
                      /\ c # d => <<c, d>> \in Taking(S) \/ <<d, c>> \in Taking(S)
                      /\ \A e \in S : <<c, d>> \in Taking(S) /\ <<d, e>> \in Taking(S)
                           => <<c, e>> \in Taking(S)
    BY DEF Orders
  <2>1. ~TakenBefore(c, c, S)
    BY <1>2 DEF TakenBefore
  <2>2. c # d => TakenBefore(c, d, S) \/ TakenBefore(d, c, S)
    BY <1>2, <1>3 DEF TakenBefore
  <2>3. \A e \in S : TakenBefore(c, d, S) /\ TakenBefore(d, e, S) => TakenBefore(c, e, S)
    BY <1>2 DEF TakenBefore
  <2> QED  BY <1>1, <2>1, <2>2, <2>3
<1>5. ASSUME NEW c \in S
      PROVE  Below(Taking(S), S, c) = Cardinality({d \in S : TakenBefore(d, c, S)})
  <2>1. {d \in S : <<d, c>> \in Taking(S)} = {d \in S : TakenBefore(d, c, S)}
    BY <1>1
  <2> QED  BY <2>1 DEF Below
<1> QED  BY <1>1, <1>4, <1>5

\* The cap is used up, and the protocols share it evenly.
LEMMA CapIsShared ==
  ASSUME NEW S \in SUBSET Screenable, NEW K, K = Capped(S), NEW c \in S \ K
  PROVE  /\ Cardinality(K) = Cap
         /\ \A d \in K : Cardinality(Alike(K, d)) <= Cardinality(Alike(K, c)) + 1
<1> DEFINE T == Taking(S)
<1>1. Cap \in Nat /\ IsFiniteSet(S) /\ Cardinality(S) \in Nat
  BY CollectorAssumption, ScreenedAreCounted, FS_CardinalityType
<1>2. Orders(T, S)
  BY TakingOrders
<1>3. K = {x \in S : Below(T, S, x) < Cap}
  BY TakingOrders DEF Capped
<1> HIDE DEF T
<1>4. Cardinality(K) = Cap /\ IsFiniteSet(K)
  <2>1. Below(T, S, c) \in 0..(Cardinality(S) - 1) /\ ~(Below(T, S, c) < Cap)
    BY <1>1, <1>2, <1>3, BelowIsBounded
  <2>2. /\ IsFiniteSet(K)
        /\ Cardinality(K) = IF Cardinality(S) < Cap THEN Cardinality(S) ELSE Cap
    BY <1>1, <1>2, <1>3, FirstFew
  <2> QED  BY <1>1, <2>1, <2>2
<1>5. \A x \in K, y \in S \ K : x \in S /\ TakenBefore(x, y, S)
  <2> SUFFICES ASSUME NEW x \in K, NEW y \in S \ K
               PROVE  x \in S /\ TakenBefore(x, y, S)
    OBVIOUS
  <2>1. x \in S /\ Below(T, S, x) < Cap /\ ~(Below(T, S, y) < Cap)
    BY <1>3
  <2>2. Below(T, S, x) < Below(T, S, y)
    BY <1>1, <1>2, <2>1, BelowIsBounded
  <2>3. <<x, y>> \in T
    BY <1>1, <1>2, <2>1, <2>2, BelowTellsOrder
  <2> QED  BY <2>1, <2>3, TakingOrders DEF T
<1>6. \A d : Alike(K, d) \subseteq K /\ IsFiniteSet(Alike(K, d)) /\ Cardinality(Alike(K, d)) \in Nat
  <2> TAKE d
  <2>1. Alike(K, d) \subseteq K
    BY DEF Alike
  <2> QED  BY <1>4, <2>1, FS_Subset, FS_CardinalityType
<1> DEFINE k == Cardinality(Alike(K, c))
<1>7. k \in Nat
  BY <1>6
<1> HIDE DEF k
<1>8. PICK y \in S \ K : Round(y, S) <= k /\ Round(y, S) \in Nat
  <2> DEFINE Q == Alike(S, c)
             F == {x \in Q : Below(Rising(Q), Q, x) < k + 1}
  <2>1. /\ IsFiniteSet(Q) /\ Orders(Rising(Q), Q) /\ Cardinality(Q) \in Nat /\ Q \subseteq S
        /\ c \in Q
    BY ScreenedAreCounted, FS_CardinalityType DEF Alike
  <2>2. \A x \in Q : Round(x, S) = Below(Rising(Q), Q, x) /\ Round(x, S) \in Nat
    <3> TAKE x \in Q
    <3>1. x \in S /\ Alike(S, x) = Q
      BY DEF Alike
    <3> QED  BY <3>1, RoundIsPlace
  <2>3. Alike(K, c) \subseteq Q
    BY <1>3 DEF Alike
  <2>4. c \notin Alike(K, c)
    BY DEF Alike
  <2>5. \A x \in Q : x \in K => x \in Alike(K, c)
    BY DEF Alike
  <2> HIDE DEF Q
  <2>6. k < Cardinality(Q)
    <3>1. /\ k <= Cardinality(Q)
          /\ Cardinality(Q) = k => Q = Alike(K, c)
      BY <2>1, <2>3, FS_Subset DEF k
    <3> QED  BY <1>7, <2>1, <2>4, <3>1
  <2>7. Cardinality(F) = k + 1
    <3>1. Cardinality(F) = IF Cardinality(Q) < k + 1 THEN Cardinality(Q) ELSE k + 1
      BY <1>7, <2>1, FirstFew
    <3> QED  BY <1>7, <2>1, <2>6, <3>1
  <2> HIDE DEF F
  <2>8. ~(F \subseteq Alike(K, c))
    <3>1. F \subseteq Alike(K, c) => Cardinality(F) <= k
      BY <1>6, FS_Subset DEF k
    <3> QED  BY <1>7, <2>7, <3>1
  <2>9. PICK y \in F : y \notin Alike(K, c)
    BY <2>8
  <2>10. y \in Q /\ Below(Rising(Q), Q, y) < k + 1
    BY DEF F
  <2>11. y \in S \ K
    BY <2>1, <2>5, <2>9, <2>10
  <2> QED  BY <1>7, <2>2, <2>10, <2>11
<1>9. ASSUME NEW d \in K PROVE Cardinality(Alike(K, d)) <= k + 1
  <2> DEFINE Q == Alike(S, d)
             F == {x \in Q : Below(Rising(Q), Q, x) < k + 1}
  <2>1. IsFiniteSet(Q) /\ Orders(Rising(Q), Q) /\ Cardinality(Q) \in Nat
    BY ScreenedAreCounted, FS_CardinalityType
  <2>2. ASSUME NEW x \in Alike(K, d) PROVE x \in F
    <3>1. x \in K /\ x \in S /\ Scheme(x) = Scheme(d)
      BY <1>3 DEF Alike
    <3>2. Alike(S, x) = Q
      BY <3>1 DEF Alike
    <3>3. Round(x, S) = Below(Rising(Q), Q, x) /\ Round(x, S) \in Nat /\ x \in Q
      BY <3>1, <3>2, RoundIsPlace
    <3>4. Round(x, S) <= Round(y, S)
      BY <1>5, <1>8, <3>1, <3>3 DEF TakenBefore
    <3> QED  BY <1>7, <1>8, <3>3, <3>4
  <2>3. /\ IsFiniteSet(F)
        /\ Cardinality(F) = IF Cardinality(Q) < k + 1 THEN Cardinality(Q) ELSE k + 1
    <3> HIDE DEF Q
    <3> QED  BY <1>7, <2>1, FirstFew
  <2> HIDE DEF Q, F
  <2>4. Cardinality(Alike(K, d)) <= Cardinality(F)
    BY <2>2, <2>3, FS_Subset
  <2> QED  BY <1>6, <1>7, <2>1, <2>3, <2>4
<1> QED  BY <1>4, <1>9 DEF k

-----------------------------------------------------------------------------
(* The merge of what the sources delivered.                                *)

LEMMA MergeKeepsSources ==
  ASSUME FetchInv, NEW all, all = Screened(Deduped)
  PROVE  /\ DOMAIN all \subseteq Screenable
         /\ \A c \in DOMAIN all : all[c] = {s \in Sources : Delivers(s, c)}
<1> DEFINE read == UNION {fetch[s].configs : s \in Sources}
<1>1. \A s \in Sources : \A r \in fetch[s].configs : r \in read /\ r.class \in Classes
  <2> SUFFICES ASSUME NEW s \in Sources, NEW r \in fetch[s].configs
               PROVE  r \in read /\ r.class \in Classes
    OBVIOUS
  <2>1. r \in read
    OBVIOUS
  <2>2. fetch[s].configs \in Bodies \cup {{}}
    BY DEF FetchInv, Download
  <2>3. fetch[s].configs \in Bodies
    BY <2>2
  <2>4. r \in [class : Classes, label : STRING]
    BY <2>3, CollectorAssumption
  <2> QED  BY <2>1, <2>4
<1>2. \A r \in read : \E s \in Sources : r \in fetch[s].configs
  OBVIOUS
<1>3. /\ DOMAIN SourceConfigs = read
      /\ \A r \in read : SourceConfigs[r] = {s \in Sources : r \in fetch[s].configs}
  BY DEF SourceConfigs
<1> HIDE DEF read
<1> DEFINE of(c) == {q \in read : q.class = c}
<1>4. /\ DOMAIN Deduped = {r.class : r \in read}
      /\ \A c \in DOMAIN Deduped : Deduped[c] = UNION {SourceConfigs[r] : r \in of(c)}
  BY <1>3 DEF Deduped
<1>5. /\ DOMAIN all = {c \in DOMAIN Deduped : Cheap(Config[c].features)}
      /\ \A c \in DOMAIN all : all[c] = Deduped[c]
  BY DEF Screened, RestrictDomain, Restrict
<1>6. DOMAIN all \subseteq Screenable
  <2> SUFFICES ASSUME NEW c \in DOMAIN all PROVE c \in Screenable
    OBVIOUS
  <2>1. PICK r \in read : r.class = c
    BY <1>4, <1>5
  <2>2. c \in Classes
    BY <1>1, <1>2, <2>1
  <2> QED  BY <1>5, <2>2 DEF Screenable
<1>7. ASSUME NEW c \in DOMAIN all
      PROVE  all[c] = {s \in Sources : Delivers(s, c)}
  <2>1. all[c] = UNION {SourceConfigs[r] : r \in of(c)}
    BY <1>4, <1>5
  <2>2. ASSUME NEW s \in all[c] PROVE s \in Sources /\ Delivers(s, c)
    <3>1. PICK r \in of(c) : s \in SourceConfigs[r]
      BY <2>1
    <3> QED  BY <1>3, <3>1 DEF Delivers
  <2>3. ASSUME NEW s \in Sources, Delivers(s, c) PROVE s \in all[c]
    <3>1. PICK r \in fetch[s].configs : r.class = c
      BY <2>3 DEF Delivers
    <3>2. r \in of(c) /\ s \in SourceConfigs[r]
      BY <1>1, <1>3, <3>1
    <3> HIDE DEF of
    <3> QED  BY <2>1, <3>2
  <2> QED  BY <2>2, <2>3
<1> QED  BY <1>6, <1>7

-----------------------------------------------------------------------------
(* What is offered to the Light candidates.                                *)

\* The sample's slots are places of the ranking.
LEMMA SlotsArePlaces ==
  ASSUME NEW n \in Nat, NEW target \in Nat \ {0}, target < n, NEW slot \in 1..target
  PROVE  Slots(n, target)[slot] \in 1..n
<1>1. CASE target = 1
  BY <1>1 DEF Slots
<1>2. CASE target # 1
  <2> DEFINE a == slot - 1
             b == target - 1
             m == n - 1
             q == (a * m) \div b
  <2>1. a \in Nat /\ b \in Nat \ {0} /\ m \in Nat /\ a <= b
    BY <1>2
  <2>2. Slots(n, target)[slot] = q + 1
    BY <1>2 DEF Slots
  <2> HIDE DEF a, b, m
  <2>3. a * m \in Nat /\ a * m <= b * m /\ b * m \in Nat
    <3>1. \E x \in Nat : b = a + x
      <4>1. b - a \in Nat /\ b = a + (b - a)
        BY <2>1
      <4> QED  BY <4>1
    <3>2. PICK x \in Nat : b = a + x
      BY <3>1
    <3>3. b * m = a * m + x * m
      BY <2>1, <3>2
    <3>4. x * m \in Nat /\ a * m \in Nat
      BY <2>1, <3>2
    <3> QED  BY <3>3, <3>4
  <2>4. q \in Nat /\ b * q <= a * m
    BY <2>1, <2>3
  <2> HIDE DEF q
  <2>5. q <= m
    <3> SUFFICES ASSUME m + 1 <= q PROVE FALSE
      BY <2>1, <2>4
    <3>1. PICK x \in Nat : q = m + 1 + x
      <4>1. q - (m + 1) \in Nat /\ q = m + 1 + (q - (m + 1))
        BY <2>1, <2>4
      <4> QED  BY <4>1
    <3>2. b * q = b * m + b + b * x
      BY <2>1, <3>1
    <3>3. b * x \in Nat
      BY <2>1, <3>1
    <3> QED  BY <2>1, <2>3, <2>4, <3>2, <3>3
  <2> QED  BY <2>1, <2>2, <2>4, <2>5 DEF m
<1> QED  BY <1>1, <1>2

-----------------------------------------------------------------------------
(* The whole run.                                                          *)

\* The candidates have the sources that delivered them.
NamedInv ==
  /\ DOMAIN named \subseteq Screenable
  /\ \A c \in DOMAIN named : named[c] = {s \in Sources : Delivers(s, c)}
  /\ step = "fetch" => DOMAIN named = {}
  /\ configs = Capped(DOMAIN named)

\* What was tested has its own verdict, and what is ranked is what answered.
TestInv ==
  /\ network \in Networks
  /\ DOMAIN latency \subseteq configs
  /\ VerdictIsOwn
  /\ ranked = RankedBy(latency)

\* From the count on nothing is tested or listed again.
Listing == step \in {"map", "light", "all", "done"} \/ disk.new # {}

ListInv ==
  /\ Listing => light = LightCandidates /\ counts = [s \in Sources |-> Counted(s)]
  /\ "map" \in disk.new => disk.map = [c \in Range(light) |-> named[c]]
  /\ "all" \in disk.new => disk.all = AllCandidates

CollectInv == FetchInv /\ DiskInv /\ NamedInv /\ TestInv /\ ListInv

\* Among all that passed the screening, and among what answered, the Light
\* candidates are offered everything that has an endpoint.
LEMMA OfferedProperties ==
  ASSUME NamedInv, TestInv
  PROVE  /\ Offered \in Seq(Classes)
         /\ Range(Offered) = Range(ranked) \cup Addressed
         /\ Len(ranked) <= MaxLight => IsInjective(Offered)
         /\ Range(ranked) \subseteq DOMAIN named /\ Addressed \subseteq DOMAIN named
         /\ ranked \in Seq(Classes) /\ Len(ranked) \in Nat /\ IsInjective(ranked)
<1>1. /\ DOMAIN named \subseteq Screenable /\ configs \subseteq DOMAIN named
      /\ DOMAIN latency \subseteq configs /\ network \in Networks
      /\ \A c \in DOMAIN latency : latency[c] = TransportLatency(c, network)
  BY DEF NamedInv, TestInv, VerdictIsOwn, Capped
<1>2. DOMAIN latency \subseteq Classes /\ DOMAIN named \subseteq Classes
  BY <1>1 DEF Screenable
<1>3. \A c \in DOMAIN latency : latency[c] \in Nat /\ (NeedsCoreOnly(c) => latency[c] = Never)
  BY <1>1, <1>2, LatencyIsCounted
<1>4. /\ ranked \in Seq(Classes) /\ Len(ranked) \in Nat
      /\ Range(ranked) = Answering(latency) /\ IsInjective(ranked)
  BY <1>2, <1>3, RankedProperties DEF TestInv
<1>5. /\ Range(ranked) \subseteq DOMAIN latency
      /\ \A c \in Range(ranked) : ~NeedsCoreOnly(c)
  BY <1>3, <1>4 DEF Answering
<1> DEFINE A == Addressed
           q == InOrder(A)
<1>6. A \subseteq DOMAIN named /\ \A c \in A : NeedsCoreOnly(c)
  BY DEF Addressed, Special
<1> HIDE DEF A
<1>7. A \in SUBSET Nat /\ IsFiniteSet(A) /\ A \subseteq Classes
  <2>1. A \subseteq Classes
    BY <1>2, <1>6
  <2> QED  BY <2>1, CollectorAssumption, FS_Subset
<1>8. InSequence(q, Rising(A), A)
  BY <1>7, InOrderProperties
<1> HIDE DEF q
<1>9. /\ q \in Seq(A) /\ Range(q) = A /\ Len(q) \in Nat /\ DOMAIN q = 1..Len(q)
      /\ \A n, m \in DOMAIN q : q[n] = q[m] => n = m
  <2>1. q \in Seq(A)
    BY <1>8 DEF InSequence
  <2> QED  BY <1>8, <2>1 DEF InSequence
<1>10. q \in Seq(Classes)
  <2>1. q \in [1..Len(q) -> A]
    BY <1>9
  <2>2. q \in [1..Len(q) -> Classes]
    BY <1>7, <2>1
  <2> QED  BY <1>9, <2>2
<1> DEFINE head == IF Len(ranked) > MaxLight THEN Sample ELSE <<>>
<1>11. MaxLight \in Nat \ {0}
  BY CollectorAssumption
<1>12. /\ head \in Seq(Classes) /\ Range(head) \subseteq Range(ranked)
       /\ Len(ranked) <= MaxLight => head = <<>>
  <2>1. CASE Len(ranked) > MaxLight
    <3>1. /\ DOMAIN ranked = 1..Len(ranked)
          /\ \A i \in 1..Len(ranked) : ranked[i] \in Classes /\ ranked[i] \in Range(ranked)
      BY <1>4 DEF Range
    <3>2. \A i \in 1..MaxLight : Slots(Len(ranked), MaxLight)[i] \in 1..Len(ranked)
      BY <1>4, <1>11, <2>1, SlotsArePlaces
    <3>3. Sample \in [1..MaxLight -> Classes] /\ DOMAIN Sample = 1..MaxLight
      BY <3>1, <3>2 DEF Sample
    <3>4. \A i \in 1..MaxLight : Sample[i] \in Range(ranked)
      BY <3>1, <3>2 DEF Sample
    <3>5. Sample \in Seq(Classes)
      BY <1>11, <3>3
    <3>6. Range(Sample) \subseteq Range(ranked)
      BY <3>3, <3>4 DEF Range
    <3> QED  BY <1>4, <1>11, <2>1, <3>5, <3>6
  <2>2. CASE ~(Len(ranked) > MaxLight)
    BY <2>2 DEF Range
  <2> QED  BY <2>1, <2>2
<1>13. Offered = head \o ranked \o q
  BY DEF Offered, q, A
<1> HIDE DEF head
<1>14. head \o ranked \in Seq(Classes) /\ Offered \in Seq(Classes)
  BY <1>4, <1>10, <1>12, <1>13
<1>15. Range(Offered) = Range(ranked) \cup A
  <2>1. Range(head \o ranked) = Range(head) \cup Range(ranked)
    BY <1>4, <1>12, RangeConcatenation
  <2>2. Range((head \o ranked) \o q) = Range(head \o ranked) \cup Range(q)
    BY <1>10, <1>14, RangeConcatenation
  <2> QED  BY <1>9, <1>12, <1>13, <2>1, <2>2
<1>16. Len(ranked) <= MaxLight => IsInjective(Offered)
  <2> SUFFICES ASSUME Len(ranked) <= MaxLight PROVE IsInjective(Offered)
    OBVIOUS
  <2>1. Offered = ranked \o q
    BY <1>4, <1>12, <1>13
  <2>2. /\ DOMAIN Offered = 1..(Len(ranked) + Len(q))
        /\ \A i \in 1..Len(ranked) : Offered[i] = ranked[i] /\ i \in DOMAIN ranked
        /\ \A i \in (Len(ranked) + 1)..(Len(ranked) + Len(q)) :
             Offered[i] = q[i - Len(ranked)] /\ i - Len(ranked) \in DOMAIN q
    BY <1>4, <1>9, <1>10, <2>1
  <2>3. \A i \in DOMAIN ranked, j \in DOMAIN q : ranked[i] # q[j]
    BY <1>5, <1>6, <1>9 DEF Range
  <2>4. ASSUME NEW i \in DOMAIN Offered, NEW j \in DOMAIN Offered, Offered[i] = Offered[j]
        PROVE  i = j
    <3>1. /\ i \in 1..Len(ranked) \/ i \in (Len(ranked) + 1)..(Len(ranked) + Len(q))
          /\ j \in 1..Len(ranked) \/ j \in (Len(ranked) + 1)..(Len(ranked) + Len(q))
      BY <1>4, <1>9, <2>2
    <3>2. CASE i \in 1..Len(ranked) /\ j \in 1..Len(ranked)
      BY <1>4, <2>2, <2>4, <3>2 DEF IsInjective
    <3>3. CASE /\ i \in (Len(ranked) + 1)..(Len(ranked) + Len(q))
               /\ j \in (Len(ranked) + 1)..(Len(ranked) + Len(q))
      <4>1. i - Len(ranked) = j - Len(ranked)
        BY <1>9, <2>2, <2>4, <3>3
      <4> QED  BY <1>4, <1>9, <3>3, <4>1
    <3>4. CASE i \in 1..Len(ranked) /\ j \in (Len(ranked) + 1)..(Len(ranked) + Len(q))
      BY <2>2, <2>3, <2>4, <3>4
    <3>5. CASE j \in 1..Len(ranked) /\ i \in (Len(ranked) + 1)..(Len(ranked) + Len(q))
      BY <2>2, <2>3, <2>4, <3>5
    <3> QED  BY <3>1, <3>2, <3>3, <3>4, <3>5
  <2> QED  BY <2>4 DEF IsInjective
<1>17. Range(ranked) \subseteq DOMAIN named
  BY <1>1, <1>5
<1> QED  BY <1>4, <1>6, <1>14, <1>15, <1>16, <1>17 DEF A

\* The Light candidates are those listed of what is offered.
LEMMA LightProperties ==
  ASSUME NamedInv, TestInv, NEW L, L = LightCandidates
  PROVE  /\ Range(L) \subseteq DOMAIN named
         /\ Len(ranked) <= MaxLight => IsInjective(L)
         /\ \A c : AtEndpoint(L, c) <= MaxVariants
         /\ \A c \in Range(ranked) \cup Special :
              \/ Contains(L, c) \/ Len(L) = MaxLight
              \/ Endpoint(c) = NoEndpoint \/ AtEndpoint(L, c) = MaxVariants
<1> DEFINE s == Offered
<1>1. /\ s \in Seq(Classes) /\ Range(s) = Range(ranked) \cup Addressed
      /\ Len(ranked) <= MaxLight => IsInjective(s)
      /\ Range(ranked) \subseteq DOMAIN named /\ Addressed \subseteq DOMAIN named
  BY OfferedProperties
<1>2. MaxVariants \in Nat \ {0} /\ MaxLight \in Nat \ {0}
  BY CollectorAssumption
<1>3. L = Listed(s, MaxVariants, MaxLight)
  BY DEF LightCandidates, Listed
<1> HIDE DEF s
<1>4. /\ Range(L) = {s[i] : i \in Taken(s, MaxVariants, MaxLight)}
      /\ IsInjective(s) => IsInjective(L)
      /\ \A c : AtEndpoint(L, c) <= MaxVariants
      /\ \A k \in DOMAIN s : \/ Contains(L, s[k]) \/ Len(L) = MaxLight
                             \/ AtEndpoint(L, s[k]) = MaxVariants
  BY <1>1, <1>2, <1>3, ListKeepsLimits
<1>5. Range(L) \subseteq Range(s)
  <2>1. Taken(s, MaxVariants, MaxLight) \subseteq DOMAIN s
    BY DEF Taken, Passed
  <2> QED  BY <1>4, <2>1 DEF Range
<1>6. ASSUME NEW c \in Range(ranked) \cup Special, Endpoint(c) # NoEndpoint
      PROVE  \/ Contains(L, c) \/ Len(L) = MaxLight
             \/ AtEndpoint(L, c) = MaxVariants
  <2>1. c \in Range(s)
    BY <1>1, <1>6 DEF Addressed
  <2>2. PICK k \in DOMAIN s : s[k] = c
    BY <2>1 DEF Range
  <2> QED  BY <1>4, <2>2
<1> QED  BY <1>1, <1>4, <1>5, <1>6

LEMMA CollectStarts == Init => FetchInv /\ DiskInv /\ NamedInv /\ TestInv /\ ListInv
<1> SUFFICES ASSUME Init PROVE FetchInv /\ DiskInv /\ NamedInv /\ TestInv /\ ListInv
  OBVIOUS
<1>1. FetchInv
  BY IdleKeeps DEF Init, FetchInit, FetchInv
<1>2. DiskInv
  BY DEF Init, DiskInv, NewFiles, FilesInOrder
<1>3. NamedInv
  <2>1. DOMAIN named = {} /\ configs = {}
    BY DEF Init, Empty
  <2> QED  BY <2>1 DEF NamedInv, Capped
<1>4. TestInv
  <2>1. DOMAIN latency = {} /\ ranked = <<>> /\ network = [h \in Hosts |-> Never]
    BY DEF Init, Empty
  <2>2. network \in Networks
    BY <2>1 DEF Networks
  <2>3. Len(RankedBy(latency)) = 0 /\ RankedBy(latency) \in Seq(Classes)
    <3>1. /\ RankedBy(latency) \in Seq(Classes) /\ Len(RankedBy(latency)) \in Nat
          /\ Range(RankedBy(latency)) = Answering(latency)
      BY <2>1, RankedProperties
    <3>2. Answering(latency) = {}
      BY <2>1 DEF Answering
    <3> DEFINE q == RankedBy(latency)
    <3> HIDE DEF q
    <3>3. q \in Seq(Classes) /\ Len(q) \in Nat /\ DOMAIN q = 1..Len(q)
      BY <3>1 DEF q
    <3>4. \A n \in DOMAIN q : q[n] \in {}
      BY <3>1, <3>2 DEF Range, q
    <3>5. 1 \notin DOMAIN q
      BY <3>4
    <3>6. Len(q) = 0
      BY <3>3, <3>5
    <3> QED  BY <3>3, <3>6 DEF q
  <2>4. ranked = RankedBy(latency)
    BY <2>1, <2>3
  <2> QED  BY <2>1, <2>2, <2>4 DEF TestInv, VerdictIsOwn
<1>5. ListInv
  <2>1. step = "fetch" /\ disk.new = {}
    BY DEF Init
  <2> QED  BY <2>1 DEF ListInv, Listing
<1> QED  BY <1>1, <1>2, <1>3, <1>4, <1>5

LEMMA NamedKeeps ==
  ASSUME FetchInv, NamedInv, [Next]_vars
  PROVE  NamedInv'
<1>1. ASSUME NEW s \in Sources, Fetch(s) PROVE NamedInv'
  <2>1. /\ step = "fetch" /\ step' = step /\ named' = named /\ configs' = configs
        /\ DOMAIN named = {}
    BY <1>1 DEF Fetch, NamedInv
  <2> QED  BY <2>1 DEF NamedInv, Capped
<1>2. CASE Assemble
  <2>1. /\ named' = Screened(Deduped) /\ configs' = Capped(DOMAIN named')
        /\ step' \in {"failed", "test"} /\ fetch' = fetch
    BY <1>2 DEF Assemble
  <2> DEFINE all == Screened(Deduped)
  <2>2. /\ DOMAIN all \subseteq Screenable
        /\ \A c \in DOMAIN all : all[c] = {s \in Sources : Delivers(s, c)}
    BY MergeKeepsSources
  <2>3. \A s, c : Delivers(s, c)' <=> Delivers(s, c)
    BY <2>1 DEF Delivers
  <2>4. named' = all
    BY <2>1
  <2> HIDE DEF all
  <2>5. /\ DOMAIN named' \subseteq Screenable
        /\ \A c \in DOMAIN named' : named'[c] = {s \in Sources : Delivers(s, c)}
    BY <2>2, <2>4
  <2>6. \A c \in DOMAIN named' : named'[c] = {s \in Sources : Delivers(s, c)'}
    BY <2>3, <2>5
  <2> QED  BY <2>1, <2>5, <2>6 DEF NamedInv
<1>3. ASSUME fetch' = fetch, named' = named, configs' = configs,
             step' = step \/ step' # "fetch"
      PROVE  NamedInv'
  BY <1>3 DEF NamedInv, Delivers
<1>4. CASE UNCHANGED vars \/ Fails \/ Terminated
  BY <1>3, <1>4 DEF vars, Fails, Terminated
<1>5. CASE Test \/ Count \/ WriteMap \/ WriteLight \/ WriteAll
  BY <1>3, <1>5 DEF Test, Count, WriteMap, WriteLight, WriteAll
<1> QED  BY <1>1, <1>2, <1>4, <1>5 DEF Next, Work

LEMMA TestKeeps ==
  ASSUME DiskInv, NamedInv, TestInv, [Next]_vars
  PROVE  TestInv'
<1>1. CASE Assemble
  <2>1. /\ step = "fetch" /\ network' = network /\ latency' = latency /\ ranked' = ranked
    BY <1>1 DEF Assemble
  <2>2. DOMAIN latency = {}
    BY <2>1 DEF NamedInv, TestInv, Capped
  <2> QED  BY <2>1, <2>2 DEF TestInv, VerdictIsOwn
<1>2. CASE Test
  <2>1. PICK net \in [Hosts -> {Never} \cup Latencies] :
          network' = net /\ latency' = Tested(configs, net) /\ ranked' = RankedBy(latency')
    BY <1>2 DEF Test
  <2>2. configs' = configs /\ configs \in SUBSET Classes
    BY <1>2 DEF Test, NamedInv, Capped, Screenable
  <2>3. /\ DOMAIN latency' = configs
        /\ \A c \in configs : latency'[c] = TransportLatency(c, network')
    BY <2>1, <2>2, TestedIsOwn
  <2>4. network' \in Networks
    BY <2>1 DEF Networks
  <2> QED  BY <2>1, <2>2, <2>3, <2>4 DEF TestInv, VerdictIsOwn
<1>3. ASSUME configs' = configs, network' = network, latency' = latency, ranked' = ranked
      PROVE  TestInv'
  BY <1>3 DEF TestInv, VerdictIsOwn
<1>4. CASE UNCHANGED vars \/ Fails \/ Terminated \/ \E s \in Sources : Fetch(s)
  BY <1>3, <1>4 DEF vars, Fails, Terminated, Fetch
<1>5. CASE Count \/ WriteMap \/ WriteLight \/ WriteAll
  BY <1>3, <1>5 DEF Count, WriteMap, WriteLight, WriteAll
<1> QED  BY <1>1, <1>2, <1>4, <1>5 DEF Next, Work

\* While what they are made of stays, so do the lists.
LEMMA ListsDepend ==
  ASSUME named' = named, latency' = latency, ranked' = ranked
  PROVE  /\ LightCandidates' = LightCandidates /\ AllCandidates' = AllCandidates
         /\ \A s : Counted(s)' = Counted(s)
BY DEF LightCandidates, AllCandidates, Counted, Offered, Sample, Addressed, Special

LEMMA ListKeeps ==
  ASSUME DiskInv, ListInv, [Next]_vars
  PROVE  ListInv'
<1>1. CASE (\E s \in Sources : Fetch(s)) \/ Assemble \/ Test
  <2>1. /\ step \in {"fetch", "test"} /\ step' \in {"fetch", "test", "count", "failed"}
        /\ disk' = disk
    BY <1>1 DEF Fetch, Assemble, Test
  <2>2. disk.new = {}
    BY <2>1 DEF DiskInv, NewFiles
  <2> QED  BY <2>1, <2>2 DEF ListInv, Listing
<1>2. CASE Count
  <2>1. /\ step = "count" /\ disk' = disk
        /\ named' = named /\ latency' = latency /\ ranked' = ranked
        /\ counts' = [s \in Sources |-> Counted(s)]
        /\ step' = "failed" \/ light' = LightCandidates
    BY <1>2 DEF Count
  <2>2. disk.new = {}
    BY <2>1 DEF DiskInv, NewFiles
  <2>3. LightCandidates' = LightCandidates /\ \A s : Counted(s)' = Counted(s)
    BY <2>1, ListsDepend
  <2>4. counts' = [s \in Sources |-> Counted(s)']
    BY <2>1, <2>3
  <2> QED  BY <2>1, <2>2, <2>3, <2>4 DEF ListInv, Listing
<1>3. ASSUME named' = named, latency' = latency, ranked' = ranked, light' = light,
             counts' = counts
      PROVE  /\ LightCandidates' = LightCandidates /\ AllCandidates' = AllCandidates
             /\ counts = [s \in Sources |-> Counted(s)]
                  => counts' = [s \in Sources |-> Counted(s)']
  <2>1. /\ LightCandidates' = LightCandidates /\ AllCandidates' = AllCandidates
        /\ \A s : Counted(s)' = Counted(s)
    BY <1>3, ListsDepend
  <2> QED  BY <1>3, <2>1
<1>4. ASSUME named' = named, latency' = latency, ranked' = ranked, light' = light,
             counts' = counts, disk' = disk, Listing' => Listing
      PROVE  ListInv'
  BY <1>3, <1>4 DEF ListInv
<1>5. CASE UNCHANGED vars \/ Fails \/ Terminated
  <2>1. Listing' => Listing
    BY <1>5 DEF Listing, vars, Fails, Terminated
  <2> QED  BY <1>4, <1>5, <2>1 DEF vars, Fails, Terminated
<1>6. CASE WriteMap
  <2>1. /\ step = "map" /\ disk.new = {}
        /\ named' = named /\ latency' = latency /\ ranked' = ranked
        /\ light' = light /\ counts' = counts
        /\ disk' = [map |-> [c \in Range(light) |-> SourcesOf(c)],
                    light |-> disk.light, all |-> disk.all, new |-> {"map"}]
    BY <1>6 DEF WriteMap, DiskInv, NewFiles
  <2>2. disk'.new = {"map"} /\ disk'.map = [c \in Range(light) |-> named[c]]
    BY <2>1 DEF SourcesOf
  <2>3. Listing
    BY <2>1 DEF Listing
  <2> QED  BY <1>3, <2>1, <2>2, <2>3 DEF ListInv
<1>7. CASE WriteLight
  <2>1. /\ step = "light" /\ disk.new = {"map"}
        /\ named' = named /\ latency' = latency /\ ranked' = ranked
        /\ light' = light /\ counts' = counts
        /\ disk' = [map |-> disk.map, light |-> light, all |-> disk.all,
                    new |-> {"map", "light"}]
    BY <1>7 DEF WriteLight, DiskInv, NewFiles
  <2>2. disk'.new = {"map", "light"} /\ disk'.map = disk.map
    BY <2>1
  <2>3. Listing
    BY <2>1 DEF Listing
  <2> QED  BY <1>3, <2>1, <2>2, <2>3 DEF ListInv
<1>8. CASE WriteAll
  <2>1. /\ step = "all" /\ disk.new = {"map", "light"}
        /\ named' = named /\ latency' = latency /\ ranked' = ranked
        /\ light' = light /\ counts' = counts
        /\ disk' = [map |-> disk.map, light |-> disk.light, all |-> AllCandidates,
                    new |-> {"map", "light", "all"}]
    BY <1>8 DEF WriteAll, DiskInv, NewFiles
  <2>2. /\ disk'.new = {"map", "light", "all"} /\ disk'.map = disk.map
        /\ disk'.all = AllCandidates
    BY <2>1
  <2>3. Listing
    BY <2>1 DEF Listing
  <2> QED  BY <1>3, <2>1, <2>2, <2>3 DEF ListInv
<1> QED  BY <1>1, <1>2, <1>5, <1>6, <1>7, <1>8 DEF Next, Work

\* Every run of the program keeps all of it.
LEMMA CollectHolds == Spec => []CollectInv
<1>1. Init => CollectInv
  BY CollectStarts DEF CollectInv
<1>2. CollectInv /\ [Next]_vars => CollectInv'
  <2> SUFFICES ASSUME CollectInv, [Next]_vars PROVE CollectInv'
    OBVIOUS
  <2>1. FetchInv /\ DiskInv /\ NamedInv /\ TestInv /\ ListInv
    BY DEF CollectInv
  <2>2. FetchInv' /\ DiskInv'
    BY <2>1, FetchInvKeeps, DiskKeeps
  <2>3. NamedInv' /\ TestInv' /\ ListInv'
    BY <2>1, NamedKeeps, TestKeeps, ListKeeps
  <2> QED  BY <2>2, <2>3 DEF CollectInv
<1> QED  BY <1>1, <1>2, PTL DEF Spec

\* A probe is shared among candidates whose keys are equal, and what a verdict
\* depends on is in the key (main.rs, test_transport_configs).
THEOREM VerdictsAreOwn == Spec => []VerdictIsOwn
<1>1. CollectInv => VerdictIsOwn
  BY DEF CollectInv, TestInv
<1> QED  BY <1>1, CollectHolds, PTL

\* The registry hears of each source what its own candidates showed, and the map
\* names who delivered each Light candidate (main.rs, source_outcomes,
\* source_map).
THEOREM SourcesGetCredit == Spec => []SourcesAreCredited
<1>1. CollectInv => SourcesAreCredited
  <2> SUFFICES ASSUME CollectInv PROVE CountsAgree /\ Provenance
    BY DEF SourcesAreCredited
  <2>1. FetchInv /\ DiskInv /\ NamedInv /\ TestInv /\ ListInv
    BY DEF CollectInv
  <2>2. /\ DOMAIN latency \subseteq DOMAIN named
        /\ \A c \in DOMAIN named : named[c] = {s \in Sources : Delivers(s, c)}
        /\ \A c \in DOMAIN latency : latency[c] = TransportLatency(c, network)
    BY <2>1 DEF NamedInv, TestInv, VerdictIsOwn, Capped
  <2>3. CountsAgree
    <3> SUFFICES ASSUME step \in {"map", "light", "all", "done"}, NEW s \in Sources
                 PROVE  LET of == {c \in DOMAIN latency : Delivers(s, c)} IN
                        counts[s] = [tested |-> Cardinality(of),
                                     reachable |-> Cardinality(
                                       {c \in of : TransportLatency(c, network) # Never})]
      BY DEF CountsAgree
    <3> DEFINE of   == {c \in DOMAIN latency : Delivers(s, c)}
               of2  == {c \in DOMAIN latency : s \in named[c]}
    <3>1. counts[s] = Counted(s)
      BY <2>1 DEF ListInv, Listing
    <3>2. of = of2
      BY <2>2
    <3>3. {c \in of : TransportLatency(c, network) # Never} = {c \in of : latency[c] # Never}
      BY <2>2
    <3>4. Counted(s) = [tested |-> Cardinality(of2),
                        reachable |-> Cardinality({c \in of2 : latency[c] # Never})]
      BY DEF Counted
    <3> QED  BY <3>1, <3>2, <3>3, <3>4
  <2>4. Provenance
    <3> SUFFICES ASSUME "map" \in disk.new
                 PROVE  /\ DOMAIN disk.map = Range(light)
                        /\ \A c \in DOMAIN disk.map :
                             disk.map[c] = {s \in Sources : Delivers(s, c)}
      BY DEF Provenance
    <3>1. light = LightCandidates /\ disk.map = [c \in Range(light) |-> named[c]]
      BY <2>1 DEF ListInv, Listing
    <3>2. Range(light) \subseteq DOMAIN named
      BY <2>1, <3>1, LightProperties
    <3> QED  BY <2>2, <3>1, <3>2
  <2> QED  BY <2>3, <2>4
<1> QED  BY <1>1, CollectHolds, PTL

\* The cap is shared evenly, and both lists leave out only what their limits
\* exclude (main.rs, cap_configs_by_protocol, select_light_candidates,
\* select_all_candidates).
THEOREM ListsHoldBest == Spec => []ListsHoldTheBest
<1>1. CollectInv => ListsHoldTheBest
  <2> SUFFICES ASSUME CollectInv PROVE CapIsFair /\ LightFilled /\ AllIsBest
    BY DEF ListsHoldTheBest
  <2>1. DiskInv /\ NamedInv /\ TestInv /\ ListInv
    BY DEF CollectInv
  <2>2. CapIsFair
    <3>1. DOMAIN named \in SUBSET Screenable /\ configs = Capped(DOMAIN named)
      BY <2>1 DEF NamedInv
    <3> SUFFICES ASSUME NEW c \in DOMAIN named \ configs
                 PROVE  /\ Cardinality(configs) = Cap
                        /\ \A d \in configs : Cardinality(Alike(configs, d))
                                                <= Cardinality(Alike(configs, c)) + 1
      BY DEF CapIsFair, Alike
    <3> QED  BY <3>1, CapIsShared
  <2>3. LightFilled
    <3> SUFFICES ASSUME step \in {"map", "light", "all", "done"}
                 PROVE  /\ \A c \in Range(ranked) \cup Special :
                             \/ Contains(light, c) \/ Len(light) = MaxLight
                             \/ Endpoint(c) = NoEndpoint
                             \/ AtEndpoint(light, c) = MaxVariants
                        /\ \A c \in Range(light) : AtEndpoint(light, c) <= MaxVariants
                        /\ IsInjective(light) \/ Len(ranked) > MaxLight
      BY DEF LightFilled
    <3>1. light = LightCandidates
      BY <2>1 DEF ListInv, Listing
    <3>2. Len(ranked) \in Nat /\ MaxLight \in Nat
      BY <2>1, OfferedProperties, CollectorAssumption
    <3> QED  BY <2>1, <3>1, <3>2, LightProperties
  <2>4. AllIsBest
    <3> SUFFICES ASSUME "all" \in disk.new
                 PROVE  /\ IsInjective(disk.all)
                        /\ \A i \in DOMAIN ranked :
                             LET c == ranked[i]
                                 faster == {ranked[j] : j \in 1..(i - 1)} \cap Range(disk.all)
                             IN \/ Contains(disk.all, c)
                                \/ Cardinality(faster) = MaxAll
                                \/ Cardinality({d \in faster : Endpoint(d) = Endpoint(c)})
                                     = MaxPerEndpoint
      BY DEF AllIsBest
    <3> DEFINE L == disk.all
    <3>1. ranked \in Seq(Classes) /\ IsInjective(ranked)
      BY <2>1, OfferedProperties
    <3>2. MaxPerEndpoint \in Nat \ {0} /\ MaxAll \in Nat \ {0}
      BY CollectorAssumption
    <3>3. L = Listed(ranked, MaxPerEndpoint, MaxAll)
      BY <2>1 DEF ListInv, AllCandidates, Listed
    <3> HIDE DEF L
    <3>4. IsInjective(L)
      BY <3>1, <3>2, <3>3, ListKeepsLimits
    <3>5. \A i \in DOMAIN ranked :
            LET X == {ranked[j] : j \in 1..(i - 1)} \cap Range(L)
            IN  \/ Contains(L, ranked[i])
                \/ Cardinality(X) = MaxAll
                \/ Cardinality({d \in X : Endpoint(d) = Endpoint(ranked[i])}) = MaxPerEndpoint
      <4> TAKE i \in DOMAIN ranked
      <4> DEFINE X == {ranked[j] : j \in 1..(i - 1)} \cap Range(L)
      <4>1. \/ Contains(L, ranked[i])
            \/ Cardinality(X) = MaxAll
            \/ Cardinality({d \in X : Endpoint(d) = Endpoint(ranked[i])}) = MaxPerEndpoint
        <5> DEFINE limit == MaxPerEndpoint
                   most  == MaxAll
                   s     == ranked
        <5>1. /\ s \in Seq(Classes) /\ limit \in Nat \ {0} /\ most \in Nat \ {0}
              /\ IsInjective(s) /\ L = Listed(s, limit, most) /\ i \in DOMAIN s
          BY <3>1, <3>2, <3>3
        <5> HIDE DEF limit, most, s
        <5>2. LET Y == {s[j] : j \in 1..(i - 1)} \cap Range(L)
              IN  \/ Contains(L, s[i])
                  \/ Cardinality(Y) = most
                  \/ Cardinality({d \in Y : Endpoint(d) = Endpoint(s[i])}) = limit
          BY <5>1, EarlierGoFirst
        <5> QED  BY <5>2 DEF limit, most, s
      <4> QED  BY <4>1
    <3> QED  BY <3>4, <3>5 DEF L
  <2> QED  BY <2>2, <2>3, <2>4
<1> QED  BY <1>1, CollectHolds, PTL
=============================================================================
