---------------------------- MODULE LoaderProofs -----------------------------
(***************************************************************************)
(* Proofs about loading and starting programs, for any disks and sequences *)
(* of loads: the patches Execute() makes in a kernel, whatever of it is    *)
(* found and recognised, the image that is started, and io_init[].         *)
(***************************************************************************)
EXTENDS LoaderProps, WellFoundedInduction, TLAPS

(* A set of natural numbers that is not empty has a least one.             *)
LEMMA LeastNatural ==
  ASSUME NEW S, S \subseteq Nat, S # {}
  PROVE  \E i \in S : \A j \in S : i <= j
<1>. DEFINE Less == OpToRel(<, Nat)
<1>1. IsWellFoundedOn(Less, Nat)
  BY NatLessThanWellFounded
<1>2. PICK i \in S : \A j \in S : ~(<<j, i>> \in Less)
  <2>. HIDE DEF Less
  <2>. QED BY <1>1, WFMin
<1>3. \A j \in S : ~(j < i)
  BY <1>2 DEF OpToRel
<1>. QED BY <1>3

(* What holds of 0 and passes from each number to the next holds up to n.  *)
LEMMA CountUp ==
  ASSUME NEW n \in Nat, NEW S, 0 \in S, \A k \in 1 .. n : k - 1 \in S => k \in S
  PROVE  \A k \in 0 .. n : k \in S
<1>1. SUFFICES ASSUME NEW k \in 0 .. n, k \notin S PROVE FALSE
  OBVIOUS
<1>. DEFINE Missing == {m \in 0 .. n : m \notin S}
<1>2. PICK m \in Missing : \A j \in Missing : m <= j
  <2>1. Missing \subseteq Nat /\ Missing # {}
    BY <1>1
  <2>. QED BY <2>1, LeastNatural
<1>3. m \in 1 .. n /\ m - 1 \in 0 .. n /\ ~(m <= m - 1)
  OBVIOUS
<1>4. m - 1 \in S
  BY <1>2, <1>3
<1>. QED BY <1>3, <1>4

(* A function on 0 .. n given by its first value and by what each turn     *)
(* makes of the value before.                                              *)
Computes(h, n, V, b, turn) ==
  /\ h \in [0 .. n -> V] /\ h[0] = b
  /\ \A k \in 1 .. n : h[k] = turn[k][h[k - 1]]

LEMMA RecursionExists ==
  ASSUME NEW n \in Nat, NEW V, NEW b \in V, NEW turn \in [1 .. n -> [V -> V]]
  PROVE  \E h : Computes(h, n, V, b, turn)
<1>. DEFINE Upto(m, h) == h[0] = b /\ \A k \in 1 .. m : h[k] = turn[k][h[k - 1]]
            S == {m \in 0 .. n : \E h \in [0 .. m -> V] : Upto(m, h)}
<1>1. 0 \in S
  <2>1. Upto(0, [k \in 0 .. 0 |-> b]) /\ [k \in 0 .. 0 |-> b] \in [0 .. 0 -> V]
    OBVIOUS
  <2>. HIDE DEF Upto
  <2>. QED BY <2>1
<1>2. ASSUME NEW m \in 1 .. n, m - 1 \in S PROVE m \in S
  <2>1. PICK h \in [0 .. m - 1 -> V] : Upto(m - 1, h)
    BY <1>2
  <2>. DEFINE g == [k \in 0 .. m |-> IF k = m THEN turn[m][h[m - 1]] ELSE h[k]]
  <2>2. h[m - 1] \in V /\ turn[m] \in [V -> V]
    OBVIOUS
  <2>3. g \in [0 .. m -> V]
    <3>1. ASSUME NEW k \in 0 .. m PROVE g[k] \in V
      BY <2>2
    <3>. QED BY <3>1
  <2>4. Upto(m, g)
    <3>1. g[0] = b
      BY <2>1
    <3>2. ASSUME NEW k \in 1 .. m PROVE g[k] = turn[k][g[k - 1]]
      <4>1. k - 1 \in 0 .. m /\ k - 1 # m /\ g[k - 1] = h[k - 1]
        OBVIOUS
      <4>2. CASE k = m
        BY <4>1, <4>2
      <4>3. CASE k # m
        <5>1. k \in 1 .. m - 1 /\ g[k] = h[k]
          BY <4>3
        <5>2. h[k] = turn[k][h[k - 1]]
          BY <2>1, <5>1
        <5>. QED BY <4>1, <5>1, <5>2
      <4>. QED BY <4>2, <4>3
    <3>. QED BY <3>1, <3>2
  <2>. HIDE DEF Upto
  <2>. QED BY <2>3, <2>4
<1>. HIDE DEF S
<1>3. \A m \in 1 .. n : m - 1 \in S => m \in S
  BY <1>2
<1>4. \A m \in 0 .. n : m \in S
  BY <1>1, <1>3, CountUp
<1>5. n \in S
  BY <1>4
<1>. QED BY <1>5 DEF S, Computes

-----------------------------------------------------------------------------
(* The places where the order and the reach of writes matter: the hosts of *)
(* the trampolines and the functions that lead into them.  All the words   *)
(* any patch writes there.                                                 *)
Places ==
  {"config_cache", "wd93_earlyinit", "wd93edtinit", "psema", "btree_load", "swtch_load",
   "resume", "uthread_load", "mmap_store"}
PlaceWords ==
  Bodies \cup
  {R("config_cache", 144, 148), R("config_cache", 164, 168), R("wd93_earlyinit", 0, 8),
   R("wd93edtinit", 0, 8), R("psema", 48, 52), R("btree_load", 0, 8), R("swtch_load", 0, 4),
   R("resume", 0, 4), R("uthread_load", 0, 4), R("mmap_store", 0, 8)}
Known(w) == w.in \in Places => w \in PlaceWords

Clear(b) == b.in \in Places /\ \A w \in PlaceWords : ~Overlap(b, w)

Lands(h, ws) ==
  /\ h.at \in ws /\ h.body \in ws /\ (h.body = AttachBody => FaultBody \in ws)
  /\ Found(Refers(h.body))
  /\ \A b \in h.back : Clear(b)

Hosts == {"wd93_earlyinit", "wd93edtinit"}

PatchInv ==
  /\ \A w \in words : Known(w)
  /\ \A b \in Bodies \cap words : Dead(b)
  /\ \A h \in hooks : Lands(h, words)
  /\ step \in Nat
  /\ step > 4 => (Found(CacheSymbols) /\ Seen("bnez_v0") => PsemaBody \in words)
  /\ step > 20 => \A f \in Hosts : Found({f}) => f \in stubbed

LEMMA RIs ==
  ASSUME NEW f, NEW a, NEW b
  PROVE  R(f, a, b).in = f /\ R(f, a, b).from = a /\ R(f, a, b).to = b
BY DEF R

Is(w, f, a, b) == w.in = f /\ w.from = a /\ w.to = b

LEMMA BodyIs ==
  /\ Is(PutbufBody, "config_cache", 172, 260)
  /\ Is(PsemaBody, "config_cache", 260, 332)
  /\ Is(XfsBody, "wd93_earlyinit", 292, 332)
  /\ Is(SwtchBody, "wd93_earlyinit", 332, 368)
  /\ Is(ResumeBody, "wd93_earlyinit", 368, 400)
  /\ Is(UthreadBody, "wd93_earlyinit", 400, 456)
  /\ Is(FaultBody, "wd93edtinit", 8, 48)
  /\ Is(AttachBody, "wd93edtinit", 48, 132)
  /\ Is(MapGfxBody, "wd93edtinit", 132, 144)
  /\ Is(MapDeviceBody, "wd93edtinit", 256, 296)
BY DEF Is, R, PutbufBody, PsemaBody, XfsBody, SwtchBody, ResumeBody,
       UthreadBody, FaultBody, AttachBody, MapGfxBody, MapDeviceBody

LEMMA BodyCases ==
  ASSUME NEW b \in Bodies
  PROVE  \/ b = PutbufBody
         \/ b = PsemaBody
         \/ b = XfsBody
         \/ b = SwtchBody
         \/ b = ResumeBody
         \/ b = UthreadBody
         \/ b = FaultBody
         \/ b = AttachBody
         \/ b = MapGfxBody
         \/ b = MapDeviceBody
BY DEF Bodies

LEMMA WordIs ==
  ASSUME NEW w \in PlaceWords
  PROVE  \/ w \in Bodies
         \/ Is(w, "config_cache", 144, 148)
         \/ Is(w, "config_cache", 164, 168)
         \/ Is(w, "wd93_earlyinit", 0, 8)
         \/ Is(w, "wd93edtinit", 0, 8)
         \/ Is(w, "psema", 48, 52)
         \/ Is(w, "btree_load", 0, 8)
         \/ Is(w, "swtch_load", 0, 4)
         \/ Is(w, "resume", 0, 4)
         \/ Is(w, "uthread_load", 0, 4)
         \/ Is(w, "mmap_store", 0, 8)
<1>1. /\ Is(R("config_cache", 144, 148), "config_cache", 144, 148)
      /\ Is(R("config_cache", 164, 168), "config_cache", 164, 168)
      /\ Is(R("wd93_earlyinit", 0, 8), "wd93_earlyinit", 0, 8)
      /\ Is(R("wd93edtinit", 0, 8), "wd93edtinit", 0, 8)
      /\ Is(R("psema", 48, 52), "psema", 48, 52)
      /\ Is(R("btree_load", 0, 8), "btree_load", 0, 8)
      /\ Is(R("swtch_load", 0, 4), "swtch_load", 0, 4)
      /\ Is(R("resume", 0, 4), "resume", 0, 4)
      /\ Is(R("uthread_load", 0, 4), "uthread_load", 0, 4)
      /\ Is(R("mmap_store", 0, 8), "mmap_store", 0, 8)
  BY DEF R, Is
<1>2. \/ w \in Bodies
      \/ w = R("config_cache", 144, 148)
      \/ w = R("config_cache", 164, 168)
      \/ w = R("wd93_earlyinit", 0, 8)
      \/ w = R("wd93edtinit", 0, 8)
      \/ w = R("psema", 48, 52)
      \/ w = R("btree_load", 0, 8)
      \/ w = R("swtch_load", 0, 4)
      \/ w = R("resume", 0, 4)
      \/ w = R("uthread_load", 0, 4)
      \/ w = R("mmap_store", 0, 8)
  BY Zenon DEF PlaceWords
<1> QED BY <1>1, <1>2, ZenonT(60)

(* No two of the words overlap when one is a trampoline.                   *)
LEMMA Layout ==
  ASSUME NEW b \in Bodies, NEW w \in PlaceWords, b # w
  PROVE  ~Overlap(b, w)
<1>0. b.in = "config_cache" \/ b.in = "wd93_earlyinit" \/ b.in = "wd93edtinit"
  BY BodyIs, BodyCases DEF Is
<1>1. CASE w \in Bodies
  <2>1. CASE b = PutbufBody
    BY <1>1, <2>1, BodyIs, BodyCases DEF Is, Overlap
  <2>2. CASE b = PsemaBody
    BY <1>1, <2>2, BodyIs, BodyCases DEF Is, Overlap
  <2>3. CASE b = XfsBody
    BY <1>1, <2>3, BodyIs, BodyCases DEF Is, Overlap
  <2>4. CASE b = SwtchBody
    BY <1>1, <2>4, BodyIs, BodyCases DEF Is, Overlap
  <2>5. CASE b = ResumeBody
    BY <1>1, <2>5, BodyIs, BodyCases DEF Is, Overlap
  <2>6. CASE b = UthreadBody
    BY <1>1, <2>6, BodyIs, BodyCases DEF Is, Overlap
  <2>7. CASE b = FaultBody
    BY <1>1, <2>7, BodyIs, BodyCases DEF Is, Overlap
  <2>8. CASE b = AttachBody
    BY <1>1, <2>8, BodyIs, BodyCases DEF Is, Overlap
  <2>9. CASE b = MapGfxBody
    BY <1>1, <2>9, BodyIs, BodyCases DEF Is, Overlap
  <2>10. CASE b = MapDeviceBody
    BY <1>1, <2>10, BodyIs, BodyCases DEF Is, Overlap
  <2> QED BY <2>1, <2>2, <2>3, <2>4, <2>5, <2>6, <2>7, <2>8, <2>9, <2>10, BodyCases
<1>2. CASE w \notin Bodies
  <2>1. CASE Is(w, "config_cache", 144, 148)
    BY <2>1, BodyIs, BodyCases DEF Is, Overlap
  <2>2. CASE Is(w, "config_cache", 164, 168)
    BY <2>2, BodyIs, BodyCases DEF Is, Overlap
  <2>3. CASE Is(w, "wd93_earlyinit", 0, 8)
    BY <2>3, BodyIs, BodyCases DEF Is, Overlap
  <2>4. CASE Is(w, "wd93edtinit", 0, 8)
    BY <2>4, BodyIs, BodyCases DEF Is, Overlap
  <2>5. CASE Is(w, "psema", 48, 52)
    BY <1>0, <2>5 DEF Is, Overlap
  <2>6. CASE Is(w, "btree_load", 0, 8)
    BY <1>0, <2>6 DEF Is, Overlap
  <2>7. CASE Is(w, "swtch_load", 0, 4)
    BY <1>0, <2>7 DEF Is, Overlap
  <2>8. CASE Is(w, "resume", 0, 4)
    BY <1>0, <2>8 DEF Is, Overlap
  <2>9. CASE Is(w, "uthread_load", 0, 4)
    BY <1>0, <2>9 DEF Is, Overlap
  <2>10. CASE Is(w, "mmap_store", 0, 8)
    BY <1>0, <2>10 DEF Is, Overlap
  <2> QED BY <1>2, <2>1, <2>2, <2>3, <2>4, <2>5, <2>6, <2>7, <2>8, <2>9, <2>10, WordIs
<1> QED BY <1>1, <1>2

LEMMA BodyPlaces ==
  ASSUME NEW b \in Bodies
  PROVE  b.in \in {"config_cache"} \cup Hosts /\ b.in \in Places
<1>1. b.in = "config_cache" \/ b.in = "wd93_earlyinit" \/ b.in = "wd93edtinit"
  BY BodyIs, BodyCases DEF Is
<1> QED BY <1>1 DEF Hosts, Places

(* So the invariant gives both properties.                                 *)
LEMMA InvSafe ==
  ASSUME PatchInv
  PROVE  TrampolinesSafe
<1> SUFFICES ASSUME NEW b \in Bodies \cap words, NEW w \in words \ {b}, Overlap(b, w)
             PROVE  FALSE
  BY DEF PatchInv, TrampolinesSafe
<1>1. w.in = b.in
  BY DEF Overlap
<1>2. w \in PlaceWords
  BY <1>1, BodyPlaces DEF PatchInv, Known
<1> QED BY <1>2, Layout

LEMMA InvLands ==
  ASSUME PatchInv
  PROVE  RedirectsLand
<1> SUFFICES ASSUME NEW h \in hooks, NEW b \in h.back, NEW w \in words, Overlap(b, w)
             PROVE  FALSE
  BY DEF PatchInv, RedirectsLand, Lands
<1>1. Clear(b) /\ Known(w)
  BY DEF PatchInv, Lands
<1>2. w.in = b.in
  BY DEF Overlap
<1> QED BY <1>1, <1>2 DEF Clear, Known
-----------------------------------------------------------------------------
(* An effect that may be applied: what it diverts lands and the code its   *)
(* trampolines lie in is dead.                                             *)
InHost(b) == b.in \in Hosts \cap stubbed /\ 8 <= b.from /\ b.to <= DeadTo(b.in)
JumpedOver(b) == b.in = "config_cache" /\ 172 <= b.from /\ b.to <= 348

EffectOk(e) ==
  /\ \A w \in e.words : Known(w)
  /\ \A b \in Bodies \cap e.words : InHost(b) \/ (BranchHook \in e.hooks /\ JumpedOver(b))
  /\ \A h \in e.hooks : Lands(h, words \cup e.words)

LEMMA EffectIs ==
  ASSUME NEW w, NEW s, NEW h
  PROVE  Effect(w, s, h).words = w /\ Effect(w, s, h).stubs = s /\ Effect(w, s, h).hooks = h
BY DEF Effect

LEMMA HookIs ==
  ASSUME NEW r, NEW b, NEW k
  PROVE  Hook(r, b, k).at = r /\ Hook(r, b, k).body = b /\ Hook(r, b, k).back = k
BY DEF Hook

LEMMA Steps ==
  ASSUME NEW n \in Nat
  PROVE  /\ n + 1 \in Nat
         /\ n + 1 > 4 => n = 4 \/ n > 4
         /\ n + 1 > 20 => n = 20 \/ n > 20
OBVIOUS

LEMMA ApplyKeeps ==
  ASSUME PatchInv, NEW n \in Nat, NEW e, Apply(n, e), EffectOk(e),
         n = 4 => (Found(CacheSymbols) /\ Seen("bnez_v0") => PsemaBody \in e.words),
         n = 20 => \A f \in Hosts : Found({f}) => f \in e.stubs
  PROVE  PatchInv'
<1>1. /\ step = n /\ step' = n + 1 /\ words' = words \cup e.words
      /\ stubbed' = stubbed \cup e.stubs /\ hooks' = hooks \cup e.hooks /\ kern' = kern
  BY DEF Apply
<1>a. step = n /\ step' = n + 1
  BY DEF Apply
<1>2. \A w \in words' : Known(w)
  BY <1>1 DEF PatchInv, EffectOk
<1>3. ASSUME NEW b \in Bodies, b \in words'
      PROVE  Dead(b)'
  <2>1. CASE b \in words
    BY <1>1, <2>1 DEF PatchInv, Dead
  <2>2. CASE b \in e.words
    BY <1>1, <2>2 DEF EffectOk, InHost, JumpedOver, Dead, Hosts
  <2> QED BY <1>1, <1>3, <2>1, <2>2
<1>4. \A h \in hooks' : Lands(h, words)'
  <2>1. \A S : Found(S)' <=> Found(S)
    BY <1>1 DEF Found
  <2>2. ASSUME NEW h, Lands(h, words) \/ Lands(h, words \cup e.words)
        PROVE  Lands(h, words)'
    <3>1. words \subseteq words' /\ words \cup e.words = words'
      BY <1>1
    <3>2. /\ h.at \in words' /\ h.body \in words' /\ (h.body = AttachBody => FaultBody \in words')
          /\ Found(Refers(h.body)) /\ \A b \in h.back : Clear(b)
      BY <2>2, <3>1 DEF Lands
    <3>3. Found(Refers(h.body))'
      BY <1>1, <3>2 DEF Found
    <3> QED BY <3>2, <3>3, Zenon DEF Lands
  <2> QED BY <1>1, <2>2 DEF PatchInv, EffectOk
<1>5. step' \in Nat
  BY <1>a, Steps, Zenon
<1>6. step' > 4 => (Found(CacheSymbols)' /\ Seen("bnez_v0")' => PsemaBody \in words')
  <2>1. Found(CacheSymbols)' = Found(CacheSymbols) /\ Seen("bnez_v0")' = Seen("bnez_v0")
    BY <1>1 DEF Found, Seen
  <2>2. step' > 4 => n = 4 \/ step > 4
    BY <1>a, Steps, Zenon
  <2> QED BY <1>1, <2>1, <2>2 DEF PatchInv
<1>7. step' > 20 => \A f \in Hosts : Found({f})' => f \in stubbed'
  <2>1. \A S : Found(S)' <=> Found(S)
    BY <1>1 DEF Found
  <2>2. step' > 20 => n = 20 \/ step > 20
    BY <1>a, Steps, Zenon
  <2> QED BY <1>1, <2>1, <2>2 DEF PatchInv, Hosts
<1> QED BY <1>2, <1>3, <1>4, <1>5, <1>6, <1>7 DEF PatchInv

LEMMA WhenOk ==
  ASSUME NEW c, NEW e, c => EffectOk(e)
  PROVE  EffectOk(When(c, e))
BY EffectIs DEF When, Nothing, EffectOk

LEMMA BothOk ==
  ASSUME NEW d, NEW e, EffectOk(d), EffectOk(e)
  PROVE  EffectOk(Both(d, e))
BY EffectIs DEF Both, EffectOk, Lands

(* Writes at other places, and the stubs.                                  *)
LEMMA Elsewhere ==
  ASSUME NEW f, NEW a, NEW b, f \notin Places
  PROVE  Known(R(f, a, b)) /\ R(f, a, b) \notin Bodies
BY RIs, BodyPlaces DEF Known

LEMMA WriteOk ==
  ASSUME NEW f, NEW a, NEW b, f \notin Places
  PROVE  EffectOk(Write(R(f, a, b)))
BY Elsewhere, EffectIs DEF Write, EffectOk

LEMMA ReturnOk ==
  ASSUME NEW f, NEW b, f \notin Places
  PROVE  EffectOk(ReturnAtOnce(f, b))
BY Elsewhere, EffectIs DEF ReturnAtOnce, EffectOk

LEMMA HostOk ==
  ASSUME NEW f \in Hosts
  PROVE  EffectOk(ReturnAtOnce(f, 8))
<1>1. R("wd93_earlyinit", 0, 8) \in PlaceWords /\ R("wd93edtinit", 0, 8) \in PlaceWords
  BY DEF PlaceWords
<1>2. R(f, 0, 8) \in PlaceWords
  BY <1>1 DEF Hosts
<1>3. R(f, 0, 8) \notin Bodies
  BY RIs, BodyIs, BodyCases DEF Is
<1> QED BY <1>2, <1>3, EffectIs DEF ReturnAtOnce, EffectOk, Known

LEMMA DivertOk ==
  ASSUME NEW h, NEW B \in SUBSET Bodies, Known(h.at), h.at \notin Bodies,
         \A b \in B : InHost(b) \/ (h = BranchHook /\ JumpedOver(b)),
         h.body \in words \cup B, h.body = AttachBody => FaultBody \in words \cup B,
         Found(Refers(h.body)), \A b \in h.back : Clear(b)
  PROVE  EffectOk(Divert(h, B))
<1>1. Divert(h, B).words = {h.at} \cup B /\ Divert(h, B).hooks = {h}
  BY EffectIs DEF Divert
<1>2. \A w \in B : Known(w)
  BY DEF Known, PlaceWords
<1> QED BY <1>1, <1>2 DEF EffectOk, Lands
-----------------------------------------------------------------------------
(* The words the trampolines come back to.                                 *)
LEMMA HostOf ==
  ASSUME NEW b \in Bodies
  PROVE  b.in = "config_cache" \/ b.in = "wd93_earlyinit" \/ b.in = "wd93edtinit"
BY BodyIs, BodyCases DEF Is

LEMMA PlaceIs ==
  ASSUME NEW w \in PlaceWords
  PROVE  /\ w.in = "config_cache" => w \in Bodies \/ w.to = 148 \/ w.to = 168
         /\ w.in = "psema" => w.from = 48 /\ w.to = 52
         /\ w.in = "btree_load" => w.from = 0 /\ w.to = 8
         /\ w.in = "swtch_load" => w.from = 0 /\ w.to = 4
         /\ w.in = "resume" => w.from = 0 /\ w.to = 4
         /\ w.in = "uthread_load" => w.from = 0 /\ w.to = 4
         /\ w.in = "mmap_store" => w.from = 0 /\ w.to = 8
<1>0. CASE w \in Bodies
  BY <1>0, HostOf
<1>1. CASE Is(w, "config_cache", 144, 148)
  BY <1>1 DEF Is
<1>2. CASE Is(w, "config_cache", 164, 168)
  BY <1>2 DEF Is
<1>3. CASE Is(w, "wd93_earlyinit", 0, 8)
  BY <1>3 DEF Is
<1>4. CASE Is(w, "wd93edtinit", 0, 8)
  BY <1>4 DEF Is
<1>5. CASE Is(w, "psema", 48, 52)
  BY <1>5 DEF Is
<1>6. CASE Is(w, "btree_load", 0, 8)
  BY <1>6 DEF Is
<1>7. CASE Is(w, "swtch_load", 0, 4)
  BY <1>7 DEF Is
<1>8. CASE Is(w, "resume", 0, 4)
  BY <1>8 DEF Is
<1>9. CASE Is(w, "uthread_load", 0, 4)
  BY <1>9 DEF Is
<1>10. CASE Is(w, "mmap_store", 0, 8)
  BY <1>10 DEF Is
<1> QED BY <1>0, <1>1, <1>2, <1>3, <1>4, <1>5, <1>6, <1>7, <1>8, <1>9, <1>10, WordIs

LEMMA BranchBack == Clear(R("config_cache", 348, 352))
<1> DEFINE b == R("config_cache", 348, 352)
<1>1. b.in = "config_cache" /\ b.from = 348 /\ b.to = 352
  BY DEF R
<1> HIDE DEF b
<1>2. ASSUME NEW w \in PlaceWords PROVE ~Overlap(b, w)
  <2>1. CASE w \in Bodies
    BY <1>1, <2>1, BodyIs, BodyCases DEF Is, Overlap
  <2>2. CASE w \notin Bodies
    <3>1. w.in = "config_cache" => w.to = 148 \/ w.to = 168
      BY <2>2, PlaceIs
    <3> QED BY <1>1, <3>1 DEF Overlap
  <2> QED BY <2>1, <2>2
<1> QED BY <1>1, <1>2 DEF Clear, Places, b

LEMMA Backs ==
  /\ Clear(R("psema", 56, 60))
  /\ Clear(R("psema", 72, 76))
  /\ Clear(R("btree_load", -612, -608))
  /\ Clear(R("swtch_load", 4, 8))
  /\ Clear(R("swtch_load", 16, 20))
  /\ Clear(R("resume", 8, 12))
  /\ Clear(R("uthread_load", 4, 8))
  /\ Clear(R("mmap_store", 8, 12))
<1>1. Clear(R("psema", 56, 60))
  <2> DEFINE b == R("psema", 56, 60)
  <2>1. b.in = "psema" /\ b.from = 56 /\ b.to = 60
    BY DEF R
  <2> HIDE DEF b
  <2>2. ASSUME NEW w \in PlaceWords PROVE ~Overlap(b, w)
    <3>1. w.in = "psema" => w.from = 48 /\ w.to = 52
      BY PlaceIs
    <3> QED BY <2>1, <3>1 DEF Overlap
  <2> QED BY <2>1, <2>2 DEF Clear, Places, b
<1>2. Clear(R("psema", 72, 76))
  <2> DEFINE b == R("psema", 72, 76)
  <2>1. b.in = "psema" /\ b.from = 72 /\ b.to = 76
    BY DEF R
  <2> HIDE DEF b
  <2>2. ASSUME NEW w \in PlaceWords PROVE ~Overlap(b, w)
    <3>1. w.in = "psema" => w.from = 48 /\ w.to = 52
      BY PlaceIs
    <3> QED BY <2>1, <3>1 DEF Overlap
  <2> QED BY <2>1, <2>2 DEF Clear, Places, b
<1>3. Clear(R("btree_load", -612, -608))
  <2> DEFINE b == R("btree_load", -612, -608)
  <2>1. b.in = "btree_load" /\ b.from = -612 /\ b.to = -608
    BY DEF R
  <2> HIDE DEF b
  <2>2. ASSUME NEW w \in PlaceWords PROVE ~Overlap(b, w)
    <3>1. w.in = "btree_load" => w.from = 0 /\ w.to = 8
      BY PlaceIs
    <3> QED BY <2>1, <3>1 DEF Overlap
  <2> QED BY <2>1, <2>2 DEF Clear, Places, b
<1>4. Clear(R("swtch_load", 4, 8))
  <2> DEFINE b == R("swtch_load", 4, 8)
  <2>1. b.in = "swtch_load" /\ b.from = 4 /\ b.to = 8
    BY DEF R
  <2> HIDE DEF b
  <2>2. ASSUME NEW w \in PlaceWords PROVE ~Overlap(b, w)
    <3>1. w.in = "swtch_load" => w.from = 0 /\ w.to = 4
      BY PlaceIs
    <3> QED BY <2>1, <3>1 DEF Overlap
  <2> QED BY <2>1, <2>2 DEF Clear, Places, b
<1>5. Clear(R("swtch_load", 16, 20))
  <2> DEFINE b == R("swtch_load", 16, 20)
  <2>1. b.in = "swtch_load" /\ b.from = 16 /\ b.to = 20
    BY DEF R
  <2> HIDE DEF b
  <2>2. ASSUME NEW w \in PlaceWords PROVE ~Overlap(b, w)
    <3>1. w.in = "swtch_load" => w.from = 0 /\ w.to = 4
      BY PlaceIs
    <3> QED BY <2>1, <3>1 DEF Overlap
  <2> QED BY <2>1, <2>2 DEF Clear, Places, b
<1>6. Clear(R("resume", 8, 12))
  <2> DEFINE b == R("resume", 8, 12)
  <2>1. b.in = "resume" /\ b.from = 8 /\ b.to = 12
    BY DEF R
  <2> HIDE DEF b
  <2>2. ASSUME NEW w \in PlaceWords PROVE ~Overlap(b, w)
    <3>1. w.in = "resume" => w.from = 0 /\ w.to = 4
      BY PlaceIs
    <3> QED BY <2>1, <3>1 DEF Overlap
  <2> QED BY <2>1, <2>2 DEF Clear, Places, b
<1>7. Clear(R("uthread_load", 4, 8))
  <2> DEFINE b == R("uthread_load", 4, 8)
  <2>1. b.in = "uthread_load" /\ b.from = 4 /\ b.to = 8
    BY DEF R
  <2> HIDE DEF b
  <2>2. ASSUME NEW w \in PlaceWords PROVE ~Overlap(b, w)
    <3>1. w.in = "uthread_load" => w.from = 0 /\ w.to = 4
      BY PlaceIs
    <3> QED BY <2>1, <3>1 DEF Overlap
  <2> QED BY <2>1, <2>2 DEF Clear, Places, b
<1>8. Clear(R("mmap_store", 8, 12))
  <2> DEFINE b == R("mmap_store", 8, 12)
  <2>1. b.in = "mmap_store" /\ b.from = 8 /\ b.to = 12
    BY DEF R
  <2> HIDE DEF b
  <2>2. ASSUME NEW w \in PlaceWords PROVE ~Overlap(b, w)
    <3>1. w.in = "mmap_store" => w.from = 0 /\ w.to = 8
      BY PlaceIs
    <3> QED BY <2>1, <3>1 DEF Overlap
  <2> QED BY <2>1, <2>2 DEF Clear, Places, b
<1> QED BY <1>1, <1>2, <1>3, <1>4, <1>5, <1>6, <1>7, <1>8
-----------------------------------------------------------------------------
(* The effects one by one.                                                 *)
LEMMA HostDead ==
  ASSUME PatchInv, step > 20, NEW b \in Bodies, b.in \in Hosts, Found({b.in})
  PROVE  InHost(b)
<1>1. b.in \in stubbed
  BY DEF PatchInv
<1>2. b.in = "wd93_earlyinit" => 8 <= b.from /\ b.to <= 496
  BY BodyIs, BodyCases DEF Is
<1>3. b.in = "wd93edtinit" => 8 <= b.from /\ b.to <= 724
  BY BodyIs, BodyCases DEF Is
<1> QED BY <1>1, <1>2, <1>3 DEF InHost, DeadTo, Hosts

LEMMA AtIs ==
  ASSUME NEW r, r \in PlaceWords, r.in \notin {"config_cache", "wd93_earlyinit", "wd93edtinit"}
  PROVE  Known(r) /\ r \notin Bodies
BY HostOf DEF Known

LEMMA Differ ==
  /\ PutbufBody # PsemaBody /\ PutbufBody # AttachBody /\ PsemaBody # AttachBody
  /\ \A b \in {XfsBody, SwtchBody, ResumeBody, UthreadBody, FaultBody, MapGfxBody, MapDeviceBody} :
       b # PutbufBody /\ b # PsemaBody /\ b # AttachBody
BY BodyIs DEF Is

LEMMA RefersIs ==
  /\ Refers(PutbufBody) = {"putbuf", "putbufsz", "maxcpus"}
  /\ Refers(PsemaBody) = {"psema"}
  /\ Refers(AttachBody) = {"gfxdd_mmap"}
  /\ \A b \in {XfsBody, SwtchBody, ResumeBody, UthreadBody, FaultBody, MapGfxBody, MapDeviceBody} :
       Refers(b) = {}
BY Differ DEF Refers

LEMMA CacheSizeOk == EffectOk(CacheSize)
<1> DEFINE r == R("config_cache", 144, 148)
<1>1. r \in PlaceWords
  BY DEF PlaceWords
<1>2. r \notin Bodies
  <2>1. r.from = 144
    BY DEF R
  <2> HIDE DEF r
  <2> QED BY <2>1, BodyIs, BodyCases DEF Is
<1>3. EffectOk(Write(r))
  BY <1>1, <1>2, EffectIs DEF Write, EffectOk, Known
<1> QED BY <1>3, WhenOk DEF CacheSize

(* The branch in config_cache(), with both trampolines behind it.          *)
LEMMA PutbufOk == EffectOk(PutbufTrampoline)
<1> DEFINE c == Found(CacheSymbols) /\ Seen("bnez_v0")
           r == R("config_cache", 164, 168)
<1> SUFFICES ASSUME c PROVE EffectOk(Divert(BranchHook, {PutbufBody, PsemaBody}))
  BY WhenOk DEF PutbufTrampoline
<1>1. BranchHook.at = r /\ BranchHook.body = PutbufBody
      /\ BranchHook.back = {R("config_cache", 348, 352)}
  BY HookIs DEF BranchHook
<1>2. r \in PlaceWords
  BY DEF PlaceWords
<1>3. r \notin Bodies
  <2>1. r.from = 164
    BY DEF R
  <2> HIDE DEF r
  <2> QED BY <2>1, BodyIs, BodyCases DEF Is
<1>4. {PutbufBody, PsemaBody} \subseteq Bodies
  BY DEF Bodies
<1>5. JumpedOver(PutbufBody) /\ JumpedOver(PsemaBody)
  BY BodyIs DEF JumpedOver, Is
<1>6. Found(Refers(PutbufBody))
  BY RefersIs DEF Found, CacheSymbols
<1>7. \A b \in BranchHook.back : Clear(b)
  BY <1>1, BranchBack
<1> HIDE DEF r
<1> QED BY <1>1, <1>2, <1>3, <1>4, <1>5, <1>6, <1>7, Differ, DivertOk DEF Known

(* The one in psema(): its trampoline was written with the branch.         *)
LEMMA PsemaOk ==
  ASSUME PatchInv, step = 5
  PROVE  EffectOk(PsemaTrampoline)
<1> DEFINE c == Found(CacheSymbols) /\ Seen("bnez_v0") /\ Seen("bltz_v1")
           r == R("psema", 48, 52)
           h == Hook(r, PsemaBody, {R("psema", 56, 60), R("psema", 72, 76)})
<1> SUFFICES ASSUME c PROVE EffectOk(Divert(h, {}))
  BY WhenOk DEF PsemaTrampoline
<1>1. h.at = r /\ h.body = PsemaBody /\ h.back = {R("psema", 56, 60), R("psema", 72, 76)}
  BY HookIs
<1>2. r \in PlaceWords /\ r.in = "psema"
  BY RIs DEF PlaceWords
<1>3. Known(r) /\ r \notin Bodies
  BY <1>2, AtIs
<1>4. PsemaBody \in words
  BY DEF PatchInv
<1>5. Found(Refers(PsemaBody))
  BY RefersIs DEF Found, CacheSymbols
<1>6. \A b \in h.back : Clear(b)
  BY <1>1, Backs
<1> HIDE DEF h, r
<1> QED BY <1>1, <1>3, <1>4, <1>5, <1>6, Differ, DivertOk

LEMMA XfsOk ==
  ASSUME PatchInv, step > 20
  PROVE  EffectOk(XfsGuard)
<1> DEFINE c == Found({"xfs_da_node_lookup_int", "wd93_earlyinit"}) /\ Seen("lw_s5")
           r == R("btree_load", 0, 8)
           h == Hook(r, XfsBody, {R("btree_load", -612, -608)})
<1> SUFFICES ASSUME c PROVE EffectOk(Divert(h, {XfsBody}))
  <2>1. XfsGuard = When(c, Divert(h, {XfsBody}))
    BY DEF XfsGuard
  <2>2. c \in BOOLEAN
    OBVIOUS
  <2> HIDE DEF c, h
  <2> QED BY <2>1, <2>2, WhenOk
<1>1. h.at = r /\ h.body = XfsBody /\ h.back = {R("btree_load", -612, -608)}
  BY HookIs
<1>2. r \in PlaceWords /\ r.in = "btree_load"
  BY RIs DEF PlaceWords
<1>3. Known(r) /\ r \notin Bodies
  BY <1>2, AtIs
<1>4. XfsBody \in Bodies /\ XfsBody.in = "wd93_earlyinit" /\ XfsBody # AttachBody
  BY BodyIs, Differ DEF Bodies, Is
<1>5. Found({"wd93_earlyinit"})
  BY DEF Found
<1>6. InHost(XfsBody)
  BY <1>4, <1>5, HostDead DEF Hosts
<1>7. Found(Refers(XfsBody))
  BY RefersIs DEF Found
<1>8. \A b \in h.back : Clear(b)
  BY <1>1, Backs
<1> HIDE DEF h, r
<1> QED BY <1>1, <1>3, <1>4, <1>6, <1>7, <1>8, DivertOk

LEMMA SwtchOk ==
  ASSUME PatchInv, step > 20
  PROVE  EffectOk(SwtchGuard)
<1> DEFINE c == Found({"swtch", "wd93_earlyinit"}) /\ Seen("lw_a2")
           r == R("swtch_load", 0, 4)
           h == Hook(r, SwtchBody, {R("swtch_load", 4, 8), R("swtch_load", 16, 20)})
<1> SUFFICES ASSUME c PROVE EffectOk(Divert(h, {SwtchBody}))
  BY WhenOk DEF SwtchGuard
<1>1. h.at = r /\ h.body = SwtchBody /\ h.back = {R("swtch_load", 4, 8), R("swtch_load", 16, 20)}
  BY HookIs
<1>2. r \in PlaceWords /\ r.in = "swtch_load"
  BY RIs DEF PlaceWords
<1>3. Known(r) /\ r \notin Bodies
  BY <1>2, AtIs
<1>4. SwtchBody \in Bodies /\ SwtchBody.in = "wd93_earlyinit" /\ SwtchBody # AttachBody
  BY BodyIs, Differ DEF Bodies, Is
<1>5. Found({"wd93_earlyinit"})
  BY DEF Found
<1>6. InHost(SwtchBody)
  BY <1>4, <1>5, HostDead DEF Hosts
<1>7. Found(Refers(SwtchBody))
  BY RefersIs DEF Found
<1>8. \A b \in h.back : Clear(b)
  BY <1>1, Backs
<1> HIDE DEF h, r
<1> QED BY <1>1, <1>3, <1>4, <1>6, <1>7, <1>8, DivertOk

LEMMA ResumeOk ==
  ASSUME PatchInv, step > 20
  PROVE  EffectOk(ResumeGuard)
<1> DEFINE c == Found({"resume", "wd93_earlyinit"}) /\ Seen("resume_entry")
           r == R("resume", 0, 4)
           h == Hook(r, ResumeBody, {R("resume", 8, 12)})
<1> SUFFICES ASSUME c PROVE EffectOk(Divert(h, {ResumeBody}))
  BY WhenOk DEF ResumeGuard
<1>1. h.at = r /\ h.body = ResumeBody /\ h.back = {R("resume", 8, 12)}
  BY HookIs
<1>2. r \in PlaceWords /\ r.in = "resume"
  BY RIs DEF PlaceWords
<1>3. Known(r) /\ r \notin Bodies
  BY <1>2, AtIs
<1>4. ResumeBody \in Bodies /\ ResumeBody.in = "wd93_earlyinit" /\ ResumeBody # AttachBody
  BY BodyIs, Differ DEF Bodies, Is
<1>5. Found({"wd93_earlyinit"})
  BY DEF Found
<1>6. InHost(ResumeBody)
  BY <1>4, <1>5, HostDead DEF Hosts
<1>7. Found(Refers(ResumeBody))
  BY RefersIs DEF Found
<1>8. \A b \in h.back : Clear(b)
  BY <1>1, Backs
<1> HIDE DEF h, r
<1> QED BY <1>1, <1>3, <1>4, <1>6, <1>7, <1>8, DivertOk

LEMMA UthreadOk ==
  ASSUME PatchInv, step > 20
  PROVE  EffectOk(UthreadGuard)
<1> DEFINE c == Found({"uthread_dup", "wd93_earlyinit"}) /\ Seen("lw_v0")
           r == R("uthread_load", 0, 4)
           h == Hook(r, UthreadBody, {R("uthread_load", 4, 8)})
<1> SUFFICES ASSUME c PROVE EffectOk(Divert(h, {UthreadBody}))
  BY WhenOk DEF UthreadGuard
<1>1. h.at = r /\ h.body = UthreadBody /\ h.back = {R("uthread_load", 4, 8)}
  BY HookIs
<1>2. r \in PlaceWords /\ r.in = "uthread_load"
  BY RIs DEF PlaceWords
<1>3. Known(r) /\ r \notin Bodies
  BY <1>2, AtIs
<1>4. UthreadBody \in Bodies /\ UthreadBody.in = "wd93_earlyinit" /\ UthreadBody # AttachBody
  BY BodyIs, Differ DEF Bodies, Is
<1>5. Found({"wd93_earlyinit"})
  BY DEF Found
<1>6. InHost(UthreadBody)
  BY <1>4, <1>5, HostDead DEF Hosts
<1>7. Found(Refers(UthreadBody))
  BY RefersIs DEF Found
<1>8. \A b \in h.back : Clear(b)
  BY <1>1, Backs
<1> HIDE DEF h, r
<1> QED BY <1>1, <1>3, <1>4, <1>6, <1>7, <1>8, DivertOk

LEMMA MapDeviceOk ==
  ASSUME PatchInv, step > 20
  PROVE  EffectOk(MapDevice)
<1> DEFINE c == Found({"pas_addmmapdevice", "wd93edtinit"}) /\ Seen("sd_t0")
           r == R("mmap_store", 0, 8)
           h == Hook(r, MapDeviceBody, {R("mmap_store", 8, 12)})
<1> SUFFICES ASSUME c PROVE EffectOk(Divert(h, {MapDeviceBody}))
  BY WhenOk DEF MapDevice
<1>1. h.at = r /\ h.body = MapDeviceBody /\ h.back = {R("mmap_store", 8, 12)}
  BY HookIs
<1>2. r \in PlaceWords /\ r.in = "mmap_store"
  BY RIs DEF PlaceWords
<1>3. Known(r) /\ r \notin Bodies
  BY <1>2, AtIs
<1>4. MapDeviceBody \in Bodies /\ MapDeviceBody.in = "wd93edtinit" /\ MapDeviceBody # AttachBody
  BY BodyIs, Differ DEF Bodies, Is
<1>5. Found({"wd93edtinit"})
  BY DEF Found
<1>6. InHost(MapDeviceBody)
  BY <1>4, <1>5, HostDead DEF Hosts
<1>7. Found(Refers(MapDeviceBody))
  BY RefersIs DEF Found
<1>8. \A b \in h.back : Clear(b)
  BY <1>1, Backs
<1> HIDE DEF h, r
<1> QED BY <1>1, <1>3, <1>4, <1>6, <1>7, <1>8, DivertOk
(* The frame buffer's entries: the third leads where the second does.      *)
LEMMA PvfbOk ==
  ASSUME PatchInv, step > 20
  PROVE  EffectOk(PvfbVtable)
<1> DEFINE c == /\ Found({"gfxdd_mmap", "ddv_mappages", "gfx_fault", "wd93edtinit"})
                /\ Found({"GfxRegisterBoard", "pvfbedtinit"}) /\ Seen("vtable_load")
           r(n) == R("pvfb_vtable", 4 * n, 4 * n + 4)
           attach == VtblHook(1, AttachBody)
           mapGfx == VtblHook(12, MapGfxBody)
           private == VtblHook(25, MapGfxBody)
           first == Divert(attach, {FaultBody, AttachBody})
           second == Both(Divert(mapGfx, {MapGfxBody}), Divert(private, {}))
<1>1. PvfbVtable = When(c, Both(first, second))
  BY DEF PvfbVtable
<1> SUFFICES ASSUME c PROVE EffectOk(first) /\ EffectOk(second)
  BY <1>1, WhenOk, BothOk
<1>2. /\ attach.at = r(1) /\ attach.body = AttachBody /\ attach.back = {}
      /\ mapGfx.at = r(12) /\ mapGfx.body = MapGfxBody /\ mapGfx.back = {}
      /\ private.at = r(25) /\ private.body = MapGfxBody /\ private.back = {}
  BY HookIs DEF VtblHook
<1>3. \A n : Known(r(n)) /\ r(n) \notin Bodies
  BY Elsewhere DEF Places
<1>4. /\ FaultBody \in Bodies /\ FaultBody.in = "wd93edtinit"
      /\ AttachBody \in Bodies /\ AttachBody.in = "wd93edtinit"
      /\ MapGfxBody \in Bodies /\ MapGfxBody.in = "wd93edtinit" /\ MapGfxBody # AttachBody
  BY BodyIs, Differ DEF Bodies, Is
<1>5. Found({"wd93edtinit"}) /\ Found(Refers(AttachBody)) /\ Found(Refers(MapGfxBody))
  BY RefersIs DEF Found
<1>6. InHost(FaultBody) /\ InHost(AttachBody) /\ InHost(MapGfxBody)
  BY <1>4, <1>5, HostDead DEF Hosts
<1>7. second.words = {mapGfx.at, private.at, MapGfxBody} /\ second.hooks = {mapGfx, private}
  BY EffectIs DEF Both, Divert
<1>8. Known(FaultBody) /\ Known(AttachBody) /\ Known(MapGfxBody)
  BY <1>4 DEF Known, PlaceWords
<1> HIDE DEF attach, mapGfx, private, second, r
<1>9. EffectOk(first)
  BY <1>2, <1>3, <1>4, <1>5, <1>6, DivertOk
<1>10. EffectOk(second)
  BY <1>2, <1>3, <1>4, <1>5, <1>6, <1>7, <1>8 DEF EffectOk, Lands
<1> QED BY <1>9, <1>10

LEMMA StubOk ==
  ASSUME NEW f, f \notin Places \/ f \in Hosts
  PROVE  EffectOk(Stub(f))
BY ReturnOk, HostOk, WhenOk DEF Stub, Found

LEMMA WdOk ==
  /\ EffectOk(Wd93Stubs)
  /\ \A f \in Hosts : Found({f}) => f \in Wd93Stubs.stubs
<1>1. EffectOk(Wd93Stubs)
  BY StubOk, BothOk DEF Wd93Stubs, Places, Hosts
<1>2. ASSUME NEW f \in Hosts, Found({f}) PROVE f \in Stub(f).stubs
  BY <1>2, EffectIs DEF Stub, When, ReturnAtOnce
<1>3. Stub("wd93_earlyinit").stubs \cup Stub("wd93edtinit").stubs \subseteq Wd93Stubs.stubs
  BY EffectIs DEF Wd93Stubs, Both
<1> QED BY <1>1, <1>2, <1>3 DEF Hosts

(* All others write elsewhere.                                             *)
LEMMA PlainOk ==
  /\ EffectOk(CprintfStore) /\ EffectOk(BcleanGuard) /\ EffectOk(Timestamp)
  /\ EffectOk(TimestampCopy) /\ EffectOk(TimestampReader) /\ EffectOk(Ovbcopy)
  /\ EffectOk(ContextBase) /\ EffectOk(MtextnodeGuards) /\ EffectOk(AllocCpupda)
  /\ EffectOk(BadaddrVal) /\ EffectOk(Wbadaddr) /\ EffectOk(C0vecTable)
  /\ EffectOk(Ioc1Flag) /\ EffectOk(GetR4kCounter) /\ EffectOk(LocoreEret)
  /\ EffectOk(Rtodc) /\ EffectOk(ResetLeds) /\ EffectOk(SetLeds)
  /\ EffectOk(FindCpuFreq) /\ EffectOk(Wd93Init) /\ EffectOk(PerrInit)
  /\ EffectOk(Ng1PixelDma) /\ EffectOk(IntrBase)
<1>1. EffectOk(CprintfStore)
  BY WriteOk, WhenOk, Zenon DEF CprintfStore, Places
<1>2. EffectOk(BcleanGuard)
  BY WriteOk, WhenOk DEF BcleanGuard, Places
<1>3. EffectOk(Timestamp)
  BY WriteOk, WhenOk DEF Timestamp, Places
<1>4. EffectOk(TimestampCopy)
  BY WriteOk, WhenOk DEF TimestampCopy, Places
<1>5. EffectOk(TimestampReader)
  BY WriteOk, WhenOk DEF TimestampReader, Places, Found, Seen
<1>6. EffectOk(Ovbcopy)
  BY WriteOk, WhenOk DEF Ovbcopy, Places, Found, Seen
<1>7. EffectOk(ContextBase)
  BY WriteOk, WhenOk, Zenon DEF ContextBase, Places
<1>8. EffectOk(MtextnodeGuards)
  BY WriteOk, WhenOk DEF MtextnodeGuards, Places
<1>9. EffectOk(AllocCpupda)
  BY WriteOk, WhenOk DEF AllocCpupda, Places
<1>10. EffectOk(BadaddrVal)
  BY WriteOk, WhenOk DEF BadaddrVal, Places
<1>11. EffectOk(Wbadaddr)
  BY WriteOk, WhenOk DEF Wbadaddr, Places
<1>12. EffectOk(C0vecTable)
  BY WriteOk, WhenOk, Zenon DEF C0vecTable, Places
<1>13. EffectOk(Ioc1Flag)
  BY WriteOk, WhenOk DEF Ioc1Flag, Places, Found, Seen
<1>14. EffectOk(GetR4kCounter)
  BY WriteOk, WhenOk DEF GetR4kCounter, Places
<1>15. EffectOk(LocoreEret)
  BY WriteOk, WhenOk DEF LocoreEret, Places
<1>16. EffectOk(Rtodc)
  BY ReturnOk, WhenOk DEF Rtodc, Places, Found, Seen
<1>17. EffectOk(ResetLeds)
  BY ReturnOk, WhenOk DEF ResetLeds, Places
<1>18. EffectOk(SetLeds)
  BY ReturnOk, WhenOk DEF SetLeds, Places
<1>19. EffectOk(FindCpuFreq)
  BY ReturnOk, WhenOk DEF FindCpuFreq, Places
<1>20. EffectOk(Wd93Init)
  BY StubOk DEF Wd93Init, Places
<1>21. EffectOk(PerrInit)
  BY StubOk DEF PerrInit, Places
<1>22. EffectOk(Ng1PixelDma)
  BY StubOk DEF Ng1PixelDma, Places
<1>23. EffectOk(IntrBase)
  <2> DEFINE ws == {R("intr_lui", 4 * i, 4 * i + 4) : i \in Changed}
                     \cup {R("intr_addiu", 4 * i, 4 * i + 4) : i \in Changed \cap Complete}
  <2>1. \A w \in ws : Known(w) /\ w \notin Bodies
    BY Elsewhere DEF Places
  <2> HIDE DEF ws
  <2>2. EffectOk(Effect(ws, {}, {}))
    BY <2>1, EffectIs DEF EffectOk
  <2> QED BY <2>2, WhenOk DEF IntrBase, ws
<1> QED BY <1>1, <1>2, <1>3, <1>4, <1>5, <1>6, <1>7, <1>8, <1>9, <1>10, <1>11, <1>12, <1>13, <1>14, <1>15, <1>16, <1>17, <1>18, <1>19, <1>20, <1>21, <1>22, <1>23
LEMMA PutbufWords ==
  Found(CacheSymbols) /\ Seen("bnez_v0") => PsemaBody \in PutbufTrampoline.words
BY EffectIs DEF PutbufTrampoline, When, Divert

LEMMA OneApply ==
  ASSUME PatchInv, NEW n \in Nat, NEW e, Apply(n, e), EffectOk(e), n # 4, n # 20
  PROVE  PatchInv'
BY ApplyKeeps

LEMMA NoWrite ==
  ASSUME PatchInv, UNCHANGED <<kern, words, stubbed, hooks>>,
         step' = step \/ (step = 9 /\ step' = 10)
  PROVE  PatchInv'
<1>1. step' \in Nat /\ (step' > 4 => step > 4) /\ (step' > 20 => step > 20)
  BY DEF PatchInv
<1> QED BY <1>1 DEF PatchInv, Known, Lands, Found, Seen, Dead

LEMMA PatchKeeps ==
  ASSUME PatchInv, Patch
  PROVE  PatchInv'
<1>1. ASSUME Apply(1, CprintfStore) PROVE PatchInv'
  BY <1>1, PlainOk, OneApply
<1>2. ASSUME Apply(2, BcleanGuard) PROVE PatchInv'
  BY <1>2, PlainOk, OneApply
<1>3. ASSUME Apply(3, CacheSize) PROVE PatchInv'
  BY <1>3, CacheSizeOk, OneApply
<1>4. ASSUME Apply(4, PutbufTrampoline) PROVE PatchInv'
  BY <1>4, PutbufOk, PutbufWords, ApplyKeeps
<1>5. ASSUME Apply(5, PsemaTrampoline) PROVE PatchInv'
  <2>1. step = 5
    BY <1>5 DEF Apply
  <2>2. EffectOk(PsemaTrampoline)
    BY <2>1, PsemaOk
  <2> QED BY <1>5, <2>2, OneApply
<1>6. ASSUME Apply(6, Timestamp) PROVE PatchInv'
  BY <1>6, PlainOk, OneApply
<1>7. ASSUME Apply(7, TimestampCopy) PROVE PatchInv'
  BY <1>7, PlainOk, OneApply
<1>8. ASSUME Apply(8, TimestampReader) PROVE PatchInv'
  BY <1>8, PlainOk, OneApply
<1>9. ASSUME Apply(10, Rtodc) PROVE PatchInv'
  BY <1>9, PlainOk, OneApply
<1>10. ASSUME Apply(11, Ovbcopy) PROVE PatchInv'
  BY <1>10, PlainOk, OneApply
<1>11. ASSUME Apply(12, ContextBase) PROVE PatchInv'
  BY <1>11, PlainOk, OneApply
<1>12. ASSUME Apply(13, MtextnodeGuards) PROVE PatchInv'
  BY <1>12, PlainOk, OneApply
<1>13. ASSUME Apply(15, AllocCpupda) PROVE PatchInv'
  BY <1>13, PlainOk, OneApply
<1>14. ASSUME Apply(16, FindCpuFreq) PROVE PatchInv'
  BY <1>14, PlainOk, OneApply
<1>15. ASSUME Apply(17, BadaddrVal) PROVE PatchInv'
  BY <1>15, PlainOk, OneApply
<1>16. ASSUME Apply(18, Wbadaddr) PROVE PatchInv'
  BY <1>16, PlainOk, OneApply
<1>17. ASSUME Apply(19, Wd93Init) PROVE PatchInv'
  BY <1>17, PlainOk, OneApply
<1>18. ASSUME Apply(20, Wd93Stubs) PROVE PatchInv'
  BY <1>18, WdOk, ApplyKeeps
<1>19. ASSUME Apply(21, C0vecTable) PROVE PatchInv'
  BY <1>19, PlainOk, OneApply
<1>20. ASSUME Apply(22, PerrInit) PROVE PatchInv'
  BY <1>20, PlainOk, OneApply
<1>21. ASSUME Apply(23, Both(IntrBase, Ioc1Flag)) PROVE PatchInv'
  BY <1>21, PlainOk, BothOk, OneApply
<1>22. ASSUME Apply(24, XfsGuard) PROVE PatchInv'
  <2>1. step = 24
    BY <1>22 DEF Apply
  <2>2. EffectOk(XfsGuard)
    BY <2>1, XfsOk
  <2> QED BY <1>22, <2>2, OneApply
<1>23. ASSUME Apply(25, Ng1PixelDma) PROVE PatchInv'
  BY <1>23, PlainOk, OneApply
<1>24. ASSUME Apply(26, SwtchGuard) PROVE PatchInv'
  <2>1. step = 26
    BY <1>24 DEF Apply
  <2>2. EffectOk(SwtchGuard)
    BY <2>1, SwtchOk
  <2> QED BY <1>24, <2>2, OneApply
<1>25. ASSUME Apply(27, ResumeGuard) PROVE PatchInv'
  <2>1. step = 27
    BY <1>25 DEF Apply
  <2>2. EffectOk(ResumeGuard)
    BY <2>1, ResumeOk
  <2> QED BY <1>25, <2>2, OneApply
<1>26. ASSUME Apply(28, UthreadGuard) PROVE PatchInv'
  <2>1. step = 28
    BY <1>26 DEF Apply
  <2>2. EffectOk(UthreadGuard)
    BY <2>1, UthreadOk
  <2> QED BY <1>26, <2>2, OneApply
<1>27. ASSUME Apply(29, MapDevice) PROVE PatchInv'
  <2>1. step = 29
    BY <1>27 DEF Apply
  <2>2. EffectOk(MapDevice)
    BY <2>1, MapDeviceOk
  <2> QED BY <1>27, <2>2, OneApply
<1>28. ASSUME Apply(30, GetR4kCounter) PROVE PatchInv'
  BY <1>28, PlainOk, OneApply
<1>29. ASSUME Apply(31, LocoreEret) PROVE PatchInv'
  BY <1>29, PlainOk, OneApply
<1>30. ASSUME Apply(32, PvfbVtable) PROVE PatchInv'
  <2>1. step = 32
    BY <1>30 DEF Apply
  <2>2. EffectOk(PvfbVtable)
    BY <2>1, PvfbOk
  <2> QED BY <1>30, <2>2, OneApply
<1>31. ASSUME PatchIoInit \/ Fault PROVE PatchInv'
  BY <1>31, NoWrite DEF PatchIoInit, Fault
<1>32. ASSUME PatchLeds PROVE PatchInv'
  BY <1>32, PlainOk, BothOk, OneApply DEF PatchLeds
<1> QED BY <1>1, <1>2, <1>3, <1>4, <1>5, <1>6, <1>7, <1>8, <1>9, <1>10, <1>11, <1>12, <1>13, <1>14, <1>15, <1>16, <1>17, <1>18, <1>19, <1>20, <1>21, <1>22, <1>23, <1>24, <1>25, <1>26, <1>27, <1>28, <1>29, <1>30, <1>31, <1>32
       DEF Patch, PatchEarly, PatchLate

LEMMA Afresh ==
  ASSUME words' = {}, stubbed' = {}, hooks' = {}, step' \in {0, 1}
  PROVE  PatchInv'
BY DEF PatchInv

LEMMA NextKeeps ==
  ASSUME PatchInv, [Next]_vars
  PROVE  PatchInv'
<1>1. CASE UNCHANGED patchVars
  BY <1>1, NoWrite DEF patchVars
<1>2. CASE PatchKernel
  BY <1>2, PatchKeeps DEF PatchKernel
<1>3. CASE Prepare \/ Reset
  BY <1>3, Afresh DEF Prepare, Reset, Fresh
<1>4. CASE Next /\ ~PatchKernel /\ ~Prepare /\ ~Reset
  <2>1. UNCHANGED patchVars
    BY <1>4 DEF Next, Call, Load, ProgramReturns, Begin, Refuse, StartElf, LoadSegment,
                SegmentFails, SegmentOf, LoadTable, StartEcoff, LoadSection, Sectioned,
                OnlyLoaded, Jump
  <2> QED BY <1>1, <2>1
<1>5. CASE UNCHANGED vars
  BY <1>1, <1>5 DEF vars, patchVars
<1> QED BY <1>2, <1>3, <1>4, <1>5

LEMMA PatchAlways == Spec => []PatchInv
<1>1. Init => PatchInv
  BY DEF Init, PatchInit, PatchInv
<1> QED BY <1>1, NextKeeps, PTL DEF Spec

-----------------------------------------------------------------------------
(* What a load has put into memory.  While no read fails the segments that *)
(* were dealt with are there, an ECOFF program's BSS is zero, and the      *)
(* range to zero is the tail of the last of them that has one.  A range    *)
(* under a program's name is the tail of one of its segments.              *)
SegmentsIn ==
  \A i \in 1 .. seg : \A c \in FileCells(prog.segs[i]) : memory[c] = Own(c, prog.segs[i])

RangeIn ==
  \A i \in 1 .. seg :
    Bss(prog.segs[i]) # {} /\ (\A j \in i + 1 .. seg : Bss(prog.segs[j]) = {})
      => bss = Bss(prog.segs[i]) /\ bssOf = prog.name

TailIn == \A c \in prog.tail : memory[c] = Zero

LoadedInv ==
  /\ SegmentsIn
  /\ prog.format = "elf" => RangeIn
  /\ prog.format = "ecoff" => TailIn

RangeNamed ==
  \A p \in disk : bssOf = p.name =>
    p.format = "elf" /\ \E i \in DOMAIN p.segs : bss = Bss(p.segs[i])

ImageInv ==
  /\ disk \in Disks /\ RangeNamed
  /\ at # "idle" => prog \in disk /\ seg \in 0 .. Len(prog.segs)
  /\ at = "head" => seg = 0
  /\ at = "segments" => prog.format = "elf"
  /\ at = "sections" => prog.format = "ecoff"
  /\ at \in {"loaded", "patch"} => prog.format \in {"elf", "ecoff"} /\ seg = Len(prog.segs)
  /\ at \in {"segments", "sections", "loaded"} /\ ~failed => LoadedInv
  /\ ImageRight

LEMMA SegmentFacts ==
  ASSUME NEW p \in Programs
  PROVE  /\ Len(p.segs) \in Nat /\ DOMAIN p.segs = 1 .. Len(p.segs)
         /\ \A i \in DOMAIN p.segs :
              /\ p.segs[i].file \in Nat
              /\ FileCells(p.segs[i]) \subseteq Span(p.segs[i])
              /\ Bss(p.segs[i]) \subseteq Span(p.segs[i])
              /\ Span(p.segs[i]) \subseteq Cells
              /\ FileCells(p.segs[i]) \cap Bss(p.segs[i]) = {}
              /\ Span(p.segs[i]) \cap p.tail = {}
              /\ \A j \in DOMAIN p.segs \ {i} : Span(p.segs[i]) \cap Span(p.segs[j]) = {}
<1>1. p.segs \in Seq(Segment)
  BY LoaderAssumption
<1>2. Len(p.segs) \in Nat /\ DOMAIN p.segs = 1 .. Len(p.segs)
  BY <1>1
<1>3. ASSUME NEW i \in DOMAIN p.segs
      PROVE  /\ p.segs[i].file \in Nat
             /\ FileCells(p.segs[i]) \subseteq Span(p.segs[i])
             /\ Bss(p.segs[i]) \subseteq Span(p.segs[i])
             /\ Span(p.segs[i]) \subseteq Cells
             /\ FileCells(p.segs[i]) \cap Bss(p.segs[i]) = {}
  <2>. DEFINE s == p.segs[i]
  <2>1. s \in Segment
    BY <1>1, <1>2
  <2>2. s.file <= s.mem /\ Span(s) \subseteq Cells
    BY LoaderAssumption
  <2>. HIDE DEF s
  <2>3. s.at \in Nat /\ s.file \in Nat /\ s.mem \in Nat
    BY <2>1, LoaderAssumption DEF Segment
  <2>4. /\ FileCells(s) \subseteq Span(s) /\ Bss(s) \subseteq Span(s)
        /\ FileCells(s) \cap Bss(s) = {}
    BY <2>2, <2>3 DEF FileCells, Bss, Span
  <2>. QED BY <2>2, <2>3, <2>4 DEF s
<1>4. \A i \in DOMAIN p.segs :
        /\ Span(p.segs[i]) \cap p.tail = {}
        /\ \A j \in DOMAIN p.segs \ {i} : Span(p.segs[i]) \cap Span(p.segs[j]) = {}
  BY LayoutAssumption
<1>. QED BY <1>2, <1>3, <1>4

(* The next segment arrives whole, beside those that are there.            *)
LEMMA SegmentArrives ==
  ASSUME disk \in Disks, prog \in disk, seg \in 0 .. Len(prog.segs), seg < Len(prog.segs),
         SegmentsIn, UNCHANGED prog, seg' = seg + 1,
         memory' = Arrived(prog.segs[seg + 1], prog.segs[seg + 1].file)
  PROVE  /\ SegmentsIn'
         /\ prog.format = "ecoff" /\ TailIn => TailIn'
<1>. DEFINE k == seg + 1
            s == prog.segs[k]
<1>1. /\ prog \in Programs /\ Len(prog.segs) \in Nat /\ DOMAIN prog.segs = 1 .. Len(prog.segs)
  BY SegmentFacts DEF Programs
<1>2. k \in DOMAIN prog.segs /\ seg \in Nat
  BY <1>1
<1>3. \A c \in Cells : memory'[c] = IF c \in FileCells(s) THEN Own(c, s) ELSE memory[c]
  BY DEF Arrived, FileCells, Own
<1>4. ASSUME NEW i \in 1 .. k, NEW c \in FileCells(prog.segs[i])
      PROVE  memory'[c] = Own(c, prog.segs[i])
  <2>1. i \in DOMAIN prog.segs
    BY <1>1, <1>2
  <2>2. c \in Span(prog.segs[i]) /\ c \in Cells
    BY <1>1, <2>1, <1>4, SegmentFacts
  <2>3. CASE i = k
    BY <1>3, <1>4, <2>2, <2>3
  <2>4. CASE i # k
    <3>1. c \notin FileCells(s)
      BY <1>1, <1>2, <2>1, <2>2, <2>4, SegmentFacts
    <3>2. i \in 1 .. seg
      BY <1>2, <2>4
    <3>3. memory[c] = Own(c, prog.segs[i])
      BY <1>4, <3>2 DEF SegmentsIn
    <3>. QED BY <1>3, <2>2, <3>1, <3>3
  <2>. QED BY <2>3, <2>4
<1>5. SegmentsIn'
  <2>. HIDE DEF s
  <2>1. prog' = prog /\ seg' = k
    OBVIOUS
  <2>. HIDE DEF k
  <2>. QED BY <1>4, <2>1 DEF SegmentsIn, Own
<1>6. ASSUME TailIn, NEW c \in prog.tail PROVE memory'[c] = Zero
  <2>1. c \in Cells
    BY <1>1, LoaderAssumption
  <2>2. c \notin FileCells(s)
    BY <1>1, <1>2, SegmentFacts
  <2>. QED BY <1>3, <1>6, <2>1, <2>2 DEF TailIn
<1>. QED BY <1>5, <1>6 DEF TailIn

(* The range to zero follows the segments.                                 *)
LEMMA RangeFollows ==
  ASSUME disk \in Disks, prog \in disk, prog.format = "elf",
         seg \in 0 .. Len(prog.segs), seg < Len(prog.segs),
         UNCHANGED <<disk, prog>>, NEW h, NEW n, SegmentOf(h, n)
  PROVE  /\ RangeNamed => RangeNamed'
         /\ h = prog.segs[seg + 1] /\ RangeIn => RangeIn'
<1>. DEFINE k == seg + 1
<1>1. /\ Len(prog.segs) \in Nat /\ DOMAIN prog.segs = 1 .. Len(prog.segs) /\ prog \in Programs
  BY SegmentFacts DEF Programs
<1>2. k \in DOMAIN prog.segs /\ seg \in Nat
  BY <1>1
<1>3. /\ seg' = k /\ bss' = ToZero(h)
      /\ bssOf' = IF Bss(h) = {} THEN bssOf ELSE IF h = prog.segs[k] THEN prog.name ELSE "stray"
  BY DEF SegmentOf
<1>4. ASSUME RangeNamed, NEW p \in disk, bssOf' = p.name
      PROVE  p.format = "elf" /\ \E i \in DOMAIN p.segs : bss' = Bss(p.segs[i])
  <2>1. p.name # "stray" /\ \A q \in disk : q.name = p.name => q = p
    BY NameAssumption DEF Programs
  <2>2. CASE Bss(h) = {}
    BY <1>3, <1>4, <2>2 DEF ToZero, RangeNamed
  <2>3. CASE Bss(h) # {}
    <3>1. h = prog.segs[k] /\ p = prog /\ bss' = Bss(h)
      BY <1>3, <1>4, <2>1, <2>3 DEF ToZero
    <3>. QED BY <1>2, <3>1
  <2>. QED BY <2>2, <2>3
<1>5. ASSUME h = prog.segs[k], RangeIn,
             NEW i \in 1 .. k, Bss(prog.segs[i]) # {},
             \A j \in i + 1 .. k : Bss(prog.segs[j]) = {}
      PROVE  bss' = Bss(prog.segs[i]) /\ bssOf' = prog.name
  <2>1. CASE i = k
    BY <1>3, <1>5, <2>1 DEF ToZero
  <2>2. CASE i # k
    <3>1. i \in 1 .. seg /\ k \in i + 1 .. k
      BY <1>2, <2>2
    <3>2. Bss(h) = {}
      BY <1>5, <3>1
    <3>3. \A j \in i + 1 .. seg : j \in i + 1 .. k
      BY <1>2
    <3>4. bss = Bss(prog.segs[i]) /\ bssOf = prog.name
      BY <1>5, <3>1, <3>3 DEF RangeIn
    <3>. QED BY <1>3, <3>2, <3>4 DEF ToZero
  <2>. QED BY <2>1, <2>2
<1>. HIDE DEF k
<1>6. RangeNamed => RangeNamed'
  BY <1>4 DEF RangeNamed
<1>7. h = prog.segs[k] /\ RangeIn => RangeIn'
  BY <1>3, <1>5 DEF RangeIn
<1>. QED BY <1>6, <1>7 DEF k

(* A segment is dealt with.                                                *)
LEMMA SegmentOfImage ==
  ASSUME ImageInv, NEW h, NEW n, SegmentOf(h, n),
         h = prog.segs[seg + 1] => n <= h.file /\ n \in Nat
  PROVE  ImageInv'
<1>1. /\ at = "segments" /\ at' = at /\ seg < Len(prog.segs) /\ seg' = seg + 1
      /\ memory' = Arrived(h, n) /\ failed' = (failed \/ n < h.file \/ h # prog.segs[seg + 1])
      /\ UNCHANGED <<disk, prog>>
  BY DEF SegmentOf
<1>2. /\ disk \in Disks /\ prog \in disk /\ prog.format = "elf" /\ seg \in 0 .. Len(prog.segs)
      /\ RangeNamed /\ (~failed => LoadedInv)
  BY <1>1 DEF ImageInv
<1>3. /\ Len(prog.segs) \in Nat /\ seg + 1 \in DOMAIN prog.segs
      /\ seg + 1 \in 0 .. Len(prog.segs) /\ prog.segs[seg + 1].file \in Nat
  <2>1. Len(prog.segs) \in Nat /\ DOMAIN prog.segs = 1 .. Len(prog.segs) /\ prog \in Programs
    BY <1>2, SegmentFacts DEF Programs
  <2>2. seg + 1 \in DOMAIN prog.segs /\ seg + 1 \in 0 .. Len(prog.segs)
    BY <1>1, <1>2, <2>1
  <2>. QED BY <2>1, <2>2, SegmentFacts
<1>4. RangeNamed'
  BY <1>1, <1>2, RangeFollows
<1>5. ASSUME ~failed' PROVE LoadedInv'
  <2>1. ~failed /\ h = prog.segs[seg + 1] /\ ~(n < h.file)
    BY <1>1, <1>5
  <2>2. n = h.file
    BY <1>3, <2>1
  <2>3. SegmentsIn /\ RangeIn
    BY <1>2, <2>1 DEF LoadedInv
  <2>4. SegmentsIn'
    BY <1>1, <1>2, <2>1, <2>2, <2>3, SegmentArrives
  <2>5. RangeIn'
    BY <1>1, <1>2, <2>1, <2>3, RangeFollows
  <2>. QED BY <1>1, <1>2, <2>4, <2>5 DEF LoadedInv
<1>6. ImageRight'
  BY <1>1 DEF ImageRight
<1>. QED BY <1>1, <1>2, <1>3, <1>4, <1>5, <1>6 DEF ImageInv

LEMMA LoadSectionImage == ASSUME ImageInv, LoadSection PROVE ImageInv'
<1>1. /\ at = "sections" /\ at' = at /\ seg < Len(prog.segs) /\ seg' = seg + 1
      /\ UNCHANGED <<disk, prog, bss, bssOf>>
  BY DEF LoadSection
<1>2. PICK n \in 0 .. prog.segs[seg + 1].file :
        /\ memory' = Arrived(prog.segs[seg + 1], n)
        /\ failed' = (failed \/ n < prog.segs[seg + 1].file)
  BY DEF LoadSection
<1>3. /\ disk \in Disks /\ prog \in disk /\ prog.format = "ecoff" /\ seg \in 0 .. Len(prog.segs)
      /\ RangeNamed /\ (~failed => LoadedInv)
  BY <1>1 DEF ImageInv
<1>4. /\ Len(prog.segs) \in Nat /\ seg + 1 \in 0 .. Len(prog.segs)
      /\ prog.segs[seg + 1].file \in Nat
  <2>1. Len(prog.segs) \in Nat /\ DOMAIN prog.segs = 1 .. Len(prog.segs) /\ prog \in Programs
    BY <1>3, SegmentFacts DEF Programs
  <2>2. seg + 1 \in DOMAIN prog.segs /\ seg + 1 \in 0 .. Len(prog.segs)
    BY <1>1, <1>3, <2>1
  <2>. QED BY <2>1, <2>2, SegmentFacts
<1>5. RangeNamed'
  BY <1>1, <1>3 DEF RangeNamed
<1>6. ASSUME ~failed' PROVE LoadedInv'
  <2>1. ~failed /\ n = prog.segs[seg + 1].file
    <3>. DEFINE whole == prog.segs[seg + 1].file
    <3>1. ~failed /\ ~(n < whole) /\ n \in 0 .. whole /\ whole \in Nat
      BY <1>2, <1>4, <1>6
    <3>. HIDE DEF whole
    <3>2. n = whole
      BY <3>1
    <3>. QED BY <3>1, <3>2 DEF whole
  <2>2. SegmentsIn /\ TailIn
    BY <1>3, <2>1 DEF LoadedInv
  <2>3. SegmentsIn' /\ TailIn'
    BY <1>1, <1>2, <1>3, <2>1, <2>2, SegmentArrives
  <2>. QED BY <1>1, <1>3, <2>3 DEF LoadedInv
<1>7. ImageRight'
  BY <1>1 DEF ImageRight
<1>. QED BY <1>1, <1>3, <1>4, <1>5, <1>6, <1>7 DEF ImageInv

(* Nothing is there yet when a load begins but an ECOFF program's BSS.     *)
LEMMA StartImage == ASSUME ImageInv, StartElf \/ StartEcoff PROVE ImageInv'
<1>1. /\ at = "head" /\ seg' = seg /\ UNCHANGED <<disk, prog, bss, bssOf, failed>>
      /\ \/ at' = "segments" /\ prog.format = "elf"
         \/ /\ at' = "sections" /\ prog.format = "ecoff"
            /\ memory' = [c \in Cells |-> IF c \in prog.tail THEN Zero ELSE memory[c]]
  BY DEF StartElf, StartEcoff
<1>2. /\ disk \in Disks /\ prog \in disk /\ seg = 0 /\ RangeNamed /\ seg \in 0 .. Len(prog.segs)
  BY <1>1 DEF ImageInv
<1>3. SegmentsIn' /\ RangeIn'
  BY <1>1, <1>2 DEF SegmentsIn, RangeIn
<1>4. prog.format = "ecoff" => TailIn'
  <2>1. prog.tail \subseteq Cells
    BY <1>2, LoaderAssumption DEF Programs
  <2>. QED BY <1>1, <2>1 DEF TailIn
<1>5. RangeNamed' /\ LoadedInv' /\ ImageRight'
  BY <1>1, <1>2, <1>3, <1>4 DEF RangeNamed, LoadedInv, ImageRight
<1>. QED BY <1>1, <1>2, <1>5 DEF ImageInv

LEMMA LoadedImage == ASSUME ImageInv, LoadTable \/ Sectioned PROVE ImageInv'
<1>1. /\ at \in {"segments", "sections"} /\ at' = "loaded" /\ seg = Len(prog.segs)
      /\ (failed => failed')
      /\ UNCHANGED <<disk, memory, prog, seg, bss, bssOf>>
  BY DEF LoadTable, Sectioned
<1>2. LoadedInv => LoadedInv'
  BY <1>1 DEF LoadedInv, SegmentsIn, RangeIn, TailIn, Own
<1>3. RangeNamed => RangeNamed'
  BY <1>1 DEF RangeNamed
<1>4. ImageRight'
  BY <1>1 DEF ImageRight
<1>. QED BY <1>1, <1>2, <1>3, <1>4 DEF ImageInv

(* The range is zeroed and, with the symbols of another program, words are *)
(* patched before the jump.                                                *)
LEMMA PrepareImage == ASSUME ImageInv, Prepare PROVE ImageInv'
<1>1. /\ at = "loaded" /\ at' = "patch"
      /\ memory' = [c \in Cells |-> IF Foreign /\ c \in table.of.text THEN Patched ELSE Zeroed[c]]
      /\ UNCHANGED <<disk, prog, seg, bss, bssOf, table, failed>>
  BY DEF Prepare
<1>2. /\ disk \in Disks /\ prog \in disk /\ prog.format \in {"elf", "ecoff"}
      /\ seg = Len(prog.segs) /\ RangeNamed /\ (~failed => LoadedInv)
  BY <1>1 DEF ImageInv
<1>3. /\ prog \in Programs /\ Len(prog.segs) \in Nat /\ DOMAIN prog.segs = 1 .. Len(prog.segs)
  BY <1>2, SegmentFacts DEF Programs
<1>4. \A c : Spoilt(c)' <=> Spoilt(c)
  BY <1>1 DEF Spoilt, Foreign
<1>5. \A c \in Cells :
        ~Spoilt(c) => memory'[c] = IF c \in bss THEN Zero ELSE memory[c]
  BY <1>1 DEF Spoilt, Zeroed
<1>6. ASSUME NEW c, c \in bss, ~Spoilt(c)
      PROVE  prog.format = "elf" /\ \E k \in DOMAIN prog.segs : c \in Bss(prog.segs[k])
  BY <1>2, <1>6 DEF Spoilt, RangeNamed
<1>7. ASSUME ~failed, NEW i \in DOMAIN prog.segs, NEW c \in FileCells(prog.segs[i]), ~Spoilt(c)
      PROVE  memory'[c] = Own(c, prog.segs[i])
  <2>1. c \in Cells /\ c \in Span(prog.segs[i])
    BY <1>3, <1>7, SegmentFacts
  <2>2. memory[c] = Own(c, prog.segs[i])
    BY <1>2, <1>3, <1>7 DEF LoadedInv, SegmentsIn
  <2>3. c \notin bss
    <3>1. SUFFICES ASSUME c \in bss PROVE FALSE
      OBVIOUS
    <3>2. PICK k \in DOMAIN prog.segs : c \in Bss(prog.segs[k])
      BY <1>6, <1>7, <3>1
    <3>3. c \in Span(prog.segs[k])
      BY <1>3, <3>2, SegmentFacts
    <3>4. k = i
      BY <1>3, <2>1, <3>3, SegmentFacts
    <3>. QED BY <1>3, <1>7, <3>2, <3>4, SegmentFacts
  <2>. QED BY <1>5, <1>7, <2>1, <2>2, <2>3
<1>8. ASSUME ~failed, prog.format = "elf", NEW i \in DOMAIN prog.segs,
             NEW c \in Bss(prog.segs[i]), ~Spoilt(c), LastTail(i)
      PROVE  memory'[c] = Zero
  <2>1. c \in Cells
    BY <1>3, <1>8, SegmentFacts
  <2>2. \A j \in i + 1 .. seg : Bss(prog.segs[j]) = {}
    <3>1. ASSUME NEW j \in i + 1 .. seg PROVE j \in DOMAIN prog.segs /\ j > i
      BY <1>2, <1>3
    <3>. QED BY <1>8, <3>1 DEF LastTail
  <2>3. bss = Bss(prog.segs[i])
    BY <1>2, <1>3, <1>8, <2>2 DEF LoadedInv, RangeIn
  <2>. QED BY <1>5, <1>8, <2>1, <2>3
<1>9. ASSUME ~failed, NEW c \in prog.tail, ~Spoilt(c) PROVE memory'[c] = Zero
  <2>1. prog.tail \subseteq Cells /\ (prog.format = "elf" => prog.tail = {})
    BY <1>3, LoaderAssumption, LayoutAssumption
  <2>2. prog.format = "ecoff"
    BY <1>2, <1>9, <2>1
  <2>3. memory[c] = Zero
    BY <1>2, <1>9, <2>2 DEF LoadedInv, TailIn
  <2>. QED BY <1>5, <1>9, <2>1, <2>3
<1>10. ImageRight'
  BY <1>1, <1>4, <1>7, <1>8, <1>9 DEF ImageRight, Own, LastTail
<1>11. RangeNamed'
  BY <1>1, <1>2 DEF RangeNamed
<1>. QED BY <1>1, <1>2, <1>3, <1>10, <1>11 DEF ImageInv

LEMMA ImageNext == ImageInv /\ [Next]_vars => ImageInv'
<1>. SUFFICES ASSUME ImageInv, [Next]_vars PROVE ImageInv'
  OBVIOUS
<1>1. CASE UNCHANGED loadVars
  <2>1. UNCHANGED <<disk, memory, prog, at, seg, bss, bssOf, table, failed>>
    BY <1>1 DEF loadVars
  <2>2. LoadedInv => LoadedInv'
    BY <2>1 DEF LoadedInv, SegmentsIn, RangeIn, TailIn, Own
  <2>3. ImageRight => ImageRight'
    BY <2>1 DEF ImageRight, Own, LastTail, Spoilt, Foreign
  <2>4. RangeNamed => RangeNamed'
    BY <2>1 DEF RangeNamed
  <2>. QED BY <2>1, <2>2, <2>3, <2>4 DEF ImageInv
<1>2. CASE UNCHANGED vars
  BY <1>1, <1>2 DEF vars, loadVars
<1>3. CASE PatchKernel
  BY <1>1, <1>3 DEF PatchKernel
<1>4. CASE LoadSegment
  <2>1. SegmentOf(prog.segs[seg + 1], prog.segs[seg + 1].file) /\ at = "segments"
        /\ seg < Len(prog.segs)
    BY <1>4 DEF LoadSegment
  <2>2. prog.segs[seg + 1].file \in Nat
    <3>1. prog \in Programs /\ seg \in 0 .. Len(prog.segs)
      BY <2>1 DEF ImageInv, Programs
    <3>2. seg + 1 \in DOMAIN prog.segs
      BY <2>1, <3>1, SegmentFacts
    <3>. QED BY <3>1, <3>2, SegmentFacts
  <2>. QED BY <2>1, <2>2, SegmentOfImage
<1>5. CASE SegmentFails
  <2>0. PICK h \in {prog.segs[seg + 1], phdr} : \E n \in 0 .. h.file : SegmentOf(h, n)
    BY <1>5 DEF SegmentFails
  <2>1. PICK n \in 0 .. h.file : SegmentOf(h, n)
    BY <2>0
  <2>2. at = "segments" /\ seg < Len(prog.segs)
    BY <1>5 DEF SegmentFails
  <2>3. h = prog.segs[seg + 1] => n <= h.file /\ n \in Nat
    <3>1. prog \in Programs /\ seg \in 0 .. Len(prog.segs)
      BY <2>2 DEF ImageInv, Programs
    <3>2. seg + 1 \in DOMAIN prog.segs
      BY <2>2, <3>1, SegmentFacts
    <3>3. prog.segs[seg + 1].file \in Nat
      BY <3>1, <3>2, SegmentFacts
    <3>. QED BY <2>1, <3>3
  <2>. QED BY <2>1, <2>3, SegmentOfImage
<1>6. CASE Refuse \/ OnlyLoaded \/ ProgramReturns \/ Jump
  <2>1. /\ \/ at' = "idle"
           \/ at' = "run" /\ at = "patch" /\ prog' = prog /\ seg' = seg
        /\ UNCHANGED <<disk, bss, bssOf>>
    BY <1>6 DEF Refuse, OnlyLoaded, ProgramReturns, Jump
  <2>2. RangeNamed => RangeNamed'
    BY <2>1 DEF RangeNamed
  <2>3. ImageRight'
    BY <2>1 DEF ImageRight
  <2>. QED BY <2>1, <2>2, <2>3 DEF ImageInv
<1>7. CASE Reset
  <2>1. at' = "idle" /\ disk' = disk /\ bssOf' = "none"
    BY <1>7 DEF Reset
  <2>2. RangeNamed' /\ ImageRight'
    BY <2>1, NameAssumption DEF RangeNamed, ImageRight, ImageInv, Programs
  <2>. QED BY <2>1, <2>2 DEF ImageInv
<1>8. ASSUME NEW p \in disk, NEW s \in BOOLEAN, Begin(p, s) PROVE ImageInv'
  <2>1. /\ at' = "head" /\ prog' = p /\ seg' = 0 /\ UNCHANGED <<disk, bss, bssOf>>
    BY <1>8 DEF Begin
  <2>2. Len(p.segs) \in Nat
    BY SegmentFacts DEF ImageInv, Programs
  <2>3. (RangeNamed => RangeNamed') /\ ImageRight'
    BY <2>1 DEF RangeNamed, ImageRight
  <2>. QED BY <2>1, <2>2, <2>3 DEF ImageInv
<1>. QED
  BY <1>2, <1>3, <1>4, <1>5, <1>6, <1>7, <1>8, StartImage, LoadedImage, LoadSectionImage,
     PrepareImage
     DEF Next, Call, Load

-----------------------------------------------------------------------------
(* io_init[] as it is found, and after its patch.                          *)
LEMMA OnlyIs ==
  ASSUME NEW X, NEW s \in Seq(X), NEW S
  PROVE  Only(s, S) \in Seq(X \cap S) /\ Len(Only(s, S)) <= Len(s)
<1>. DEFINE n == Len(s)
            V == Seq(X \cap S)
            F(h) == [i \in 0 .. n |->
                       IF i = 0 THEN <<>>
                       ELSE IF s[i] \in S THEN Append(h[i - 1], s[i]) ELSE h[i - 1]]
            kept == CHOOSE h : h = F(h)
            more == [i \in 1 .. n |-> [q \in V |-> IF s[i] \in S THEN Append(q, s[i]) ELSE q]]
<1>1. n \in Nat /\ <<>> \in V /\ more \in [1 .. n -> [V -> V]]
  <2>1. ASSUME NEW i \in 1 .. n, NEW q \in V, s[i] \in S PROVE Append(q, s[i]) \in V
    BY <2>1
  <2>. QED BY <2>1
<1>2. PICK h : Computes(h, n, V, <<>>, more)
  <2>. HIDE DEF more, V, n
  <2>. QED BY <1>1, RecursionExists
<1>3. /\ h \in [0 .. n -> V] /\ h[0] = <<>>
      /\ \A i \in 1 .. n : h[i] = more[i][h[i - 1]]
  BY <1>2 DEF Computes
<1>4. ASSUME NEW i \in 1 .. n
      PROVE  h[i] = IF s[i] \in S THEN Append(h[i - 1], s[i]) ELSE h[i - 1]
  <2>1. i - 1 \in 0 .. n
    BY <1>1
  <2>2. h[i - 1] \in V
    <3>. HIDE DEF V, n
    <3>. QED BY <1>3, <2>1
  <2>3. more[i][h[i - 1]] = IF s[i] \in S THEN Append(h[i - 1], s[i]) ELSE h[i - 1]
    <3>. HIDE DEF V, n
    <3>. QED BY <2>2
  <2>. QED BY <1>3, <2>3
<1>. HIDE DEF V, more
<1>5. h = F(h)
  <2>. HIDE DEF n
  <2>1. ASSUME NEW i \in 0 .. n PROVE h[i] = F(h)[i]
    <3>1. CASE i = 0
      BY <1>1, <1>3, <3>1
    <3>2. CASE i # 0
      <4>1. i \in 1 .. n
        BY <1>1, <3>2
      <4>. QED BY <1>4, <4>1
    <3>. QED BY <3>1, <3>2
  <2>. QED BY <1>3, <2>1
<1>. HIDE DEF F
<1>6. kept = F(kept)
  BY <1>5
<1>7. Only(s, S) = kept[n]
  BY DEF Only, F
<1>. HIDE DEF kept
<1>. DEFINE Same == {i \in 0 .. n : kept[i] = h[i] /\ Len(h[i]) <= i}
<1>8. 0 \in Same
  <2>1. 0 \in 0 .. n /\ Len(<<>>) = 0
    BY <1>1
  <2>2. kept[0] = F(kept)[0]
    BY <1>6
  <2>3. F(kept)[0] = <<>>
    BY <2>1, Zenon DEF F
  <2>. QED BY <1>3, <2>1, <2>2, <2>3
<1>9. ASSUME NEW i \in 1 .. n, i - 1 \in Same PROVE i \in Same
  <2>1. i \in 0 .. n /\ i # 0 /\ i - 1 \in 0 .. n
    BY <1>1
  <2>2. kept[i - 1] = h[i - 1] /\ Len(h[i - 1]) <= i - 1
    BY <1>9
  <2>3. kept[i] = F(kept)[i]
    BY <1>6
  <2>4. F(kept)[i] = IF s[i] \in S THEN Append(kept[i - 1], s[i]) ELSE kept[i - 1]
    BY <2>1, Zenon DEF F
  <2>5. kept[i] = h[i]
    BY <1>4, <2>2, <2>3, <2>4
  <2>6. h[i - 1] \in Seq(X \cap S)
    BY <1>3, <2>1 DEF V
  <2>7. Len(h[i]) <= i
    <3>. HIDE DEF n
    <3>1. h[i] = Append(h[i - 1], s[i]) \/ h[i] = h[i - 1]
      BY <1>4
    <3>2. Len(Append(h[i - 1], s[i])) = Len(h[i - 1]) + 1 /\ Len(h[i - 1]) \in Nat
      BY <2>6
    <3>. QED BY <1>1, <2>2, <3>1, <3>2
  <2>. QED BY <2>1, <2>5, <2>7
<1>. HIDE DEF Same
<1>10. n \in Same
  <2>. HIDE DEF n
  <2>1. \A i \in 0 .. n : i \in Same
    BY <1>1, <1>8, <1>9, CountUp
  <2>. QED BY <1>1, <2>1
<1>11. kept[n] = h[n] /\ Len(h[n]) <= n
  BY <1>10 DEF Same
<1>12. h[n] \in V
  <2>. HIDE DEF n
  <2>. QED BY <1>1, <1>3
<1>. QED BY <1>7, <1>11, <1>12 DEF V

LEMMA FirstIs ==
  ASSUME NEW S, S \subseteq Nat, NEW k \in S, \A j \in S : k <= j
  PROVE  First(S) = k
<1>. DEFINE f == First(S)
<1>1. f \in S /\ \A j \in S : f <= j
  BY DEF First
<1>. HIDE DEF f
<1>2. f <= k /\ k <= f /\ f \in Nat /\ k \in Nat
  BY <1>1
<1>3. f = k
  BY <1>2
<1>. QED BY <1>3 DEF f

IOLEN(n) == n + IOMAX + 5

LEMMA TableIs ==
  ASSUME NEW io \in Seq(STRING \ {NULL})
  PROVE  LET t == IoTable(io) n == Len(io) IN
         /\ n \in Nat /\ DOMAIN t = 1 .. IOLEN(n)
         /\ \A i \in 1 .. n : t[i] = io[i] /\ t[i] # NULL
         /\ t[n + 1] = NULL
         /\ \A i \in n + 2 .. IOLEN(n) : t[i] = "behind"
<1>. DEFINE n == Len(io)
            after == [i \in 1 .. IOMAX + 4 |-> "behind"]
            A == STRING \cup {NULL, "behind"}
<1>1. IOMAX \in Nat \ {0} /\ n \in Nat
  BY PatcherAssumption
<1>2. /\ after \in Seq(A) /\ Len(after) = IOMAX + 4
      /\ io \in Seq(A) /\ <<NULL>> \in Seq(A) /\ Len(<<NULL>>) = 1 /\ <<NULL>>[1] = NULL
  BY <1>1
<1>3. \A i \in 1 .. IOMAX + 4 : after[i] = "behind"
  OBVIOUS
<1>. HIDE DEF A, after
<1>4. /\ io \o <<NULL>> \in Seq(A) /\ Len(io \o <<NULL>>) = n + 1
      /\ \A i \in 1 .. n : (io \o <<NULL>>)[i] = io[i]
      /\ (io \o <<NULL>>)[n + 1] = NULL
  BY <1>1, <1>2
<1>. DEFINE b == io \o <<NULL>>
<1>. HIDE DEF b
<1>5. /\ b \in Seq(A) /\ Len(b) = n + 1
      /\ \A i \in 1 .. n : b[i] = io[i]
      /\ b[n + 1] = NULL
  BY <1>4 DEF b
<1>6. IoTable(io) = b \o after
  BY DEF IoTable, b, after
<1>7. \A i \in 1 .. n : io[i] # NULL
  OBVIOUS
<1>. HIDE DEF n
<1>8. /\ DOMAIN (b \o after) = 1 .. n + 1 + (IOMAX + 4)
      /\ \A i \in 1 .. n + 1 : (b \o after)[i] = b[i]
      /\ \A i \in n + 2 .. n + 1 + (IOMAX + 4) : (b \o after)[i] = after[i - (n + 1)]
  BY <1>1, <1>2, <1>5
<1>9. IOLEN(n) = n + 1 + (IOMAX + 4)
  BY <1>1 DEF IOLEN
<1>. DEFINE t == b \o after
<1>. HIDE DEF t
<1>10. /\ DOMAIN t = 1 .. IOLEN(n)
       /\ \A i \in 1 .. n : t[i] = io[i] /\ t[i] # NULL
       /\ t[n + 1] = NULL
  BY <1>1, <1>5, <1>7, <1>8, <1>9 DEF t
<1>11. ASSUME NEW i \in n + 2 .. IOLEN(n) PROVE t[i] = "behind"
  <2>1. i - (n + 1) \in 1 .. IOMAX + 4 /\ i \in n + 2 .. n + 1 + (IOMAX + 4)
    BY <1>1, <1>9
  <2>. QED BY <1>3, <1>8, <2>1 DEF t
<1>12. /\ n \in Nat /\ DOMAIN t = 1 .. IOLEN(n)
       /\ \A i \in 1 .. n : t[i] = io[i] /\ t[i] # NULL
       /\ t[n + 1] = NULL
       /\ \A i \in n + 2 .. IOLEN(n) : t[i] = "behind"
  BY <1>1, <1>10, <1>11
<1>13. IoTable(io) = t
  BY <1>6 DEF t
<1>. QED BY <1>12, <1>13 DEF n

(* t begins with the entries of q and a NULL, and has only what lay behind *)
(* the table behind entry k.                                               *)
Begins(t, n, q, k) ==
  /\ DOMAIN t = 1 .. n
  /\ \A i \in 1 .. Len(q) : t[i] = q[i]
  /\ t[Len(q) + 1] = NULL
  /\ \A i \in k + 1 .. n : t[i] = "behind"

LEMMA FirstEntries ==
  ASSUME NEW t, NEW n \in Nat, DOMAIN t = 1 .. n, NEW D, NEW s \in Seq(D), Len(s) <= n,
         \A i \in 1 .. Len(s) : t[i] = s[i]
  PROVE  SubSeq(t, 1, Len(s)) = s
<1>. DEFINE A == {t[i] : i \in 1 .. n}
            m == Len(s)
<1>1. m \in Nat /\ m <= n /\ s = [i \in 1 .. m |-> s[i]]
  OBVIOUS
<1>2. \A i \in 1 .. n : t[i] \in A
  OBVIOUS
<1>3. SubSeq(t, 1, m) = [i \in 1 .. m |-> t[i]]
  BY <1>1
<1>4. [i \in 1 .. m |-> t[i]] = [i \in 1 .. m |-> s[i]]
  OBVIOUS
<1>. QED BY <1>1, <1>3, <1>4

LEMMA BeginsFirst ==
  ASSUME NEW t, NEW n \in Nat, NEW D, NULL \notin D, NEW q \in Seq(D), NEW k \in Nat,
         Begins(t, n, q, k), Len(q) + 1 <= n
  PROVE  /\ Listed(t) = q
         /\ Len(q) < IOMAX => Ends(t) # {} /\ First(Ends(t)) = Len(q) + 1
         /\ Len(q) >= IOMAX => Ends(t) = {}
<1>. DEFINE m == Len(q)
            S == {i \in DOMAIN t : t[i] = NULL}
<1>1. /\ m \in Nat /\ DOMAIN t = 1 .. n /\ t[m + 1] = NULL /\ m + 1 <= n
      /\ \A i \in 1 .. m : t[i] = q[i] /\ t[i] # NULL
      /\ IOMAX \in Nat \ {0}
  BY PatcherAssumption DEF Begins
<1>. HIDE DEF m
<1>2. First(S) = m + 1
  <2>1. m + 1 \in S /\ S \subseteq Nat /\ \A j \in S : m + 1 <= j
    BY <1>1
  <2>. HIDE DEF S
  <2>. QED BY <2>1, FirstIs
<1>3. Listed(t) = SubSeq(t, 1, m)
  <2>1. First(S) - 1 = m
    BY <1>1, <1>2
  <2>. QED BY <2>1 DEF Listed
<1>4. SubSeq(t, 1, m) = q
  BY <1>1, FirstEntries DEF m
<1>5. ASSUME m < IOMAX PROVE Ends(t) # {} /\ First(Ends(t)) = m + 1
  <2>1. m + 1 \in Ends(t) /\ Ends(t) \subseteq Nat /\ \A j \in Ends(t) : m + 1 <= j
    BY <1>1, <1>5 DEF Ends
  <2>. QED BY <2>1, FirstIs
<1>6. ASSUME m >= IOMAX PROVE Ends(t) = {}
  BY <1>1, <1>6 DEF Ends
<1>. QED BY <1>3, <1>4, <1>5, <1>6 DEF m

(* Entries and a NULL are written over a table from entry p + 1 on.        *)
Overwritten(u, t, n, p, r) ==
  /\ DOMAIN u = 1 .. n
  /\ \A i \in 1 .. p : u[i] = t[i]
  /\ \A i \in 1 .. Len(r) : u[p + i] = r[i]
  /\ u[p + Len(r) + 1] = NULL
  /\ \A i \in p + Len(r) + 2 .. n : u[i] = t[i]

LEMMA WrittenAt ==
  ASSUME NEW t, NEW n \in Nat, DOMAIN t = 1 .. n, NEW p \in Nat, NEW D, NEW r \in Seq(D),
         p + Len(r) + 1 <= n
  PROVE  Overwritten(At(t, p + 1, r \o <<NULL>>), t, n, p, r)
<1>. DEFINE l == Len(r)
            w == r \o <<NULL>>
            u == At(t, p + 1, w)
<1>1. l \in Nat /\ Len(w) = l + 1 /\ (\A i \in 1 .. l : w[i] = r[i]) /\ w[l + 1] = NULL
  <2>1. <<NULL>> \in Seq({NULL}) /\ Len(<<NULL>>) = 1 /\ <<NULL>>[1] = NULL
    OBVIOUS
  <2>2. r \in Seq(D \cup {NULL}) /\ <<NULL>> \in Seq(D \cup {NULL})
    OBVIOUS
  <2>. QED BY <2>1, <2>2
<1>. HIDE DEF w, l
<1>2. u = [i \in 1 .. n |-> IF i \in p + 1 .. p + 1 + Len(w) - 1 THEN w[i - (p + 1) + 1] ELSE t[i]]
  BY DEF At
<1>3. u = [i \in 1 .. n |-> IF i \in p + 1 .. p + l + 1 THEN w[i - p] ELSE t[i]]
  <2>1. p + 1 + Len(w) - 1 = p + l + 1
    BY <1>1
  <2>2. \A i \in 1 .. n : i - (p + 1) + 1 = i - p
    OBVIOUS
  <2>. HIDE DEF u
  <2>. QED BY <1>2, <2>1, <2>2
<1>. HIDE DEF u
<1>4. DOMAIN u = 1 .. n
  BY <1>3
<1>5. \A i \in 1 .. p : u[i] = t[i]
  BY <1>1, <1>3 DEF l
<1>6. ASSUME NEW i \in 1 .. l PROVE u[p + i] = r[i]
  <2>1. p + i \in 1 .. n /\ p + i \in p + 1 .. p + l + 1 /\ (p + i) - p = i
    BY <1>1 DEF l
  <2>2. u[p + i] = w[(p + i) - p]
    BY <1>3, <2>1
  <2>. QED BY <1>1, <2>1, <2>2
<1>7. u[p + l + 1] = NULL
  <2>1. p + l + 1 \in 1 .. n /\ p + l + 1 \in p + 1 .. p + l + 1 /\ (p + l + 1) - p = l + 1
    BY <1>1 DEF l
  <2>2. u[p + l + 1] = w[(p + l + 1) - p]
    BY <1>3, <2>1
  <2>. QED BY <1>1, <2>1, <2>2
<1>8. \A i \in p + l + 2 .. n : u[i] = t[i]
  BY <1>1, <1>3
<1>9. /\ DOMAIN u = 1 .. n
      /\ \A i \in 1 .. p : u[i] = t[i]
      /\ \A i \in 1 .. l : u[p + i] = r[i]
      /\ u[p + l + 1] = NULL
      /\ \A i \in p + l + 2 .. n : u[i] = t[i]
  BY <1>4, <1>5, <1>6, <1>7, <1>8
<1>. QED BY <1>9 DEF Overwritten, u, w, l

LEMMA BeginsAnew ==
  ASSUME NEW t, NEW n \in Nat, NEW q, NEW k \in Nat, Begins(t, n, q, k),
         NEW D, NEW r \in Seq(D), Len(r) + 1 <= k, k <= n
  PROVE  Begins(At(t, 1, r \o <<NULL>>), n, r, k)
<1>. DEFINE u == At(t, 0 + 1, r \o <<NULL>>)
<1>1. /\ DOMAIN t = 1 .. n /\ Len(r) \in Nat /\ 0 + Len(r) + 1 <= n
      /\ \A i \in k + 1 .. n : t[i] = "behind"
  BY DEF Begins
<1>2. /\ DOMAIN u = 1 .. n
      /\ \A i \in 1 .. Len(r) : u[0 + i] = r[i]
      /\ u[0 + Len(r) + 1] = NULL
      /\ \A i \in 0 + Len(r) + 2 .. n : u[i] = t[i]
  <2>1. Overwritten(At(t, 0 + 1, r \o <<NULL>>), t, n, 0, r)
    BY <1>1, WrittenAt
  <2>. QED BY <2>1 DEF Overwritten
<1>3. u = At(t, 1, r \o <<NULL>>)
  <2>1. \A z : z = 1 => At(t, z, r \o <<NULL>>) = At(t, 1, r \o <<NULL>>)
    OBVIOUS
  <2>2. 0 + 1 = 1
    OBVIOUS
  <2>. QED BY <2>1, <2>2, Zenon
<1>. HIDE DEF u
<1>4. /\ \A i \in 1 .. Len(r) : u[i] = r[i]
      /\ u[Len(r) + 1] = NULL
      /\ \A i \in k + 1 .. n : u[i] = "behind"
  BY <1>1, <1>2
<1>5. Begins(u, n, r, k)
  BY <1>2, <1>4 DEF Begins
<1>. QED BY <1>3, <1>5

LEMMA BeginsLonger ==
  ASSUME NEW t, NEW n \in Nat, NEW D, NEW q \in Seq(D), NEW k \in Nat, Begins(t, n, q, k),
         NEW E, NEW r \in Seq(E), Len(q) + 1 <= k, k + Len(r) <= n
  PROVE  Begins(At(t, Len(q) + 1, r \o <<NULL>>), n, q \o r, k + Len(r))
<1>. DEFINE u == At(t, Len(q) + 1, r \o <<NULL>>)
            l == Len(q)
            m == Len(r)
<1>1. /\ DOMAIN t = 1 .. n /\ l \in Nat /\ m \in Nat /\ l + m + 1 <= n
      /\ \A i \in 1 .. l : t[i] = q[i]
      /\ \A i \in k + 1 .. n : t[i] = "behind"
  BY DEF Begins
<1>2. /\ DOMAIN u = 1 .. n
      /\ \A i \in 1 .. l : u[i] = t[i]
      /\ \A i \in 1 .. m : u[l + i] = r[i]
      /\ u[l + m + 1] = NULL
      /\ \A i \in l + m + 2 .. n : u[i] = t[i]
  <2>1. Overwritten(At(t, Len(q) + 1, r \o <<NULL>>), t, n, Len(q), r)
    BY <1>1, WrittenAt
  <2>. QED BY <2>1 DEF Overwritten
<1>3. Len(q \o r) = l + m /\ \A i \in 1 .. l + m : (q \o r)[i] = IF i <= l THEN q[i] ELSE r[i - l]
  <2>1. q \in Seq(D \cup E)
    OBVIOUS
  <2>2. r \in Seq(D \cup E)
    OBVIOUS
  <2>. QED BY <2>1, <2>2
<1>4. l + 1 <= k /\ k + m <= n
  OBVIOUS
<1>. HIDE DEF u, l, m
<1>5. ASSUME NEW i \in 1 .. l + m PROVE u[i] = (q \o r)[i]
  <2>1. CASE i <= l
    <3>1. i \in 1 .. l
      BY <1>1, <2>1
    <3>. QED BY <1>1, <1>2, <1>3, <2>1, <3>1
  <2>2. CASE ~(i <= l)
    <3>1. i - l \in 1 .. m /\ l + (i - l) = i
      BY <1>1, <2>2
    <3>2. u[l + (i - l)] = r[i - l]
      BY <1>2, <3>1
    <3>. QED BY <1>3, <2>2, <3>1, <3>2
  <2>. QED BY <2>1, <2>2
<1>6. \A i \in (k + m) + 1 .. n : u[i] = "behind"
  BY <1>1, <1>2, <1>4
<1>7. u[(l + m) + 1] = NULL
  BY <1>2
<1>8. Begins(u, n, q \o r, k + m)
  BY <1>2, <1>3, <1>5, <1>6, <1>7 DEF Begins
<1>. QED BY <1>8 DEF u, l, m

LEMMA TableBegins ==
  ASSUME NEW io \in Seq(STRING \ {NULL})
  PROVE  /\ Begins(IoTable(io), IOLEN(Len(io)), io, Len(io) + 1)
         /\ Listed(IoTable(io)) = io
         /\ IOLEN(Len(io)) = Len(io) + IOMAX + 5 /\ Len(io) \in Nat
<1>. DEFINE n == Len(io)
            t == IoTable(io)
            D == STRING \ {NULL}
<1>1. n \in Nat /\ IOLEN(n) = n + IOMAX + 5 /\ IOMAX \in Nat \ {0} /\ io \in Seq(D) /\ NULL \notin D
  BY PatcherAssumption DEF IOLEN
<1>2. Begins(t, IOLEN(n), io, n + 1)
  <2>1. (n + 1) + 1 = n + 2
    BY <1>1
  <2>2. /\ DOMAIN t = 1 .. IOLEN(n) /\ (\A i \in 1 .. n : t[i] = io[i]) /\ t[n + 1] = NULL
        /\ \A i \in n + 2 .. IOLEN(n) : t[i] = "behind"
    BY TableIs
  <2>. HIDE DEF t
  <2>. QED BY <2>1, <2>2 DEF Begins
<1>3. Listed(t) = io
  <2>. HIDE DEF t, D
  <2>1. IOLEN(n) \in Nat /\ n + 1 \in Nat /\ n + 1 <= IOLEN(n)
    BY <1>1
  <2>. QED BY <1>1, <1>2, <2>1, BeginsFirst
<1>. QED BY <1>1, <1>2, <1>3

LEMMA ScannedIs ==
  ASSUME NEW io \in Seq(STRING \ {NULL})
  PROVE  LET s == Scanned(IoTable(io)) IN
         /\ s \in Seq(STRING \ {NULL}) /\ Len(s) <= Len(io) /\ Len(s) <= IOMAX
         /\ Len(io) < IOMAX => s = io
<1>. DEFINE n == Len(io)
            t == IoTable(io)
            D == STRING \ {NULL}
            s == Scanned(t)
<1>1. /\ Begins(t, IOLEN(n), io, n + 1) /\ IOLEN(n) = n + IOMAX + 5 /\ n \in Nat
      /\ IOMAX \in Nat \ {0} /\ NULL \notin D /\ io \in Seq(D)
  BY TableBegins, PatcherAssumption
<1>2. /\ DOMAIN t = 1 .. IOLEN(n) /\ \A i \in 1 .. n : t[i] = io[i]
  BY <1>1 DEF Begins
<1>3. /\ n < IOMAX => Ends(t) # {} /\ First(Ends(t)) = n + 1
      /\ n >= IOMAX => Ends(t) = {}
  <2>. HIDE DEF t, D
  <2>1. IOLEN(n) \in Nat /\ n + 1 \in Nat /\ n + 1 <= IOLEN(n)
    BY <1>1
  <2>. QED BY <1>1, <2>1, BeginsFirst
<1>4. CASE n < IOMAX
  <2>1. s = SubSeq(t, 1, n)
    BY <1>1, <1>3, <1>4 DEF Scanned
  <2>2. SubSeq(t, 1, Len(io)) = io
    <3>1. IOLEN(n) \in Nat /\ n <= IOLEN(n)
      BY <1>1
    <3>. HIDE DEF t, D
    <3>. QED BY <1>1, <1>2, <3>1, FirstEntries
  <2>. QED BY <1>1, <1>4, <2>1, <2>2
<1>5. CASE ~(n < IOMAX)
  <2>1. s = SubSeq(t, 1, IOMAX)
    BY <1>1, <1>3, <1>5 DEF Scanned
  <2>. DEFINE f == SubSeq(io, 1, IOMAX)
  <2>2. f \in Seq(D) /\ Len(f) = IOMAX /\ \A i \in 1 .. IOMAX : f[i] = io[i]
    BY <1>1, <1>5
  <2>. HIDE DEF t, D, f
  <2>3. SubSeq(t, 1, Len(f)) = f
    <3>1. IOLEN(n) \in Nat /\ Len(f) <= IOLEN(n) /\ \A i \in 1 .. Len(f) : t[i] = f[i]
      BY <1>1, <1>2, <1>5, <2>2
    <3>. QED BY <1>2, <2>2, <3>1, FirstEntries
  <2>4. s = f
    BY <2>1, <2>2, <2>3
  <2>. QED BY <1>1, <1>5, <2>2, <2>4 DEF t, D
<1>. QED BY <1>4, <1>5

LEMMA FoundDrivers ==
  LET D == {"pvdiskedtinit", "if_pvnetedtinit", "pvfbedtinit", "pvaudioedtinit"} IN
  /\ NULL \notin D
  /\ Only(Drivers, kern.syms) \in Seq(D)
  /\ Len(Only(Drivers, kern.syms)) <= 4
<1>. DEFINE D == {"pvdiskedtinit", "if_pvnetedtinit", "pvfbedtinit", "pvaudioedtinit"}
<1>1. Drivers \in Seq(D) /\ Len(Drivers) = 4
  BY DEF Drivers
<1>2. NULL \notin D
  BY DEF NULL
<1>. HIDE DEF D
<1>3. /\ Only(Drivers, kern.syms) \in Seq(D \cap kern.syms)
      /\ Len(Only(Drivers, kern.syms)) <= Len(Drivers)
  BY <1>1, OnlyIs
<1>4. Only(Drivers, kern.syms) \in Seq(D)
  BY <1>3
<1>. QED BY <1>1, <1>2, <1>3, <1>4 DEF D

LEMMA PatchedIs ==
  ASSUME NEW io \in Seq(STRING \ {NULL})
  PROVE  LET t == Appended(Compacted(IoTable(io))) IN
         /\ Len(io) < IOMAX => Listed(t) = Only(io, Wanted) \o Only(Drivers, kern.syms)
         /\ \A i \in DOMAIN t : i > Len(io) + 5 => t[i] = "behind"
<1>. DEFINE n == Len(io)
            m == IOLEN(n)
            D == STRING \ {NULL}
            N == {"pvdiskedtinit", "if_pvnetedtinit", "pvfbedtinit", "pvaudioedtinit"}
            t0 == IoTable(io)
            s == Scanned(t0)
            q == Only(s, Wanted)
            t1 == Compacted(t0)
            r == Only(Drivers, kern.syms)
            t2 == Appended(t1)
<1>1. /\ Begins(t0, m, io, n + 1) /\ m = n + IOMAX + 5 /\ n \in Nat
      /\ IOMAX \in Nat \ {0} /\ NULL \notin D
  BY TableBegins, PatcherAssumption
<1>2. /\ s \in Seq(D) /\ Len(s) <= n /\ Len(s) <= IOMAX
      /\ n < IOMAX => s = io
  BY ScannedIs
<1>3. /\ NULL \notin N /\ r \in Seq(N) /\ Len(r) <= 4 /\ Len(r) \in Nat
  BY FoundDrivers
<1>4. t1 = At(t0, 1, q \o <<NULL>>)
  BY DEF Compacted
<1>5. t2 = IF Ends(t1) = {} THEN t1 ELSE At(t1, First(Ends(t1)), r \o <<NULL>>)
  BY DEF Appended
<1>. HIDE DEF t0, s, D, N, m, t1, t2, r
<1>6. q \in Seq(D) /\ Len(q) <= Len(s) /\ Len(q) \in Nat /\ Len(s) \in Nat
  <2>1. q \in Seq(D \cap Wanted) /\ Len(q) <= Len(s)
    BY <1>2, OnlyIs
  <2>. HIDE DEF q
  <2>. QED BY <1>2, <2>1
<1>. HIDE DEF q, n
<1>7. m \in Nat /\ n + 1 \in Nat /\ n + 1 <= m /\ Len(q) + 1 <= n + 1 /\ Len(q) + 1 <= m
      /\ (n + 1) + Len(r) <= m
  BY <1>1, <1>2, <1>3, <1>6
<1>8. Begins(t1, m, q, n + 1)
  BY <1>1, <1>4, <1>6, <1>7, BeginsAnew
<1>9. /\ Listed(t1) = q
      /\ Len(q) < IOMAX => Ends(t1) # {} /\ First(Ends(t1)) = Len(q) + 1
      /\ Len(q) >= IOMAX => Ends(t1) = {}
  BY <1>1, <1>6, <1>7, <1>8, BeginsFirst
<1>10. CASE Len(q) < IOMAX
  <2>1. t2 = At(t1, Len(q) + 1, r \o <<NULL>>)
    BY <1>5, <1>9, <1>10
  <2>2. Begins(t2, m, q \o r, (n + 1) + Len(r))
    BY <1>3, <1>6, <1>7, <1>8, <2>1, BeginsLonger
  <2>3. /\ q \o r \in Seq(D \cup N) /\ Len(q \o r) = Len(q) + Len(r)
        /\ NULL \notin D \cup N
    BY <1>1, <1>3, <1>6
  <2>4. Len(q \o r) + 1 <= m /\ (n + 1) + Len(r) \in Nat
    BY <1>1, <1>3, <1>6, <1>7, <2>3
  <2>. DEFINE both == q \o r
  <2>. HIDE DEF both
  <2>5. Begins(t2, m, both, (n + 1) + Len(r)) /\ both \in Seq(D \cup N) /\ Len(both) + 1 <= m
    BY <2>2, <2>3, <2>4 DEF both
  <2>6. Listed(t2) = both
    BY <1>7, <2>3, <2>4, <2>5, BeginsFirst
  <2>7. ASSUME NEW i \in DOMAIN t2, i > n + 5 PROVE t2[i] = "behind"
    <3>1. DOMAIN t2 = 1 .. m /\ \A j \in ((n + 1) + Len(r)) + 1 .. m : t2[j] = "behind"
      BY <2>5 DEF Begins
    <3>2. i \in ((n + 1) + Len(r)) + 1 .. m
      BY <1>1, <1>3, <1>7, <2>7, <3>1
    <3>. QED BY <3>1, <3>2
  <2>. QED BY <1>2, <2>6, <2>7 DEF both, t0, t1, t2, q, r, n
<1>11. CASE ~(Len(q) < IOMAX)
  <2>1. t2 = t1 /\ ~(n < IOMAX)
    BY <1>1, <1>2, <1>5, <1>6, <1>7, <1>9, <1>11
  <2>2. ASSUME NEW i \in DOMAIN t1, i > n + 5 PROVE t1[i] = "behind"
    <3>1. DOMAIN t1 = 1 .. m /\ \A j \in (n + 1) + 1 .. m : t1[j] = "behind"
      BY <1>8 DEF Begins
    <3>2. i \in (n + 1) + 1 .. m
      BY <1>1, <1>7, <2>2, <3>1
    <3>. QED BY <3>1, <3>2
  <2>. QED BY <2>1, <2>2 DEF t0, t1, t2, n
<1>. QED BY <1>10, <1>11

(* Until the patch the table is as it was read; from then on it is right,  *)
(* for the kernel that was read.                                           *)
IoRight ==
  LET mine == Only(kern.io, Wanted)
      found == Only(Drivers, kern.syms) IN
  IF ~Found({"io_init", "pvdiskedtinit"})
  THEN Listed(ioInit) = kern.io
  ELSE /\ Len(kern.io) < IOMAX => Listed(ioInit) = mine \o found
       /\ \A i \in DOMAIN ioInit : i > Len(kern.io) + 5 => ioInit[i] = "behind"

IoInv ==
  /\ step \in Nat
  /\ kern.io \in Seq(STRING \ {NULL})
  /\ step <= 9 => ioInit = IoTable(kern.io)
  /\ step > 9 => IoRight

LEMMA IoKept ==
  ASSUME IoInv, kern' = kern, ioInit' = ioInit, step' \in Nat, step' <= 9 <=> step <= 9
  PROVE  IoInv'
<1>1. IoRight => IoRight'
  BY DEF IoRight, Found, Wanted
<1>2. step \in Nat /\ step' \in Nat
  BY DEF IoInv
<1>3. step > 9 <=> step' > 9
  BY <1>2
<1>. QED BY <1>1, <1>2, <1>3 DEF IoInv

LEMMA FreshIo ==
  ASSUME NEW k, k.io \in Seq(STRING \ {NULL}),
         kern' = k, ioInit' = IoTable(k.io), step' \in {0, 1}
  PROVE  IoInv'
<1>1. step' \in Nat /\ ~(step' > 9)
  OBVIOUS
<1>. QED BY <1>1 DEF IoInv

LEMMA NoKernelIo == NoKernel.io \in Seq(STRING \ {NULL}) /\ NoKernel.io = <<>>
BY DEF NoKernel

LEMMA ApplyIo ==
  ASSUME IoInv, NEW n \in 1 .. 32, n # 9, NEW e, Apply(n, e)
  PROVE  IoInv'
<1>1. step = n /\ step' = n + 1 /\ kern' = kern /\ ioInit' = ioInit
  BY DEF Apply
<1>2. step' \in Nat /\ (step' <= 9 <=> step <= 9)
  <2>. HIDE DEF IoInv
  <2>. QED BY <1>1
<1>. QED BY <1>1, <1>2, IoKept

LEMMA PatchIoInitIo == ASSUME IoInv, PatchIoInit PROVE IoInv'
<1>1. /\ step = 9 /\ step' = 10 /\ kern' = kern
      /\ ioInit' = IF Found({"io_init", "pvdiskedtinit"})
                   THEN Appended(Compacted(ioInit)) ELSE ioInit
  BY DEF PatchIoInit
<1>2. kern.io \in Seq(STRING \ {NULL}) /\ ioInit = IoTable(kern.io)
  BY <1>1 DEF IoInv
<1>3. Found({"io_init", "pvdiskedtinit"})' <=> Found({"io_init", "pvdiskedtinit"})
  BY <1>1 DEF Found
<1>4. Wanted' = Wanted
  BY <1>1 DEF Wanted, Found
<1>5. CASE Found({"io_init", "pvdiskedtinit"})
  <2>1. ioInit' = Appended(Compacted(IoTable(kern.io)))
    BY <1>1, <1>2, <1>5
  <2>. DEFINE t == Appended(Compacted(IoTable(kern.io)))
  <2>2. /\ Len(kern.io) < IOMAX => Listed(t) = Only(kern.io, Wanted) \o Only(Drivers, kern.syms)
        /\ \A i \in DOMAIN t : i > Len(kern.io) + 5 => t[i] = "behind"
    BY <1>2, PatchedIs
  <2>. HIDE DEF t
  <2>3. ioInit' = t
    BY <2>1 DEF t
  <2>4. IoRight'
    BY <1>1, <1>3, <1>4, <1>5, <2>2, <2>3 DEF IoRight
  <2>. QED BY <1>1, <1>2, <2>4 DEF IoInv
<1>6. CASE ~Found({"io_init", "pvdiskedtinit"})
  <2>1. ioInit' = ioInit /\ Listed(ioInit) = kern.io
    BY <1>1, <1>2, <1>6, TableBegins
  <2>2. IoRight'
    BY <1>1, <1>3, <1>6, <2>1 DEF IoRight
  <2>. QED BY <1>1, <1>2, <2>1, <2>2 DEF IoInv
<1>. QED BY <1>5, <1>6

LEMMA PatchIo == ASSUME IoInv, Patch PROVE IoInv'
<1>1. CASE PatchIoInit
  BY <1>1, PatchIoInitIo
<1>2. CASE Fault
  <2>1. kern' = kern /\ ioInit' = ioInit /\ step' = step /\ step \in Nat
    BY <1>2 DEF Fault, IoInv
  <2>. QED BY <2>1, IoKept
<1>3. CASE PatchEarly /\ ~PatchIoInit /\ ~Fault
  <2>1. PICK n \in 1 .. 32, e \in {CprintfStore, BcleanGuard, CacheSize, PutbufTrampoline,
            PsemaTrampoline, Timestamp, TimestampCopy, TimestampReader, Rtodc, Ovbcopy,
            ContextBase, MtextnodeGuards, Both(ResetLeds, SetLeds), AllocCpupda, FindCpuFreq,
            BadaddrVal, Wbadaddr} : n # 9 /\ Apply(n, e)
    BY <1>3 DEF PatchEarly, PatchLeds
  <2>. QED BY <2>1, ApplyIo
<1>4. CASE PatchLate
  <2>1. PICK n \in 1 .. 32, e \in {Wd93Init, Wd93Stubs, C0vecTable, PerrInit,
            Both(IntrBase, Ioc1Flag), XfsGuard, Ng1PixelDma, SwtchGuard, ResumeGuard,
            UthreadGuard, MapDevice, GetR4kCounter, LocoreEret, PvfbVtable} :
          n # 9 /\ Apply(n, e)
    BY <1>4 DEF PatchLate
  <2>. QED BY <2>1, ApplyIo
<1>. QED BY <1>1, <1>2, <1>3, <1>4 DEF Patch

LEMMA SeenIo ==
  ASSUME ImageInv, at = "loaded", NEW k \in Looked
  PROVE  k.io \in Seq(STRING \ {NULL})
<1>1. prog \in disk /\ disk \in Disks
  BY DEF ImageInv
<1>2. prog.seen \in Kernel
  BY <1>1, LoaderAssumption DEF Programs
<1>3. k.io = prog.seen.io
  BY <1>2 DEF Looked, Kernel
<1>. QED BY <1>2, <1>3 DEF Kernel

LEMMA IoNext == ASSUME ImageInv, IoInv, [Next]_vars PROVE IoInv'
<1>1. CASE UNCHANGED patchVars
  <2>1. kern' = kern /\ ioInit' = ioInit /\ step' = step /\ step \in Nat
    BY <1>1 DEF patchVars, IoInv
  <2>. QED BY <2>1, IoKept
<1>2. CASE PatchKernel
  BY <1>2, PatchIo DEF PatchKernel
<1>3. CASE Prepare
  <2>1. PICK k \in Looked : Fresh(k)
    BY <1>3 DEF Prepare
  <2>2. at = "loaded"
    BY <1>3 DEF Prepare
  <2>. QED BY <2>1, <2>2, SeenIo, FreshIo DEF Fresh
<1>4. CASE Reset
  <2>1. kern' = NoKernel /\ step' = 0 /\ ioInit' = IoTable(NoKernel.io)
    BY <1>4, NoKernelIo DEF Reset
  <2>. QED BY <2>1, NoKernelIo, FreshIo
<1>5. CASE Next /\ ~PatchKernel /\ ~Prepare /\ ~Reset
  <2>1. UNCHANGED patchVars
    BY <1>5 DEF Next, Call, Load, ProgramReturns, Begin, Refuse, StartElf, LoadSegment,
                SegmentFails, SegmentOf, LoadTable, StartEcoff, LoadSection, Sectioned,
                OnlyLoaded, Jump
  <2>. QED BY <1>1, <2>1
<1>6. CASE UNCHANGED vars
  BY <1>1, <1>6 DEF vars, patchVars
<1>. QED BY <1>2, <1>3, <1>4, <1>5, <1>6

-----------------------------------------------------------------------------
(* Whatever of a kernel is found and recognised, and whatever was loaded   *)
(* before it, every trampoline is written into code that is not run any    *)
(* more and nothing overwrites it.                                         *)
THEOREM TrampolinesAlwaysSafe == Spec => []TrampolinesSafe
BY PatchAlways, InvSafe, PTL

(* And every word that leads into a trampoline finds all of it there, what *)
(* it refers to in the kernel, and the words it comes back to as they were.*)
THEOREM RedirectsAlwaysLand == Spec => []RedirectsLand
BY PatchAlways, InvLands, PTL

(* Whatever was loaded before, a program whose load had no failed read is  *)
(* started with every cell of its segments in place and its BSS zero, but  *)
(* for the named flaws, for any disks and programs.                        *)
THEOREM ImageAlwaysRight == Spec => []ImageRight
<1>1. Init => ImageInv
  <2>1. Init => at = "idle" /\ disk \in Disks /\ bssOf = "none"
    BY DEF Init
  <2>. QED BY <2>1, NameAssumption DEF ImageInv, RangeNamed, ImageRight, Programs
<1>2. ImageInv => ImageRight
  BY DEF ImageInv
<1>. QED BY <1>1, <1>2, ImageNext, PTL DEF Spec

(* For kernels with any drivers and symbols the patch of io_init[] leaves  *)
(* the kernel's own drivers in their order, without ng1_init, with the     *)
(* paravirtual ones that were found behind them, and writes nothing that   *)
(* lies further behind the table than the four words they may take.        *)
THEOREM DriversAlwaysListed == Spec => []DriversListed
<1>1. Init => ImageInv
  <2>1. Init => at = "idle" /\ disk \in Disks /\ bssOf = "none"
    BY DEF Init
  <2>. QED BY <2>1, NameAssumption DEF ImageInv, RangeNamed, ImageRight, Programs
<1>2. Init => IoInv
  <2>1. ASSUME Init PROVE IoInv
    <3>1. kern = NoKernel /\ step = 0 /\ ioInit = IoTable(NoKernel.io)
      BY <2>1, NoKernelIo DEF Init, PatchInit
    <3>2. step \in Nat /\ ~(step > 9)
      BY <3>1
    <3>. QED BY <3>1, <3>2, NoKernelIo DEF IoInv
  <2>. QED BY <2>1
<1>3. IoInv => DriversListed
  BY DEF IoInv, IoRight, DriversListed
<1>. QED BY <1>1, <1>2, <1>3, ImageNext, IoNext, PTL DEF Spec
=============================================================================
