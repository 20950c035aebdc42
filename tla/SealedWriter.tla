----------------------------- MODULE SealedWriter -----------------------------
(* A journal writer that seals: objects are fed to an HMAC as they are written, and a tag object closes every epoch.  *)
(* An HMAC value is the key it was started with and the digests it was fed; two values agree only if both do.         *)
EXTENDS Integers, Sequences, FiniteSets, FiniteSetsExt, SequencesExt

(* The forward secure generator behind the seals: a state squares itself modulo n = p * q at every epoch, and whoever *)
(* knows p and q can jump to any epoch at once.                                                                       *)
CONSTANTS DetRandomize,   \* det_randomize: index 1, 2 -> a candidate prime, 3 -> a number below n
          Bases           \* the prime bases the test tries, in order

\* base ^ exp % m, BigUint::modpow.
ModPow(base, exp, m) ==
    LET pow[e \in Nat] == IF e = 0 THEN 1 % m
                          ELSE LET h == pow[e \div 2]
                               IN  (((h * h) % m) * (IF e % 2 = 1 THEN base % m ELSE 1)) % m
    IN  pow[exp]

Halvings(n) == LET v[d \in Nat] == IF d % 2 = 1 THEN 0 ELSE 1 + v[d \div 2] IN v[n - 1]

SmallPrimeStatus(n) == CASE n < 2 -> "no" [] n \in {2, 3} -> "yes" [] n > 3 /\ n % 2 = 0 -> "no" [] OTHER -> "open"

WitnessPasses(n, a) ==
    LET r == Halvings(n)
        x == ModPow(a, (n - 1) \div (2 ^ r), n)
    IN  \/ a >= n
        \/ x = 1
        \/ \E i \in 0..(r - 1) : ModPow(x, 2 ^ i, n) = n - 1

MillerRabin(n) ==
    \/ SmallPrimeStatus(n) = "yes"
    \/ SmallPrimeStatus(n) = "open" /\ \A i \in DOMAIN Bases : WitnessPasses(n, Bases[i])

\* The two low bits of the candidate are set, then it grows by four until it is prime. PrimeGap bounds the search.
PrimeGap == 12
GenPrime(i) ==
    LET c == 4 * (DetRandomize[i] \div 4) + 3
    IN  Min({n \in {c + 4 * k : k \in 0..PrimeGap} : MillerRabin(n)})

MasterKey == [p |-> GenPrime(1), q |-> GenPrime(2)]
Modulus(mk) == mk.p * mk.q
GenSquare(n) == (DetRandomize[3] * DetRandomize[3]) % n
State0(mk) == [n |-> Modulus(mk), x |-> GenSquare(Modulus(mk)), epoch |-> 0]
Evolve(s) == [s EXCEPT !.x = (s.x * s.x) % s.n, !.epoch = s.epoch + 1]
GetKey(s) == <<s.n, s.x, s.epoch>>

CrtCompose(xp, xq, p, q) ==
    LET a == IF xq >= xp THEN xq - xp ELSE xq + q - xp
        u == CHOOSE v \in 0..(q - 1) : (v * p) % q = 1
    IN  (p * ((a * u) % q) + xp) % (p * q)

TwoPowModPhi(epoch, p) == ModPow(2, epoch, p - 1)
Seek(mk, epoch) ==
    LET x == GenSquare(Modulus(mk))
        xp == ModPow(x % mk.p, TwoPowModPhi(epoch, mk.p), mk.p)
        xq == ModPow(x % mk.q, TwoPowModPhi(epoch, mk.q), mk.q)
    IN  [n |-> Modulus(mk), x |-> CrtCompose(xp, xq, mk.p, mk.q), epoch |-> epoch]

-----------------------------------------------------------------------------
CONSTANTS Interval, Starts,       \* seal options
          Times, Boots,           \* of entries
          Fields, NameOf,         \* data values, and the field each belongs to
          EntryFields,            \* the fields of the entries appended
          FileCodecs,             \* the compression a file is created with
          ArrayCounts,            \* entry arrays an append may have to allocate
          MaxAppends, MaxSeqGap

VARIABLES file,      \* NoFile, or the header fields and objects on disk
          writer,    \* NoWriter, or the live writer
          failed,    \* an append stopped after it had begun to write
          aged       \* an append without seal options went back behind the last tag

svars == <<file, writer, failed, aged>>

NoFile == [sealed |-> FALSE]
NoWriter == [live |-> FALSE]
NoMac == [key |-> <<>>, fed |-> <<>>]
NoSeal == [on |-> FALSE]

\* The bytes of an object that stay as they were written.
Digest(o) ==
    CASE o.k = "data" -> <<"data", o.flags, o.v>>
      [] o.k = "field" -> <<"field", o.v>>
      [] o.k = "entry" -> <<"entry", o.seq, o.t, o.m, o.b, o.items>>
      [] o.k = "tag" -> <<"tag", o.seq, o.epoch>>
      [] OTHER -> <<o.k>>

SealStart(opt) == (opt \div Interval) * Interval
SealStateNew(opt) == [on |-> TRUE, start |-> SealStart(opt), fsprg |-> State0(MasterKey), mac |-> NoMac, running |-> FALSE]
SealRefused(opt) == Interval = 0 \/ opt < Interval
Epoch(s) == s.fsprg.epoch
\* goal_epoch and need_evolve: errors are "error".
GoalEpoch(s, t) == IF s.start = 0 \/ Interval = 0 \/ t < s.start THEN -1 ELSE (t - s.start) \div Interval
NeedEvolve(s, t) ==
    IF GoalEpoch(s, t) < 0 \/ Epoch(s) > GoalEpoch(s, t) THEN "error" ELSE IF Epoch(s) # GoalEpoch(s, t) THEN "yes" ELSE "no"

HmacStart(s) == IF s.running THEN s ELSE [s EXCEPT !.running = TRUE, !.mac = [key |-> GetKey(s.fsprg), fed |-> <<>>]]
HmacWrite(s, d) == LET z == HmacStart(s) IN [z EXCEPT !.mac.fed = Append(@, d)]
HmacReset(s) == [s EXCEPT !.running = FALSE, !.mac = NoMac]
HmacPut(s, o) == IF s.on THEN HmacWrite(s, Digest(o)) ELSE s

\* A file and its writer, as one value: f is the file, w the writer.
ObjectAdded(z, o) == [f |-> [z.f EXCEPT !.objs = Append(@, o)], w |-> [z.w EXCEPT !.num = @ + 1]]
Put(z, o) == ObjectAdded([z EXCEPT !.w.seal = HmacPut(@, o)], o)

AppendTag(z) ==
    LET n == z.f.nTags + 1
        tag == [k |-> "tag", seq |-> n, epoch |-> Epoch(z.w.seal), mac |-> NoMac]
        s == HmacPut(z.w.seal, tag)
    IN  ObjectAdded([f |-> [z.f EXCEPT !.nTags = n], w |-> [z.w EXCEPT !.seal = HmacReset(s)]], [tag EXCEPT !.mac = s.mac])

HeaderDigest(f) == <<"header", f.sealed, f.codec>>
AppendFirstTag(z) ==
    LET s == FoldLeft(LAMBDA a, d : HmacWrite(a, d), z.w.seal, <<HeaderDigest(z.f), Digest(z.f.objs[1]), Digest(z.f.objs[2])>>)
    IN  AppendTag([z EXCEPT !.w.seal = s])
EnsureFirstTag(z) ==
    IF z.w.seal.on /\ ~z.w.tagged
    THEN LET y == AppendFirstTag(z) IN [y EXCEPT !.w.tagged = TRUE]
    ELSE z

\* Evolves to the goal, one tag for every epoch passed on the way.
IntermediateTags(z, goal) ==
    LET step(y, e) == LET v == [y EXCEPT !.w.seal.fsprg = Evolve(@)] IN IF Epoch(v.w.seal) < goal THEN AppendTag(v) ELSE v
    IN  FoldLeft(step, z, [i \in 1..(goal - Epoch(z.w.seal)) |-> i])

MaybeAppendTagLate(z, t) ==
    IF ~z.w.seal.on \/ NeedEvolve(z.w.seal, t) # "yes" THEN z
    ELSE LET y == IntermediateTags(z, GoalEpoch(z.w.seal, t)) IN AppendTag(y)
MaybeAppendTag(z, t) ==
    IF ~z.w.seal.on \/ NeedEvolve(z.w.seal, t) # "yes" THEN z
    ELSE IntermediateTags(AppendTag(z), GoalEpoch(z.w.seal, t))

\* Tags go out once, before the first field of the entry.
PublicationReady(z, t) ==
    LET poison == z.w.seal.on /\ (~z.w.tagged \/ NeedEvolve(z.w.seal, t) = "yes")
    IN  MaybeAppendTag(EnsureFirstTag([z EXCEPT !.w.poisoned = @ \/ poison]), t)

Known(z, k, v) == \E i \in DOMAIN z.f.objs : z.f.objs[i].k = k /\ z.f.objs[i].v = v
AddData(z, v) ==
    IF Known(z, "data", v) THEN z
    ELSE LET y == Put([z EXCEPT !.w.poisoned = TRUE], [k |-> "data", v |-> v, flags |-> z.f.codec])
         IN  IF Known(y, "field", NameOf[v]) THEN y ELSE Put(y, [k |-> "field", v |-> NameOf[v]])

WriteEntry(z, seq, t, m, b, fs, arrays) ==
    LET at(v) == CHOOSE i \in DOMAIN z.f.objs : z.f.objs[i].k = "data" /\ z.f.objs[i].v = v
        e == [k |-> "entry", seq |-> seq, t |-> t, m |-> m, b |-> b, items |-> {at(fs[i]) : i \in DOMAIN fs}]
    IN  FoldLeft(LAMBDA y, i : Put(y, [k |-> "array"]), Put([z EXCEPT !.w.poisoned = TRUE], e), [i \in 1..arrays |-> i])

EntryAdded(z, seq, t, m, b) ==
    [f |-> [z.f EXCEPT !.nObjects = @ + z.w.num, !.tail = Len(z.f.objs), !.nEntries = @ + 1,
                       !.headSeq = IF @ = 0 THEN seq ELSE @, !.headTime = IF @ = 0 THEN t ELSE @,
                       !.tailMono = m, !.tailBoot = b],
     w |-> [z.w EXCEPT !.num = 0, !.next = seq + 1, !.poisoned = FALSE]]

ClampMonotonic(b, m) == IF file.nEntries = 0 \/ file.tailBoot # b \/ m > file.tailMono THEN m ELSE file.tailMono + 1

\* The whole append: the fields up to the stop-th are written, and a stop before the end is the error of that field.
Appended(seq, t, m, b, fs, stop, arrays) ==
    LET z == FoldLeft(AddData, PublicationReady([f |-> file, w |-> writer], t), SubSeq(fs, 1, stop))
    IN  IF stop < Len(fs) THEN z ELSE EntryAdded(WriteEntry(z, seq, t, m, b, fs, arrays), seq, t, m, b)

LastTagTime ==
    LET tags == {i \in 1..file.tail : file.objs[i].k = "tag"}
    IN  IF tags = {} THEN 0 ELSE SealStart(file.opt) + file.objs[Max(tags)].epoch * Interval

AppendSealed(t, b, fs, stop, arrays, gap) ==
    /\ writer.live /\ writer.appends < MaxAppends
    /\ LET seq == writer.next + gap
           m == ClampMonotonic(b, t)
           refused == writer.poisoned \/ (writer.seal.on /\ NeedEvolve(writer.seal, t) = "error") \/ stop = 0
           z == Appended(seq, t, m, b, fs, stop, arrays)
       IN  /\ ~refused
           /\ file' = z.f
           /\ writer' = [z.w EXCEPT !.appends = @ + 1]
           /\ failed' = (failed \/ (stop < Len(fs) /\ z.w.poisoned))
           /\ aged' = (aged \/ (~writer.seal.on /\ t < LastTagTime))

EmptyFile(opt, codec) ==
    [sealed |-> TRUE, codec |-> codec, opt |-> opt, objs |-> <<[k |-> "fieldtable"], [k |-> "datatable"]>>, nObjects |-> 2, tail |-> 2,
     nEntries |-> 0, nTags |-> 0, headSeq |-> 0, headTime |-> 0, tailMono |-> 0, tailBoot |-> 0]

\* JournalWriter::new over a new sealed file: the first tag is on disk before the writer is returned.
CreateSealed(opt, codec) ==
    /\ file = NoFile /\ ~SealRefused(opt)
    /\ LET w == [live |-> TRUE, seal |-> SealStateNew(opt), tagged |-> FALSE, num |-> 0, next |-> 1, poisoned |-> FALSE, appends |-> 0]
           z == EnsureFirstTag([f |-> EmptyFile(opt, codec), w |-> w])
       IN  /\ file' = [z.f EXCEPT !.nObjects = @ + z.w.num, !.tail = Len(z.f.objs)]
           /\ writer' = [z.w EXCEPT !.num = 0]
    /\ UNCHANGED <<failed, aged>>

\* The writer goes away, and the file is opened again; open_for_append knows no seal options. What was not
\* published is written over.
ReopenUnsealed ==
    /\ writer.live /\ writer.seal.on
    /\ file' = [file EXCEPT !.objs = SubSeq(@, 1, file.tail)]
    /\ writer' = [writer EXCEPT !.seal = NoSeal, !.tagged = FALSE, !.num = 0, !.poisoned = FALSE]
    /\ UNCHANGED <<failed, aged>>

SealInit == file = NoFile /\ writer = NoWriter /\ failed = FALSE /\ aged = FALSE
SealNext ==
    \/ \E opt \in Starts, codec \in FileCodecs : CreateSealed(opt, codec)
    \/ \E t \in Times, b \in Boots, fs \in EntryFields, arrays \in ArrayCounts, gap \in 0..MaxSeqGap :
         \E stop \in {1, Len(fs)} : AppendSealed(t, b, fs, stop, arrays, gap)
    \/ ReopenUnsealed

SealSpec == SealInit /\ [][SealNext]_svars

-----------------------------------------------------------------------------
(* The keyed verifier: one walk over the objects up to the published tail, which checks entries against the tags     *)
(* before them and every tag against the objects since the previous one.                                             *)

VerifyKey(f) == [mk |-> MasterKey, start |-> SealStart(f.opt) \div Interval, interval |-> Interval]
ParsedKey(key) == key.interval # 0

UnsetParts == -1
Fresh == [err |-> "", nObjects |-> 0, nEntries |-> 0, nTags |-> 0, lastEnd |-> 0, lastEpoch |-> 0, lastTime |-> 0,
          seq |-> UnsetParts, mono |-> UnsetParts, boot |-> UnsetParts, t |-> UnsetParts, maxT |-> 0, minT |-> UnsetParts]

Codecs == {"xz", "lz4", "zstd"}
FlagsWrong(f, o) ==
    LET flags == IF o.k = "data" THEN o.flags ELSE {}
    IN  Cardinality(flags \cap Codecs) > 1 \/ ~(flags \cap Codecs \subseteq f.codec) \/ ~(flags \subseteq Codecs)

EntryError(f, v, e) ==
    CASE v.nTags = 0 -> "entry before first tag"
      [] v.t # UnsetParts /\ e.t < v.lastTime -> "older entry after newer tag"
      [] v.seq = UnsetParts /\ e.seq # f.headSeq -> "head seqnum"
      [] v.seq # UnsetParts /\ v.seq >= e.seq -> "seqnum"
      [] v.mono # UnsetParts /\ v.boot = e.b /\ v.mono > e.m -> "monotonic"
      [] v.t = UnsetParts /\ e.t # f.headTime -> "head realtime"
      [] OTHER -> ""

VerifyEntry(f, v, e) ==
    [v EXCEPT !.err = EntryError(f, v, e), !.seq = e.seq, !.mono = e.m, !.boot = e.b, !.t = e.t, !.nEntries = @ + 1,
              !.maxT = IF e.t > @ THEN e.t ELSE @, !.minT = IF @ = UnsetParts \/ e.t < @ THEN e.t ELSE @]

ContinuousEpoch(v, epoch) == v.nTags = 0 \/ (v.nTags = 1 /\ epoch = v.lastEpoch) \/ epoch = v.lastEpoch + 1

TagRealtime(key, epoch) == (key.start + epoch) * key.interval
WindowError(key, v, epoch) ==
    LET rt == TagRealtime(key, epoch)
    IN  IF v.t >= rt + key.interval \/ v.maxT >= rt + key.interval THEN "too late"
        ELSE IF v.minT # UnsetParts /\ v.minT < rt THEN "too early" ELSE ""

\* The HMAC of everything after the previous tag up to this one, under the key of the epoch the tag names.
TagMac(f, key, v, at) ==
    LET objects == [i \in 1..(at - v.lastEnd) |-> Digest(f.objs[v.lastEnd + i])]
    IN  [key |-> GetKey(Seek(key.mk, f.objs[at].epoch)), fed |-> (IF v.nTags = 0 THEN <<HeaderDigest(f)>> ELSE <<>>) \o objects]

TagError(f, key, v, at) ==
    LET tag == f.objs[at]
    IN  CASE tag.seq # v.nTags + 1 -> "tag seqnum"
          [] ~ContinuousEpoch(v, tag.epoch) -> "epoch"
          [] WindowError(key, v, tag.epoch) # "" -> WindowError(key, v, tag.epoch)
          [] tag.mac # TagMac(f, key, v, at) -> "tag failed verification"
          [] OTHER -> ""

VerifyTag(f, key, v, at) ==
    [v EXCEPT !.err = TagError(f, key, v, at), !.nTags = @ + 1, !.lastEnd = at, !.lastEpoch = f.objs[at].epoch,
              !.lastTime = TagRealtime(key, f.objs[at].epoch), !.minT = UnsetParts]

Kinds == {"data", "field", "entry", "datatable", "fieldtable", "array", "tag"}
VerifyObject(f, key, v, at) ==
    LET o == f.objs[at]
        n == [v EXCEPT !.nObjects = @ + 1]
    IN  CASE v.err # "" -> v
          [] FlagsWrong(f, o) -> [v EXCEPT !.err = "flags"]
          [] o.k \notin Kinds -> [v EXCEPT !.err = "type"]
          [] o.k = "entry" -> VerifyEntry(f, n, o)
          [] o.k = "tag" -> VerifyTag(f, key, n, at)
          [] OTHER -> n

FinalError(f, v) ==
    CASE v.err # "" -> v.err
      [] v.nObjects # f.nObjects -> "object count"
      [] v.nEntries # f.nEntries -> "entry count"
      [] v.nTags # f.nTags -> "tag count"
      [] OTHER -> ""

VerifySealed(f, key) ==
    IF f.tail > Len(f.objs) THEN "bounds"
    ELSE FinalError(f, FoldLeft(LAMBDA v, at : VerifyObject(f, key, v, at), Fresh, [i \in 1..f.tail |-> i]))

VerifyWithKey(f, key) == IF ~f.sealed THEN "" ELSE IF ~ParsedKey(key) THEN "invalid key" ELSE VerifySealed(f, key)

------------------------------------------------------------------------------
\* Every file a sealing writer leaves verifies under its key, at every moment at which no append has stopped
\* half way and no append without seal options went behind the last tag.
SealedFileVerifies == file.sealed /\ ~failed /\ ~aged => VerifyWithKey(file, VerifyKey(file)) = ""

\* An entry is sealed by a tag of the epoch its time is in: the first tag behind it says that epoch, and an entry
\* no tag follows yet waits in the writer's epoch.
EntryUnderOwnEpoch ==
    writer.live /\ writer.seal.on =>
      \A i \in DOMAIN file.objs : file.objs[i].k = "entry" =>
        LET own == (file.objs[i].t - SealStart(file.opt)) \div Interval
            behind == {j \in i..Len(file.objs) : file.objs[j].k = "tag"}
        IN  own = IF behind = {} THEN Epoch(writer.seal) ELSE file.objs[Min(behind)].epoch

\* What tampering with one sealed object, or with the header, can turn it into.
Forged(o) ==
    CASE o.k = "data" -> {[o EXCEPT !.v = x] : x \in Fields \ {o.v}} \cup {[o EXCEPT !.flags = x] : x \in {{"xz"}, {}, {"xz", "zstd"}} \ {o.flags}}
      [] o.k = "field" -> {[o EXCEPT !.v = "forged"]}
      [] o.k = "entry" -> {[o EXCEPT !.seq = @ + 1], [o EXCEPT !.t = @ + 1], [o EXCEPT !.t = @ - 1], [o EXCEPT !.b = @ + 1], [o EXCEPT !.items = {}]}
      [] o.k = "tag" -> {[o EXCEPT !.seq = @ + 1], [o EXCEPT !.epoch = @ + 1], [o EXCEPT !.mac = NoMac]}
      [] OTHER -> {[o EXCEPT !.k = "unknown"]}
LastTag == Max({i \in 1..file.tail : file.objs[i].k = "tag"})
Tampered ==
    UNION {{[file EXCEPT !.objs[i] = o] : o \in Forged(file.objs[i])} : i \in 1..LastTag}
    \cup {[file EXCEPT !.codec = {"lz4"}]}
    \cup {[file EXCEPT !.objs = [@ EXCEPT ![i] = file.objs[i + 1], ![i + 1] = file.objs[i]]] : i \in {j \in 1..(LastTag - 1) : Digest(file.objs[j]) # Digest(file.objs[j + 1])}}
    \cup {[file EXCEPT !.objs = RemoveAt(@, i), !.nObjects = @ - 1, !.tail = @ - 1] : i \in 1..LastTag}

\* No change of what lies before the last tag, of the covered header fields, or of the order of the objects passes.
TamperDetected ==
    file.sealed /\ VerifyWithKey(file, VerifyKey(file)) = "" =>
      \A f \in Tampered : VerifyWithKey(f, VerifyKey(file)) # ""

\* The verifier's jump to an epoch and the writer's way there, one squaring at a time, meet.
SeekIsEvolution == writer.live /\ writer.seal.on => Seek(MasterKey, Epoch(writer.seal)) = writer.seal.fsprg

(***************************************************************************)
(* Every entry is sealed under the key of its own epoch, which the         *)
(* verifier reaches by seeking; the file verifies, and a change of its     *)
(* sealed part does not.                                                   *)
(***************************************************************************)
SealExact ==
  /\ SeekIsEvolution
  /\ EntryUnderOwnEpoch
  /\ SealedFileVerifies
  /\ TamperDetected
=============================================================================
