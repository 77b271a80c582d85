------------------------- MODULE SampleSourceProofs -------------------------
(***************************************************************************)
(* What the fill is given, for any input, filter, limit and batch size.    *)
(* The argument follows the samples through the three layers: delivered,   *)
(* held by the filter, and read but not taken over are three stretches of  *)
(* the input, in this order, and all of them lie before the place the      *)
(* source has reached.                                                     *)
(***************************************************************************)
EXTENDS SampleSource, SequenceTheorems, TLAPS

Busy == {"read", "filter", "return"}

Samples == {p \in Place : /\ p[1] \in DOMAIN files
                          /\ p[2] \in DOMAIN files[p[1]]
                          /\ Bucket(p) \in Nat}

\* The source has reached the place.
Passed(p) ==
  IF inMemory THEN p[2] <= line
  ELSE p[1] < fileIndex \/ (p[1] = fileIndex /\ (line = 0 \/ p[2] < line))

Reached == {p \in Samples : Passed(p)}

Ordered(s) == \A i, j \in DOMAIN s : i < j => Before(s[i], s[j])
Ahead(s, t) == \A i \in DOMAIN s, j \in DOMAIN t : Before(s[i], t[j])
From(s, S) == \A i \in DOMAIN s : s[i] \in S

Exhausted ==
  IF inMemory THEN line = Len(files[1]) ELSE fileIndex = Len(files) /\ line = 0

\* The place the source has reached is one of its input.
Position ==
  IF inMemory
  THEN Readable(files) /\ fileIndex = 0 /\ line <= Len(files[1])
  ELSE /\ fileIndex <= Len(files)
       /\ line > 0 => fileIndex > 0 /\ line <= Len(files[fileIndex]) + 1

\* The three stretches.
Stretches ==
  /\ Ordered(delivered) /\ Ordered(held) /\ Ordered(inner)
  /\ Ahead(delivered, held) /\ Ahead(delivered, inner) /\ Ahead(held, inner)
  /\ From(delivered, Wanted \cap Reached) /\ From(held, Wanted \cap Reached)
  /\ From(inner, Reached)

\* Who holds what in which phase, and what an empty batch means.
Layers ==
  /\ phase \notin Busy \cup {"failed"} => held = <<>> /\ inner = <<>>
  /\ phase \in Busy => ask > 0
  /\ phase = "read" => Len(inner) < ask /\ (inMemory => inner = <<>>)
  /\ phase \in {"read", "filter"} => Len(held) < ask
  /\ ~Enabled => held = <<>> /\ phase # "filter"
  /\ phase = "filter" /\ inner = <<>> => Exhausted
  /\ phase = "return" /\ (IF Enabled THEN held ELSE inner) = <<>> => Exhausted

\* The limit counts what was delivered, and leaves room for the batch in hand.
Counted ==
  /\ records = Len(delivered)
  /\ limit > 0 => records <= limit /\ (phase \in Busy => records + ask <= limit)
  /\ phase = "ended" /\ ~(limit > 0 /\ Len(delivered) = limit) => Exhausted

\* Without a filter, what was passed was given or is about to be.
CaughtUp ==
  ~Enabled =>
    \A p \in Wanted \cap Reached :
      \/ \E i \in DOMAIN delivered : delivered[i] = p
      \/ \E i \in DOMAIN inner : inner[i] = p

IInv == TypeOK /\ Position /\ Stretches /\ Layers /\ Counted /\ CaughtUp

-----------------------------------------------------------------------------
\* What the types say of the input.
LEMMA InputTypes ==
  ASSUME TypeOK
  PROVE  /\ files \in Seq(Seq(Line)) /\ filter \in [mod: Nat, min: Nat, max: Nat]
         /\ limit \in Nat /\ BatchSize \in Nat \ {0}
         /\ DOMAIN files = 1..Len(files) /\ Len(files) \in Nat
         /\ \A f \in DOMAIN files : /\ files[f] \in Seq(Line) /\ Len(files[f]) \in Nat
                                    /\ DOMAIN files[f] = 1..Len(files[f])
BY SampleSourceAssumption DEF TypeOK

\* A sample is wanted if the filter lets it through.
LEMMA WantedSamples ==
  ASSUME TypeOK
  PROVE  /\ Wanted \subseteq Samples
         /\ \A p \in Samples : Include(Bucket(p)) => p \in Wanted
         /\ ~Enabled => Samples \subseteq Wanted
<1>1. ASSUME NEW p \in Wanted PROVE p \in Samples
  <2>1. PICK f \in DOMAIN files : p \in {f} \X DOMAIN files[f]
    BY DEF Wanted
  <2> QED
    BY <2>1, InputTypes DEF Wanted, Samples, Place
<1>2. ASSUME NEW p \in Samples, Include(Bucket(p)) PROVE p \in Wanted
  <2>1. p \in {p[1]} \X DOMAIN files[p[1]]
    BY DEF Samples, Place
  <2> QED
    BY <1>2, <2>1 DEF Wanted, Samples, Include
<1>3. ASSUME NEW p \in Samples, ~Enabled PROVE p \in Wanted
  BY <1>2, <1>3 DEF Include
<1> QED
  BY <1>1, <1>2, <1>3

\* The input and the flags stay, and with them everything said of them.
LEMMA SameSetup ==
  ASSUME UNCHANGED setupVars
  PROVE  /\ Samples' = Samples /\ Wanted' = Wanted /\ Enabled' = Enabled
         /\ Readable(files)' = Readable(files)
BY DEF setupVars, Samples, Wanted, Enabled, EffectiveMaxBucket, Bucket, Readable

\* Every step leaves the input and the flags alone.
LEMMA SetupStays ==
  ASSUME [Next]_vars
  PROVE  UNCHANGED setupVars
BY DEF Next, vars, NextBatch, AskFor, LimitReached, OpenNext, OpenError, NoMoreFiles, ScanSample,
       ScanBlank, FileError, CloseCurrent, ReadFromMemory, TakeOver, SourceExhausted, Return, Fail

\* What has been passed lies before the line in hand.
LEMMA PassedIsBefore ==
  ASSUME TypeOK, Position, NEW p \in Reached
  PROVE  /\ ~inMemory /\ line > 0 => Before(p, <<fileIndex, line>>)
         /\ inMemory => p[1] = 1 /\ p[2] <= line
BY InputTypes DEF TypeOK, Position, Reached, Samples, Place, Passed, Before, Readable

-----------------------------------------------------------------------------
\* Steps that move through the input without taking a sample, or change hands.
LEMMA StretchesStay ==
  ASSUME TypeOK, Stretches, UNCHANGED <<setupVars, delivered, held, inner>>,
         Reached \subseteq Reached'
  PROVE  Stretches'
BY SameSetup DEF Stretches, Ordered, Ahead, From, Before

LEMMA CaughtUpStays ==
  ASSUME CaughtUp, UNCHANGED <<setupVars, delivered, inner>>,
         Reached' = Reached
  PROVE  CaughtUp'
BY SameSetup DEF CaughtUp

\* Steps of the layers above: no file is read and no sample changes hands.
LEMMA HandsOver ==
  ASSUME IInv,
         NextBatch \/ LimitReached \/ OpenError \/ NoMoreFiles \/ FileError \/ SourceExhausted
  PROVE  IInv'
<1>1. UNCHANGED <<setupVars, fileIndex, line, delivered, held, inner, records>>
  BY DEF NextBatch, AskFor, LimitReached, OpenError, NoMoreFiles, FileError, SourceExhausted, Fail,
         readVars, IInv, Layers, Busy
<1>2. /\ Reached' = Reached
      /\ Exhausted' <=> Exhausted
      /\ Enabled' <=> Enabled
  BY <1>1, SameSetup DEF Reached, Passed, Exhausted, setupVars, Enabled
<1>3. TypeOK'
  BY <1>1, InputTypes
     DEF IInv, TypeOK, Counted, Layers, Busy, setupVars, NextBatch, AskFor, Remaining, LimitReached,
         OpenError, NoMoreFiles, FileError, SourceExhausted, Fail, GoesUp
<1>4. Position'
  BY <1>1 DEF IInv, Position, setupVars, Readable
<1>5. Stretches'
  BY <1>1, <1>2, StretchesStay DEF IInv
<1>6. Layers'
  BY <1>1, <1>2, InputTypes
     DEF IInv, TypeOK, Layers, Busy, NextBatch, AskFor, Remaining, LimitReached, OpenError,
         NoMoreFiles, FileError, SourceExhausted, Fail, GoesUp, Exhausted
<1>7. Counted'
  BY <1>1, <1>2, InputTypes
     DEF IInv, TypeOK, Layers, Counted, Busy, setupVars, NextBatch, AskFor, Remaining, LimitReached,
         OpenError, NoMoreFiles, FileError, SourceExhausted, Fail, GoesUp
<1>8. CaughtUp'
  BY <1>1, <1>2, CaughtUpStays DEF IInv
<1> QED
  BY <1>3, <1>4, <1>5, <1>6, <1>7, <1>8 DEF IInv

\* Steps through the input that find no sample.
LEMMA MovesOn ==
  ASSUME IInv, OpenNext \/ ScanBlank \/ CloseCurrent
  PROVE  IInv'
<1>1. /\ UNCHANGED <<setupVars, delivered, held, inner, records, phase, ask>>
      /\ phase = "read" /\ ~inMemory
  BY DEF OpenNext, ScanBlank, CloseCurrent, AtLine
<1>2. Reached' = Reached
  <2> SUFFICES ASSUME NEW p \in Samples PROVE Passed(p)' <=> Passed(p)
    BY <1>1, SameSetup DEF Reached
  <2>1. /\ p[1] \in 1..Len(files) /\ p[2] \in 1..Len(files[p[1]])
        /\ files[p[1]][p[2]] \in Nat
        /\ Len(files[p[1]]) \in Nat /\ Len(files) \in Nat
        /\ fileIndex \in Nat /\ line \in Nat /\ ~inMemory /\ ~inMemory'
    BY <1>1, InputTypes DEF IInv, TypeOK, Samples, Place, Bucket, setupVars
  <2>2. CASE OpenNext
    BY <2>1, <2>2 DEF OpenNext, Passed
  <2>3. CASE ScanBlank
    <3>1. p[1] = fileIndex => p[2] # line
      BY <2>1, <2>3, SampleSourceAssumption DEF ScanBlank
    <3> QED
      BY <2>1, <2>3, <3>1 DEF ScanBlank, AtLine, Passed
  <2>4. CASE CloseCurrent
    BY <2>1, <2>4 DEF CloseCurrent, Passed
  <2> QED
    BY <2>2, <2>3, <2>4
<1>3. TypeOK'
  BY <1>1 DEF IInv, TypeOK, setupVars, OpenNext, ScanBlank, CloseCurrent
<1>4. Position'
  <2>1. \A f \in DOMAIN files : Len(files[f]) \in Nat
    BY InputTypes DEF IInv
  <2>2. CASE OpenNext
    BY <1>1, <2>1, <2>2, InputTypes DEF IInv, TypeOK, Position, OpenNext, setupVars
  <2>3. CASE ScanBlank
    BY <1>1, <2>1, <2>3, InputTypes DEF IInv, TypeOK, Position, ScanBlank, AtLine, setupVars
  <2>4. CASE CloseCurrent
    BY <1>1, <2>1, <2>4, InputTypes DEF IInv, TypeOK, Position, CloseCurrent, setupVars
  <2> QED
    BY <2>2, <2>3, <2>4
<1>5. Stretches'
  BY <1>1, <1>2, StretchesStay DEF IInv
<1>6. Layers'
  BY <1>1 DEF IInv, Layers, Busy, Enabled, setupVars
<1>7. Counted'
  BY <1>1 DEF IInv, Counted, Busy, setupVars
<1>8. CaughtUp'
  BY <1>1, <1>2, CaughtUpStays DEF IInv
<1> QED
  BY <1>3, <1>4, <1>5, <1>6, <1>7, <1>8 DEF IInv

\* The inner batch may grow by samples that had not been passed.
LEMMA StretchesGrow ==
  ASSUME TypeOK, Stretches, UNCHANGED <<setupVars, delivered, held>>,
         Reached \subseteq Reached',
         NEW new \in Seq(Place), inner' = inner \o new, Ordered(new), From(new, Reached'),
         \A p \in Reached : \A i \in DOMAIN new : Before(p, new[i])
  PROVE  Stretches'
<1>1. /\ inner \in Seq(Place) /\ DOMAIN inner' = 1..(Len(inner) + Len(new))
      /\ DOMAIN inner = 1..Len(inner) /\ DOMAIN new = 1..Len(new)
      /\ Len(inner) \in Nat /\ Len(new) \in Nat
      /\ \A i \in DOMAIN inner : inner'[i] = inner[i]
      /\ \A i \in DOMAIN inner' : i \notin DOMAIN inner =>
             i - Len(inner) \in DOMAIN new /\ inner'[i] = new[i - Len(inner)]
  BY DEF TypeOK
<1>2. From(inner', Reached')
  BY <1>1 DEF Stretches, From
<1>3. Ordered(inner')
  <2> SUFFICES ASSUME NEW i \in DOMAIN inner', NEW j \in DOMAIN inner', i < j
               PROVE  Before(inner'[i], inner'[j])
    BY DEF Ordered
  <2>1. CASE j \in DOMAIN inner
    BY <1>1, <2>1 DEF Stretches, Ordered
  <2>2. CASE j \notin DOMAIN inner /\ i \in DOMAIN inner
    BY <1>1, <2>2 DEF Stretches, From
  <2>3. CASE j \notin DOMAIN inner /\ i \notin DOMAIN inner
    BY <1>1, <2>3 DEF Ordered
  <2> QED
    BY <2>1, <2>2, <2>3
<1>4. Ahead(delivered, inner') /\ Ahead(held, inner')
  BY <1>1 DEF Stretches, From, Ahead
<1>5. Wanted' = Wanted
  BY SameSetup
<1>6. /\ From(delivered', Wanted' \cap Reached') /\ From(held', Wanted' \cap Reached')
      /\ Ordered(delivered') /\ Ordered(held') /\ Ahead(delivered', held')
  BY <1>5 DEF Stretches, From, Ordered, Ahead
<1>7. Ahead(delivered', inner') /\ Ahead(held', inner')
  BY <1>4 DEF Ahead
<1> QED
  BY <1>2, <1>3, <1>6, <1>7 DEF Stretches, Ordered, Ahead, From, Before

\* A line with a sample: it comes after all that was passed, and is passed now.
LEMMA ScanSampleStep ==
  ASSUME IInv, ScanSample
  PROVE  IInv'
<1> DEFINE here == <<fileIndex, line>>
<1>1. /\ UNCHANGED <<setupVars, delivered, held, records, ask, fileIndex>>
      /\ phase = "read" /\ ~inMemory /\ line' = line + 1 /\ line > 0
      /\ line <= Len(files[fileIndex]) /\ files[fileIndex][line] \in Nat
      /\ inner' = Append(inner, here)
      /\ phase' = IF Len(inner) + 1 = ask THEN GoesUp ELSE phase
  BY DEF ScanSample, AtLine, LineAfterFull
<1>2. /\ inner \in Seq(Place) /\ Len(inner) \in Nat /\ ask \in Nat /\ Len(inner) < ask
      /\ fileIndex \in Nat /\ line \in Nat /\ fileIndex \in DOMAIN files
      /\ Len(files[fileIndex]) \in Nat
  BY <1>1, InputTypes DEF IInv, TypeOK, Layers, Position
<1>3. here \in Samples /\ here \in Place /\ here[1] = fileIndex /\ here[2] = line
  BY <1>1, <1>2, InputTypes DEF IInv, Samples, Place, Bucket
<1>4. Reached' = Reached \cup {here}
  <2>1. \A p \in Samples : Passed(p)' <=> (Passed(p) \/ p = here)
    BY <1>1, <1>2 DEF Samples, Place, Passed, setupVars
  <2> QED
    BY <1>1, <1>3, <2>1, SameSetup DEF Reached
<1>5. TypeOK'
  <2>1. inner' \in Seq(Place) /\ Len(inner') = Len(inner) + 1
    BY <1>1, <1>2, <1>3
  <2> QED
    BY <1>1, <1>2, <2>1 DEF IInv, TypeOK, setupVars, GoesUp
<1>6. Position'
  BY <1>1, <1>2 DEF IInv, Position, setupVars
<1>7. Stretches'
  <2> DEFINE new == <<here>>
  <2>1. new \in Seq(Place) /\ DOMAIN new = {1} /\ new[1] = here
    BY <1>3
  <2>2. \A p \in Reached : \A i \in DOMAIN new : Before(p, new[i])
    BY <1>1, <2>1, PassedIsBefore DEF IInv
  <2>3. Ordered(new) /\ From(new, Reached')
    BY <1>4, <2>1 DEF Ordered, From
  <2>4. inner' = inner \o new
    BY <1>1, <1>2, <1>3, AppendIsConcat
  <2> HIDE DEF new
  <2> QED
    BY <1>1, <1>4, <2>1, <2>2, <2>3, <2>4, StretchesGrow DEF IInv
<1>8. Layers'
  <2>1. inner' # <<>> /\ Len(inner') = Len(inner) + 1
    BY <1>1, <1>2, <1>3
  <2> QED
    BY <1>1, <1>2, <2>1 DEF IInv, Layers, Busy, Enabled, setupVars, GoesUp
<1>9. Counted'
  BY <1>1 DEF IInv, Counted, Busy, setupVars, GoesUp
<1>10. CaughtUp'
  <2> SUFFICES ASSUME ~Enabled, NEW p \in Wanted \cap Reached'
               PROVE  \/ \E i \in DOMAIN delivered : delivered[i] = p
                      \/ \E i \in DOMAIN inner' : inner'[i] = p
    BY <1>1, SameSetup DEF CaughtUp
  <2>1. /\ DOMAIN inner' = 1..(Len(inner) + 1) /\ DOMAIN inner = 1..Len(inner)
        /\ inner'[Len(inner) + 1] = here
        /\ \A i \in DOMAIN inner : inner'[i] = inner[i]
    BY <1>1, <1>2, <1>3
  <2>2. CASE p = here
    BY <1>2, <2>1, <2>2
  <2>3. CASE p \in Reached
    BY <1>2, <2>1, <2>3 DEF IInv, CaughtUp
  <2> QED
    BY <1>4, <2>2, <2>3
<1> QED
  BY <1>5, <1>6, <1>7, <1>8, <1>9, <1>10 DEF IInv

\* The list hands out its next samples: what lies between the old place and the new.
LEMMA ReadFromMemoryStep ==
  ASSUME IInv, ReadFromMemory
  PROVE  IInv'
<1> DEFINE end == IF line + ask < Len(files[1]) THEN line + ask ELSE Len(files[1])
           new == [k \in 1..(end - line) |-> <<1, line + k>>]
<1>1. /\ UNCHANGED <<setupVars, delivered, held, records, ask, fileIndex>>
      /\ phase = "read" /\ inMemory /\ line' = end /\ inner' = new /\ phase' = GoesUp
  BY DEF ReadFromMemory
<1>2. /\ ask \in Nat \ {0} /\ line \in Nat /\ Len(files) = 1 /\ 1 \in DOMAIN files
      /\ Len(files[1]) \in Nat /\ line <= Len(files[1]) /\ inner = <<>> /\ fileIndex = 0
      /\ DOMAIN files[1] = 1..Len(files[1]) /\ DOMAIN files = {1}
      /\ \A i \in DOMAIN files[1] : files[1][i] \in Nat
  BY <1>1, InputTypes DEF IInv, TypeOK, Layers, Position, Busy, Readable
<1>3. /\ end \in Nat /\ line <= end /\ end <= Len(files[1]) /\ end - line \in Nat
      /\ end - line <= ask /\ (end = line => line = Len(files[1]))
  BY <1>2
<1> HIDE DEF end
<1>4. /\ new \in Seq(Place) /\ Len(new) = end - line /\ DOMAIN new = 1..(end - line)
      /\ \A k \in DOMAIN new : new[k] = <<1, line + k>> /\ new[k] \in Samples
  <2>1. \A k \in 1..(end - line) : /\ <<1, line + k>> \in Place
                                   /\ line + k \in 1..Len(files[1])
    BY <1>2, <1>3 DEF Place
  <2>2. \A k \in 1..(end - line) : <<1, line + k>> \in Samples
    BY <1>2, <2>1 DEF Samples, Bucket
  <2> QED
    BY <1>3, <2>1, <2>2
<1> HIDE DEF new
<1>5. /\ Reached \subseteq Reached'
      /\ From(new, Reached')
      /\ \A p \in Reached' : p \in Reached \/ \E k \in DOMAIN new : new[k] = p
  <2>1. Samples' = Samples /\ inMemory'
    BY <1>1, SameSetup DEF setupVars
  <2>2. /\ Reached = {p \in Samples : p[2] <= line}
        /\ Reached' = {p \in Samples : p[2] <= end}
    BY <1>1, <2>1 DEF Reached, Passed
  <2>3. Reached \subseteq Reached'
    <3>1. \A p \in Samples : p[2] \in Nat
      BY DEF Samples, Place
    <3> QED
      BY <1>2, <1>3, <2>2, <3>1
  <2>4. ASSUME NEW k \in DOMAIN new PROVE new[k] \in Reached'
    <3>1. new[k] \in Samples /\ new[k][2] = line + k /\ line + k <= end
      BY <1>2, <1>3, <1>4
    <3> QED
      BY <2>2, <3>1
  <2>5. ASSUME NEW p \in Reached', p \notin Reached PROVE \E k \in DOMAIN new : new[k] = p
    <3>1. /\ p \in Nat \X Nat /\ p[1] = 1 /\ p[2] \in Nat
          /\ p[2] <= end /\ ~(p[2] <= line)
      BY <1>2, <2>2, <2>5 DEF Samples, Place
    <3>2. p[2] - line \in DOMAIN new /\ p = <<1, line + (p[2] - line)>>
      BY <1>2, <1>3, <1>4, <3>1
    <3> QED
      BY <1>4, <3>2
  <2> QED
    BY <2>3, <2>4, <2>5 DEF From
<1>6. TypeOK'
  BY <1>1, <1>2, <1>3, <1>4 DEF IInv, TypeOK, setupVars, GoesUp
<1>7. Position'
  BY <1>1, <1>2, <1>3 DEF IInv, Position, setupVars, Readable
<1>8. Stretches'
  <2>1. inner' = inner \o new
    BY <1>1, <1>2, <1>4, ConcatEmptySeq
  <2>2. Ordered(new)
    BY <1>2, <1>3, <1>4 DEF Ordered, Before
  <2>3. \A p \in Reached : \A i \in DOMAIN new : Before(p, new[i])
    <3> SUFFICES ASSUME NEW p \in Reached, NEW i \in DOMAIN new PROVE Before(p, new[i])
      OBVIOUS
    <3>1. p[1] = 1 /\ p[2] <= line /\ p[2] \in Nat
      BY <1>1, PassedIsBefore DEF IInv, Reached, Samples, Place
    <3> QED
      BY <1>2, <1>3, <1>4, <3>1 DEF Before
  <2> QED
    BY <1>1, <1>4, <1>5, <2>1, <2>2, <2>3, StretchesGrow DEF IInv
<1>9. Exhausted' <=> end = Len(files[1])
  BY <1>1 DEF Exhausted, setupVars
<1>10. Layers'
  <2>1. inner' = <<>> => end = Len(files[1])
    BY <1>1, <1>2, <1>3, <1>4
  <2> QED
    BY <1>1, <1>2, <1>9, <2>1 DEF IInv, Layers, Busy, Enabled, setupVars, GoesUp
<1>11. Counted'
  BY <1>1 DEF IInv, Counted, Busy, setupVars, GoesUp
<1>12. CaughtUp'
  <2> SUFFICES ASSUME ~Enabled, NEW p \in Wanted \cap Reached'
               PROVE  \/ \E i \in DOMAIN delivered : delivered[i] = p
                      \/ \E i \in DOMAIN inner' : inner'[i] = p
    BY <1>1, SameSetup DEF CaughtUp
  <2> QED
    BY <1>1, <1>2, <1>5 DEF IInv, CaughtUp
<1> QED
  BY <1>6, <1>7, <1>8, <1>10, <1>11, <1>12 DEF IInv

-----------------------------------------------------------------------------
\* The filter takes the first sample of the inner batch, or lets it go.
LEMMA TakeOverStep ==
  ASSUME IInv, TakeOver
  PROVE  IInv'
<1> DEFINE first == Head(inner)
<1>1. /\ UNCHANGED <<setupVars, delivered, records, ask, fileIndex, line>>
      /\ phase = "filter" /\ inner # <<>>
      /\ held' = IF Include(Bucket(first)) THEN Append(held, first) ELSE held
      /\ \/ Len(held') = ask /\ phase' = "return" /\ inner' = <<>>
         \/ /\ Len(held') # ask
            /\ phase' = IF Len(inner) = 1 THEN "read" ELSE "filter"
            /\ inner' = Tail(inner)
  BY DEF TakeOver, Full
<1>2. /\ ask \in Nat \ {0} /\ inner \in Seq(Place) /\ held \in Seq(Place)
      /\ Len(held) \in Nat /\ Len(held) < ask /\ Len(inner) \in Nat \ {0}
      /\ Len(inner) <= ask /\ Enabled
      /\ DOMAIN inner = 1..Len(inner) /\ DOMAIN held = 1..Len(held)
  BY <1>1 DEF IInv, TypeOK, Layers, Busy
<1>3. /\ Reached' = Reached /\ Wanted' = Wanted /\ (Exhausted' <=> Exhausted)
      /\ (Enabled' <=> Enabled)
  BY <1>1, SameSetup DEF Reached, Passed, Exhausted, setupVars
<1>4. first \in Place /\ first = inner[1] /\ first \in Reached /\ 1 \in DOMAIN inner
  BY <1>2 DEF IInv, Stretches, From
<1>5. /\ held' \in Seq(Place) /\ Len(held') \in Nat /\ Len(held') <= ask
      /\ DOMAIN held' = 1..Len(held')
      /\ \A i \in DOMAIN held' : \/ i \in DOMAIN held /\ held'[i] = held[i]
                                 \/ /\ i = Len(held) + 1 /\ held'[i] = first
                                    /\ Include(Bucket(first))
  <2>1. CASE Include(Bucket(first))
    <3>1. held' = Append(held, first)
      BY <1>1, <2>1
    <3> HIDE DEF first
    <3>2. /\ held' \in Seq(Place) /\ Len(held') = Len(held) + 1
          /\ \A i \in 1..Len(held) : held'[i] = held[i]
          /\ held'[Len(held) + 1] = first
      BY <1>2, <1>4, <3>1, AppendProperties
    <3>3. DOMAIN held' = 1..Len(held')
      BY <3>2
    <3> QED
      BY <1>2, <2>1, <3>2, <3>3
  <2>2. CASE ~Include(Bucket(first))
    <3>1. held' = held
      BY <1>1, <2>2
    <3> QED
      BY <1>2, <3>1
  <2> QED
    BY <2>1, <2>2
<1>6. /\ inner' \in Seq(Place) /\ Len(inner') \in Nat /\ DOMAIN inner' = 1..Len(inner')
      /\ Len(inner') < Len(inner)
      /\ \A i \in DOMAIN inner' : i + 1 \in DOMAIN inner /\ inner'[i] = inner[i + 1]
      /\ phase' = "read" => inner' = <<>>
      /\ phase' = "filter" => inner' # <<>>
  <2>1. CASE inner' = <<>> /\ phase' = "return"
    BY <1>2, <2>1
  <2>2. CASE inner' = Tail(inner) /\ phase' = IF Len(inner) = 1 THEN "read" ELSE "filter"
    <3>1. /\ inner' \in Seq(Place) /\ Len(inner') = Len(inner) - 1
          /\ \A i \in 1..Len(inner') : inner'[i] = inner[i + 1]
      BY <1>1, <1>2, <2>2, HeadTailProperties
    <3>2. DOMAIN inner' = 1..Len(inner')
      BY <3>1
    <3>3. Len(inner') \in Nat /\ Len(inner') < Len(inner)
      BY <1>2, <3>1
    <3>4. \A i \in DOMAIN inner' : i + 1 \in DOMAIN inner /\ inner'[i] = inner[i + 1]
      BY <1>2, <3>1, <3>2
    <3>5. phase' = "read" => inner' = <<>>
      BY <1>2, <2>2, <3>1, EmptySeq
    <3>6. phase' = "filter" => inner' # <<>>
      <4>1. phase' = "filter" => Len(inner) # 1
        BY <2>2
      <4>2. Len(inner) # 1 => Len(inner') # 0
        BY <1>2, <3>1
      <4> QED
        BY <4>1, <4>2, EmptySeq
    <3> QED
      BY <3>1, <3>2, <3>3, <3>4, <3>5, <3>6
  <2> QED
    BY <1>1, <2>1, <2>2
<1> HIDE DEF first
<1>7. TypeOK'
  <2>1. Len(inner') <= ask
    BY <1>2, <1>6
  <2> QED
    BY <1>1, <1>5, <1>6, <2>1 DEF IInv, TypeOK, setupVars
<1>8. Position'
  BY <1>1 DEF IInv, Position, setupVars, Readable
<1>9. Stretches'
  <2>1. Ordered(held')
    BY <1>2, <1>4, <1>5 DEF IInv, Stretches, Ordered, Ahead
  <2>2. Ordered(inner')
    BY <1>2, <1>6 DEF IInv, Stretches, Ordered
  <2>3. Ahead(delivered, held') /\ Ahead(delivered, inner')
    BY <1>4, <1>5, <1>6 DEF IInv, Stretches, Ahead
  <2>4. Ahead(held', inner')
    <3> SUFFICES ASSUME NEW i \in DOMAIN held', NEW j \in DOMAIN inner'
                 PROVE  Before(held'[i], inner'[j])
      BY DEF Ahead
    <3>1. j + 1 \in DOMAIN inner /\ inner'[j] = inner[j + 1] /\ 1 < j + 1
      BY <1>2, <1>6
    <3> QED
      BY <1>4, <1>5, <3>1 DEF IInv, Stretches, Ordered, Ahead
  <2>5. first \in Samples
    BY <1>4 DEF Reached
  <2>6. Include(Bucket(first)) => first \in Wanted
    BY <2>5, WantedSamples DEF IInv
  <2>7. From(held', Wanted \cap Reached) /\ From(inner', Reached)
    BY <1>4, <1>5, <1>6, <2>6 DEF IInv, Stretches, From
  <2> QED
    BY <1>1, <1>3, <2>1, <2>2, <2>3, <2>4, <2>7
       DEF IInv, Stretches, Ordered, Ahead, From, Before
<1>10. Layers'
  <2>1. /\ ask' = ask /\ ask \in Nat /\ ask > 0 /\ Enabled'
        /\ Len(held') \in Nat /\ Len(held') <= ask
    <3>1. Enabled'
      BY <1>2, <1>3
    <3>2. ask' = ask
      BY <1>1
    <3> QED
      BY <1>2, <1>5, <3>1, <3>2
  <2>2. \/ Len(held') = ask /\ phase' = "return"
        \/ Len(held') < ask /\ phase' = "read" /\ inner' = <<>>
        \/ Len(held') < ask /\ phase' = "filter" /\ inner' # <<>>
    <3>1. CASE Len(held') = ask
      BY <1>1, <3>1
    <3>2. CASE Len(held') # ask
      <4>1. Len(held') < ask
        BY <2>1, <3>2
      <4> QED
        BY <1>1, <1>6, <3>2, <4>1
    <3> QED
      BY <3>1, <3>2
  <2>3. Len(held') = ask => held' # <<>>
    BY <2>1
  <2>4. Len(<<>>) = 0
    OBVIOUS
  <2> QED
    BY <2>1, <2>2, <2>3, <2>4 DEF Layers, Busy
<1>11. Counted'
  BY <1>1, <1>3 DEF IInv, Counted, Busy, setupVars
<1>12. CaughtUp'
  BY <1>2, <1>3 DEF CaughtUp
<1> QED
  BY <1>7, <1>8, <1>9, <1>10, <1>11, <1>12 DEF IInv

\* The batch is handed to the fill.
LEMMA ReturnStep ==
  ASSUME IInv, Return
  PROVE  IInv'
<1> DEFINE batch == IF Enabled THEN held ELSE inner
<1>1. /\ UNCHANGED <<setupVars, fileIndex, line, ask>>
      /\ phase = "return" /\ records' = records + Len(batch) /\ delivered' = delivered \o batch
      /\ phase' = (IF batch = <<>> THEN "ended" ELSE "idle")
      /\ inner' = <<>> /\ held' = <<>>
  BY DEF Return
<1>2. /\ batch \in Seq(Place) /\ Len(batch) \in Nat /\ Len(batch) <= ask /\ ask \in Nat
      /\ delivered \in Seq(Place) /\ records = Len(delivered) /\ limit \in Nat
      /\ (batch = <<>> => Exhausted)
  BY <1>1, InputTypes DEF IInv, TypeOK, Layers, Counted
<1>3. /\ Ordered(batch) /\ Ahead(delivered, batch) /\ From(batch, Wanted \cap Reached)
      /\ (~Enabled => batch = inner)
  <2>1. ~Enabled => Reached \subseteq Wanted
    BY WantedSamples DEF IInv, Reached
  <2> QED
    BY <2>1 DEF IInv, Stretches, From
<1>4. /\ Reached' = Reached /\ Wanted' = Wanted /\ (Exhausted' <=> Exhausted)
      /\ (Enabled' <=> Enabled)
  BY <1>1, SameSetup DEF Reached, Passed, Exhausted, setupVars
<1> HIDE DEF batch
<1>5. /\ delivered' \in Seq(Place) /\ Len(delivered') = Len(delivered) + Len(batch)
      /\ Len(delivered) \in Nat
      /\ DOMAIN delivered = 1..Len(delivered) /\ DOMAIN batch = 1..Len(batch)
      /\ DOMAIN delivered' = 1..(Len(delivered) + Len(batch))
      /\ \A i \in DOMAIN delivered : i \in DOMAIN delivered' /\ delivered'[i] = delivered[i]
      /\ \A i \in DOMAIN batch : /\ Len(delivered) + i \in DOMAIN delivered'
                                 /\ delivered'[Len(delivered) + i] = batch[i]
      /\ \A i \in DOMAIN delivered' : i \notin DOMAIN delivered =>
           /\ i - Len(delivered) \in DOMAIN batch
           /\ delivered'[i] = batch[i - Len(delivered)]
  BY <1>1, <1>2
<1>6. TypeOK'
  BY <1>1, <1>2, <1>5 DEF IInv, TypeOK, setupVars
<1>7. Position'
  BY <1>1 DEF IInv, Position, setupVars, Readable
<1>8. Stretches'
  <2>1. From(delivered', Wanted \cap Reached)
    BY <1>3, <1>5 DEF IInv, Stretches, From
  <2>2. Ordered(delivered')
    <3> SUFFICES ASSUME NEW i \in DOMAIN delivered', NEW j \in DOMAIN delivered', i < j
                 PROVE  Before(delivered'[i], delivered'[j])
      BY DEF Ordered
    <3>1. CASE j \in DOMAIN delivered
      <4>1. i \in DOMAIN delivered
        BY <1>5, <3>1
      <4>2. delivered'[i] = delivered[i] /\ delivered'[j] = delivered[j]
        BY <1>5, <3>1, <4>1
      <4> QED
        BY <3>1, <4>1, <4>2 DEF IInv, Stretches, Ordered
    <3>2. CASE j \notin DOMAIN delivered /\ i \in DOMAIN delivered
      BY <1>3, <1>5, <3>2 DEF Ahead
    <3>3. CASE j \notin DOMAIN delivered /\ i \notin DOMAIN delivered
      BY <1>2, <1>3, <1>5, <3>3 DEF Ordered
    <3> QED
      BY <3>1, <3>2, <3>3
  <2>3. /\ Ordered(<<>>) /\ Ahead(delivered', <<>>) /\ Ahead(<<>>, <<>>)
        /\ From(<<>>, Wanted \cap Reached) /\ From(<<>>, Reached)
    BY DEF Ordered, Ahead, From
  <2>4. /\ Ordered(delivered') /\ Ordered(held') /\ Ordered(inner')
        /\ Ahead(delivered', held') /\ Ahead(delivered', inner') /\ Ahead(held', inner')
        /\ From(delivered', Wanted' \cap Reached') /\ From(held', Wanted' \cap Reached')
        /\ From(inner', Reached')
    BY <1>1, <1>4, <2>1, <2>2, <2>3
  <2> QED
    BY <2>4 DEF Stretches, Ordered, Ahead, From, Before
<1>9. Layers'
  BY <1>1 DEF Layers, Busy
<1>10. Counted'
  BY <1>1, <1>2, <1>4, <1>5 DEF IInv, Counted, Busy, setupVars
<1>11. CaughtUp'
  <2> SUFFICES ASSUME ~Enabled, NEW p \in Wanted \cap Reached
               PROVE  \E i \in DOMAIN delivered' : delivered'[i] = p
    BY <1>4 DEF CaughtUp
  <2>1. CASE \E i \in DOMAIN delivered : delivered[i] = p
    BY <1>5, <2>1
  <2>2. CASE \E i \in DOMAIN batch : batch[i] = p
    BY <1>5, <2>2
  <2> QED
    BY <1>3, <2>1, <2>2 DEF IInv, CaughtUp
<1> QED
  BY <1>6, <1>7, <1>8, <1>9, <1>10, <1>11 DEF IInv

-----------------------------------------------------------------------------
LEMMA Initially ==
  ASSUME Init
  PROVE  IInv
<1>1. TypeOK
  BY SampleSourceAssumption DEF Init, TypeOK
<1>2. Position
  BY <1>1, InputTypes DEF Init, Position
<1>3. Stretches
  BY DEF Init, Stretches, Ordered, Ahead, From
<1>4. Reached = {}
  BY <1>1, InputTypes DEF Init, Reached, Passed, Samples, Place
<1>5. Layers /\ Counted /\ CaughtUp
  BY <1>1, <1>4, InputTypes DEF Init, Layers, Counted, CaughtUp, Busy
<1> QED
  BY <1>1, <1>2, <1>3, <1>5 DEF IInv

LEMMA Stuttering ==
  ASSUME IInv, UNCHANGED vars
  PROVE  IInv'
<1>1. Reached' = Reached /\ (Exhausted' <=> Exhausted) /\ Wanted' = Wanted
  BY SameSetup DEF vars, setupVars, readVars, Reached, Passed, Exhausted
<1>2. TypeOK' /\ Position' /\ Layers' /\ Counted'
  BY <1>1 DEF IInv, TypeOK, Position, Layers, Counted, Busy, vars, setupVars, readVars, Enabled,
              Readable
<1>3. Stretches' /\ CaughtUp'
  BY <1>1, StretchesStay, CaughtUpStays DEF IInv, vars, setupVars, readVars
<1> QED
  BY <1>2, <1>3 DEF IInv

\* The three stretches and the counts hold in every reachable state.
THEOREM Invariance == Spec => []IInv
<1>1. Init => IInv
  BY Initially
<1>2. IInv /\ [Next]_vars => IInv'
  BY HandsOver, MovesOn, ScanSampleStep, ReadFromMemoryStep, TakeOverStep, ReturnStep, Stuttering
     DEF Next
<1> QED
  BY <1>1, <1>2, PTL DEF Spec

\* The types hold, and no layer's batch is larger than what was asked for.
THEOREM SourceTypeCorrect == Spec => []TypeOK
<1>1. IInv => TypeOK
  BY DEF IInv
<1> QED
  BY <1>1, Invariance, PTL

\* The fill is given samples of its own buckets only, in input order: the
\* stretch delivered.
THEOREM HoldoutProved == Spec => []HoldoutKept
<1>1. IInv => HoldoutKept
  BY DEF IInv, Stretches, From, Ordered, HoldoutKept, Given
<1> QED
  BY <1>1, Invariance, PTL

\* The limit is exact over all batches: each batch asks for no more than it leaves.
THEOREM LimitProved == Spec => []LimitIsExact
<1>1. IInv => LimitIsExact
  BY DEF IInv, Counted, Exhausted, LimitIsExact
<1> QED
  BY <1>1, Invariance, PTL

\* Without a filter nothing is passed over: what was passed is in one of two
\* stretches, and a sample before a given one is not in the later stretch.
THEOREM NothingPassedOverProved == Spec => []NothingPassedOverWithoutHoldout
<1>1. ASSUME IInv, ~Enabled PROVE NothingPassedOver
  <2>1. ASSUME NEW p \in Wanted, NEW q \in Given, Before(p, q) PROVE p \in Given
    <3>1. PICK j \in DOMAIN delivered : q = delivered[j]
      BY DEF Given
    <3>2. q \in Reached /\ p \in Samples
      BY <1>1, <3>1, WantedSamples DEF IInv, Stretches, From
    <3>3. p \in Reached
      <4>1. /\ p \in Samples /\ q \in Samples /\ Passed(q)
            /\ p[1] \in Nat /\ p[2] \in Nat /\ q[1] \in Nat /\ q[2] \in Nat
            /\ fileIndex \in Nat /\ line \in Nat /\ inMemory \in BOOLEAN
        BY <1>1, <3>2 DEF IInv, TypeOK, Reached, Samples, Place
      <4>2. inMemory => p[1] = 1 /\ q[1] = 1
        BY <1>1, <4>1, InputTypes DEF IInv, Position, Readable, Samples
      <4>3. Passed(p)
        BY <2>1, <4>1, <4>2 DEF Passed, Before
      <4> QED
        BY <4>1, <4>3 DEF Reached
    <3>4. ASSUME NEW i \in DOMAIN inner, inner[i] = p PROVE FALSE
      <4>1. Before(q, p)
        BY <1>1, <3>1, <3>4 DEF IInv, Stretches, Ahead
      <4> QED
        BY <2>1, <3>2, <4>1 DEF Before, Reached, Samples, Place
    <3> QED
      BY <1>1, <3>3, <3>4 DEF IInv, CaughtUp, Given
  <2>2. ASSUME phase = "ended", ~(limit > 0 /\ Len(delivered) = limit) PROVE Given = Wanted
    <3>1. Exhausted /\ inner = <<>>
      BY <1>1, <2>2 DEF IInv, Counted, Layers, Busy
    <3>2. Samples \subseteq Reached
      BY <1>1, <3>1, InputTypes
         DEF IInv, TypeOK, Position, Exhausted, Reached, Samples, Place, Passed, Readable
    <3>3. Wanted \subseteq Given
      BY <1>1, <3>1, <3>2, WantedSamples DEF IInv, CaughtUp, Given
    <3> QED
      BY <1>1, <3>3 DEF IInv, Stretches, From, Given
  <2> QED
    BY <2>1, <2>2 DEF NothingPassedOver
<1>2. IInv => NothingPassedOverWithoutHoldout
  BY <1>1 DEF NothingPassedOverWithoutHoldout
<1> QED
  BY <1>2, Invariance, PTL
=============================================================================
