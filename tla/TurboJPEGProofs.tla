-------------------------- MODULE TurboJPEGProofs --------------------------
(***************************************************************************)
(* Proofs about TurboJPEG, for every set of calls that an application may  *)
(* make, every number of addresses and every size that tjBufSize() may     *)
(* return: results are kept, calls end clean, and calls that begin with a  *)
(* clean instance answer as they would on a new one.                       *)
(*                                                                         *)
(* The invariant is in five parts, proved one on top of the other: types,  *)
(* what the memory destination knows of its buffer, who has which buffer,  *)
(* where the codecs are, and what a call has found out so far.             *)
(***************************************************************************)
EXTENDS TurboJPEG, TLAPS

-----------------------------------------------------------------------------
(* Types. *)

Images == Files \cup {NoFile}
Buffers == Addresses \cup {NULL}

Decompressors ==
    [global_state : {"START", "INHEADER", "READY", "WORKING"}, saw_SOI : BOOLEAN,
     image : Images, read_markers : {"own", "my"}, saved : BOOLEAN,
     progress : {"none", "own", "gone"}]

Compressors ==
    [global_state : {"START", "WORKING"}, newbuffer : Buffers, buffer : Buffers,
     bufsize : Nat, alloc : BOOLEAN]

Instances ==
    [init : SUBSET {"COMPRESS", "DECOMPRESS"},
     warning : BOOLEAN, stopOnWarning : BOOLEAN, headerRead : BOOLEAN,
     d : Decompressors, c : Compressors]

Steps == {"source", "header", "check", "start", "rows", "decode", "decoded", "destination",
          "startCompress", "write", "transformed", "encode", "bailout"}

Under ==
    [at : Steps, what : Calls, fit : BOOLEAN, given : Buffers, jpegBuf : Buffers,
     done : SUBSET Buffers, k : Nat, inPlanes : BOOLEAN, retval : {0, -1},
     image : Images, copied : SUBSET Nat]

Answers == [what : Calls, fit : BOOLEAN, retval : {0, -1}, image : Images, copied : SUBSET Nat]

Typed ==
    /\ tj \in Instances
    /\ held \subseteq Addresses
    /\ heap \in [DOMAIN heap -> Nat] /\ DOMAIN heap \subseteq Addresses
    /\ call \in {Idle} \cup Under
    /\ last \in {Nothing} \cup Answers

-----------------------------------------------------------------------------
(* Which calls are where. *)

Transforms == Is({"tjTransform"})
Whole == Decompressing \ {"tjDecompressHeader3"}
AtAny(steps) == call.at \in steps

\* Each call is at a step that it has, with no buffers that only other calls have.
Placed ==
    ~At("idle") =>
        /\ AtAny({"source", "header", "check"}) => Is(Decompressing)
        /\ At("start") => Is(Whole)
        /\ At("rows") => Is(Whole) /\ ~Transforms
        /\ AtAny({"destination", "startCompress", "write"}) => Is(Compressing) \/ Transforms
        /\ At("transformed") => Transforms
        /\ AtAny({"decode", "decoded"}) => Is({"tjDecodeYUVPlanes"})
        /\ At("encode") => Is({"tjEncodeYUVPlanes"})
        /\ ~Is(Compressing) => call.given = NULL
        /\ ~Transforms => call.done = {}
        /\ ~Is(Compressing) /\ ~Transforms => call.jpegBuf = NULL
        /\ Transforms => call.k \in DOMAIN call.what.t
        /\ Transforms /\ AtAny({"source", "header", "check", "start"}) => call.k = 1
        /\ Transforms /\ ~AtAny({"startCompress", "write", "transformed", "bailout"})
               => call.jpegBuf = NULL
        /\ ~call.inPlanes => Is({"tjDecompressToYUV2"}) /\ AtAny({"source", "header", "check"})
        /\ Is({"tjDecompressToYUV2"}) /\ AtAny({"source", "header"}) => ~call.inPlanes
        /\ ~At("bailout") => call.retval = 0 /\ call.image = NoFile

-----------------------------------------------------------------------------
(* Where the codecs are, and what else of an instance is to be cleaned up. *)

Decompresses == "DECOMPRESS" \in Needs(call.what.name)
Compresses == "COMPRESS" \in Needs(call.what.name)

Clean ==
    /\ At("write") => tj.c.global_state = "WORKING"
    /\ tj.c.global_state = "START" \/ At("write") \/ (At("bailout") /\ Compresses)
    /\ tj.headerRead => At("check") /\ Is({"tjDecompressToYUV2"}) /\ call.inPlanes
    /\ ~At("idle") /\ call.fit /\ Decompresses =>
           /\ \/ tj.d.read_markers = "own"
              \/ At("bailout") /\ call.retval = -1 /\ Is({"tjDecodeYUVPlanes"})
           /\ Is({"tjDecompressHeader3"}) => ~tj.stopOnWarning
    /\ CallsEndClean

-----------------------------------------------------------------------------
(* What the memory destination knows of its buffer, and who has which. *)

\* The destination's buffer is one that it has allocated, or is large enough for anything; and
\* the size it goes by is not more than the buffer's, or the buffer is large enough for anything.
Known ==
    /\ tj.c.newbuffer = tj.c.buffer \/ Worst <= tj.c.bufsize
    /\ tj.c.buffer \in DOMAIN heap =>
           tj.c.bufsize <= heap[tj.c.buffer] \/ Worst <= heap[tj.c.buffer]

\* The buffers that the application has when the call fails now.
Due == ((held \ {call.given}) \cup call.done \cup {Terminated(call.jpegBuf)}) \ {NULL}

Owned ==
    /\ At("idle") => held = DOMAIN heap
    /\ ~At("idle") => Due = DOMAIN heap
    /\ At("destination") /\ Is(Compressing) =>
           /\ call.jpegBuf = call.given
           /\ "NOREALLOC" \in flags => call.given # NULL
           /\ call.given # NULL =>
                  \/ Worst <= heap[call.given]
                  \/ call.given = tj.c.buffer /\ "NOREALLOC" \notin flags
    /\ AtAny({"startCompress", "write"}) =>
           /\ tj.c.buffer \in DOMAIN heap
           /\ tj.c.buffer \notin (held \ {call.given}) \cup call.done
           /\ ~tj.c.alloc => Worst <= tj.c.bufsize /\ Is(Compressing)
           /\ Transforms => /\ tj.c.newbuffer = tj.c.buffer
                            /\ tj.c.bufsize <= heap[tj.c.buffer]
           /\ At("startCompress") \/ ~tj.c.alloc => tj.c.buffer = call.jpegBuf

-----------------------------------------------------------------------------
(* What a call that began with a clean instance has found out so far. *)

Stopping == "STOPONWARNING" \in flags
Limited == "LIMITSCANS" \in flags
Forgetful == Is({"tjDecompressToYUV2"})
Written == AtAny({"destination", "startCompress", "write", "transformed"})

\* The call reads its own file, whose header is one that it can go on with.
HeaderKnown ==
    /\ tj.d.image = file /\ file.header = "good"
    /\ ~(Stopping /\ file.warns = "header")
    /\ file.sampling \/ Is({"tjDecompress2"})

\* The answer of a call that goes on from bailout.
Outcome ==
    LET retval == IF tj.warning THEN -1 ELSE call.retval
    IN  [retval |-> retval, image |-> IF retval = 0 THEN call.image ELSE NoFile]

ToldOfHeader ==
    /\ AtAny({"source", "header"}) => tj.d.global_state = "START" /\ ~tj.warning
    /\ AtAny({"source", "header", "check", "start"}) =>
           /\ Is(Whole) => (tj.stopOnWarning <=> Stopping)
           /\ Is(Whole) /\ call.inPlanes => (tj.d.progress # "none" <=> Limited)
    /\ At("check") =>
           /\ tj.d.image = file /\ file.header = "good"
           /\ tj.warning <=> file.warns = "header" /\ (Forgetful => ~call.inPlanes)
           /\ Is(Whole) => ~(Stopping /\ file.warns = "header")

ToldOfRows ==
    /\ At("start") => /\ HeaderKnown
                      /\ tj.warning <=> file.warns = "header" /\ ~Forgetful
    /\ At("rows") \/ (Written /\ Transforms) =>
           /\ HeaderKnown
           /\ call.what.fails # "start" /\ ~(Limited /\ file.scans = "many")
           /\ tj.warning <=> (file.warns = "header" /\ ~Forgetful) \/ file.warns = "scan"

ToldOfResults ==
    /\ Written /\ Transforms /\ call.what.fails = "rows" =>
           /\ \A j \in DOMAIN call.what.t : j < call.k => call.what.t[j].nooutput
           /\ At("transformed") => call.what.t[call.k].nooutput
    /\ AtAny({"startCompress", "write"}) /\ Transforms => ~call.what.t[call.k].nooutput
    /\ (Written /\ Is(Compressing)) \/ AtAny({"decode", "decoded", "encode"}) => ~tj.warning
    /\ AtAny({"write", "decoded"}) => call.what.fails # "start"
    /\ At("decode") => tj.d.global_state = "START"

Told ==
    /\ ToldOfHeader /\ ToldOfRows /\ ToldOfResults
    /\ At("bailout") => Outcome = Promised(call.what)
    /\ ~At("bailout") => Needs(call.what.name) \subseteq tj.init

Answered == AnswersAsFresh /\ (~At("idle") /\ call.fit => Told)

-----------------------------------------------------------------------------
(* Types hold. *)

\* What Return(), Raise(), Warned() and Proceed() do keeps types, if the instance has its own.
LEMMA ReturnTyped ==
    ASSUME Typed, ~At("idle"), NEW i \in Instances, NEW r \in {0, -1},
           Return(r, i), UNCHANGED heap
    PROVE  Typed'
<1>1. call \in Under
  BY DEF Typed, At, Idle
<1>2. tj' \in Instances
  BY DEF Return, Instances, Decompressors
<1>3. held' \subseteq Addresses
  BY <1>1 DEF Return, Typed, Under, Buffers
<1>4. last' \in Answers
  BY <1>1 DEF Return, Under, Answers, Images
<1>5. call' = Idle
  BY DEF Return
<1> QED BY <1>2, <1>3, <1>4, <1>5 DEF Typed

LEMMA ProceedTyped ==
    ASSUME Typed, ~At("idle"), NEW i \in Instances, NEW s \in Steps,
           Proceed(i, s), UNCHANGED heap
    PROVE  Typed'
<1>1. call \in Under
  BY DEF Typed, At, Idle
<1>2. call' \in Under
  BY <1>1 DEF Proceed, Goto, Under
<1> QED BY <1>2 DEF Proceed, Typed

LEMMA RaiseTyped ==
    ASSUME Typed, ~At("idle"), NEW i \in Instances, Raise(i), UNCHANGED heap
    PROVE  Typed'
<1>1. CASE Is({"tjDecompressHeader3"}) \/ ~call.inPlanes
  BY <1>1, ReturnTyped DEF Raise
<1>2. CASE ~(Is({"tjDecompressHeader3"}) \/ ~call.inPlanes)
  <2>1. call \in Under
    BY DEF Typed, At, Idle
  <2>2. "bailout" \in Steps
    BY DEF Steps
  <2>3. call' = [call EXCEPT !.at = "bailout", !.retval = -1]
    BY <1>2 DEF Raise
  <2>4. call' \in Under
    BY ONLY <2>1, <2>2, <2>3 DEF Under
  <2> QED BY <1>2, <2>4 DEF Raise, Typed
<1> QED BY <1>1, <1>2

LEMMA WarnedTyped ==
    ASSUME Typed, ~At("idle"), NEW i \in Instances, NEW w \in BOOLEAN, NEW s \in Steps,
           Warned(i, w, s), UNCHANGED heap
    PROVE  Typed'
<1> DEFINE warned == [i EXCEPT !.warning = TRUE]
<1>1. warned \in Instances
  BY DEF Instances
<1>2. Proceed(i, s) \/ Raise(warned) \/ Proceed(warned, s)
  BY DEF Warned
<1> QED BY <1>1, <1>2, ProceedTyped, RaiseTyped

\* The fields of an instance and of a call, one by one.
LEMMA TypedFields ==
    ASSUME Typed
    PROVE  /\ tj \in Instances /\ tj.d \in Decompressors /\ tj.c \in Compressors
           /\ ~At("idle") => /\ call \in Under
                             /\ call.what.file \in Images
                             /\ call.what \in Calls
                             /\ call.what.size \in Nat
                             /\ call.what.t \in Seq(Results)
  BY CallsAssumption DEF Typed, Instances, At, Idle, Under, Images

\* Init and each step keep types.
LEMMA InitTyped == Init => Typed
<1> SUFFICES ASSUME Init PROVE Typed
  OBVIOUS
<1>1. tj \in Instances
  BY DEF Init, Instance, Instances, Decompressors, Compressors, Images, Buffers
<1>2. DOMAIN heap = {} /\ heap \in [{} -> Nat]
  BY DEF Init
<1> QED BY <1>1, <1>2 DEF Init, Typed

LEMMA CallTyped == ASSUME Typed, NEW what \in Calls, Call(what) PROVE Typed'
<1> USE TypedFields
<1>1. PICK given \in Buffers : Enter(what, given)
  BY DEF Call, Typed, Buffers
<1>2. tj' \in Instances
  <2> DEFINE monitored == Monitor(tj.d, "LIMITSCANS" \in what.flags)
  <2>1. monitored \in Decompressors
    BY DEF Monitor, Decompressors
  <2>2. PICK d \in {tj.d, monitored}, stop \in BOOLEAN :
            tj' = [tj EXCEPT !.warning = FALSE, !.stopOnWarning = stop, !.d = d]
    <3> HIDE DEF monitored
    <3> DEFINE stop == IF what.name = "tjDecompressHeader3" THEN tj.stopOnWarning
                         ELSE "STOPONWARNING" \in what.flags
    <3>1. tj.stopOnWarning \in BOOLEAN /\ ("STOPONWARNING" \in what.flags) \in BOOLEAN
      BY DEF Instances
    <3>2. stop \in BOOLEAN
      BY <3>1, Zenon
    <3> QED BY <1>1, <3>2 DEF Enter, monitored
  <2> HIDE DEF monitored
  <2> QED BY <2>1, <2>2 DEF Instances
<1>3. call' \in Under
  <2>1. FirstStep(what.name) \in Steps
    BY CallsAssumption DEF FirstStep, Steps, Decompressing, Compressing
  <2>2. Fit(what.name) \in BOOLEAN
    BY DEF Fit
  <2> QED BY <1>1, <2>1, <2>2 DEF Enter, Under, Steps, Images
<1> QED BY <1>1, <1>2, <1>3 DEF Enter, Typed

\* jpeg_read_header() is left in a state, with an image.
Header(state, saw, image) ==
    [tj EXCEPT !.d.global_state = state, !.d.saw_SOI = saw, !.d.image = image]
Warning(i) == [i EXCEPT !.warning = TRUE]

LEMMA HeaderLeaves ==
    ASSUME Typed, NEW state \in {"START", "INHEADER", "READY", "WORKING"}, NEW saw \in BOOLEAN,
           NEW image \in Images
    PROVE  LET in == Header(state, saw, image)
           IN  /\ in \in Instances /\ in.init = tj.init /\ in.c = tj.c
               /\ in.headerRead = tj.headerRead /\ in.stopOnWarning = tj.stopOnWarning
               /\ in.warning = tj.warning
               /\ in.d.global_state = state /\ in.d.image = image
               /\ in.d.read_markers = tj.d.read_markers /\ in.d.progress = tj.d.progress
<1> DEFINE d == [[[tj.d EXCEPT !.global_state = state] EXCEPT !.saw_SOI = saw]
                     EXCEPT !.image = image]
           in == [tj EXCEPT !.d = d]
<1>1. tj \in Instances /\ tj.d \in Decompressors
  BY TypedFields
<1>2. /\ d \in Decompressors /\ d.global_state = state /\ d.image = image
      /\ d.read_markers = tj.d.read_markers /\ d.progress = tj.d.progress
  BY <1>1 DEF Decompressors
<1>3. in = Header(state, saw, image)
  BY <1>1 DEF Instances, Decompressors, Header
<1> HIDE DEF d
<1>4. /\ in \in Instances /\ in.init = tj.init /\ in.c = tj.c /\ in.d = d
      /\ in.headerRead = tj.headerRead /\ in.stopOnWarning = tj.stopOnWarning
      /\ in.warning = tj.warning
  BY <1>1, <1>2 DEF Instances
<1> HIDE DEF in
<1> QED BY <1>2, <1>3, <1>4

LEMMA WarningLeaves ==
    ASSUME NEW i \in Instances
    PROVE  LET w == Warning(i)
           IN  /\ w \in Instances /\ w.init = i.init /\ w.c = i.c /\ w.d = i.d
               /\ w.headerRead = i.headerRead /\ w.stopOnWarning = i.stopOnWarning
               /\ w.warning = TRUE
  BY DEF Warning, Instances

\* What jpeg_read_header() may do.
LEMMA ReadHeaderSteps ==
    ASSUME Typed, ReadHeader
    PROVE  /\ At("header") /\ UNCHANGED heap /\ file \in Images /\ tj.d.image \in Images
           /\ tj.d.saw_SOI \in BOOLEAN
           /\ LET d == tj.d
                  fresh == d.global_state = "START" /\ d.read_markers = "own"
              IN  \/ d.global_state \notin {"START", "INHEADER"} /\ Raise(tj)
                  \/ /\ d.read_markers = "my"
                     /\ Proceed(Header("READY", d.saw_SOI, d.image), "check")
                  \/ /\ file.header = "noSOI"
                     /\ \E saw \in BOOLEAN : Raise(Header("INHEADER", saw, NoFile))
                  \/ /\ \/ ~fresh \/ file.header = "damaged"
                        \/ file.header = "tables" /\ ~Is({"tjDecompressHeader3"})
                     /\ Raise(Header("INHEADER", TRUE, NoFile))
                  \/ /\ file.header = "tables" /\ Is({"tjDecompressHeader3"})
                     /\ Return(0, Header("START", TRUE, NoFile))
                  \/ /\ file.warns = "header" /\ tj.stopOnWarning
                     /\ file.header \notin {"noSOI", "damaged", "tables"}
                     /\ Raise(Warning(Header("INHEADER", TRUE, NoFile)))
                  \/ /\ ~(file.warns = "header" /\ tj.stopOnWarning)
                     /\ file.header \notin {"noSOI", "damaged", "tables"}
                     /\ \/ /\ file.warns = "header"
                           /\ Proceed(Warning(Header("READY", TRUE, file)), "check")
                        \/ file.warns # "header" /\ Proceed(Header("READY", TRUE, file), "check")
<1>1. At("header") /\ UNCHANGED heap /\ call \in Under
  BY TypedFields DEF ReadHeader, At
<1>2. /\ file \in Images /\ tj.d.image \in Images /\ tj.d.saw_SOI \in BOOLEAN
  BY <1>1, TypedFields DEF Decompressors, file, At
<1> QED BY <1>1, <1>2 DEF ReadHeader, Header, Warning, Warned

LEMMA ReadHeaderTyped == ASSUME Typed, ReadHeader PROVE Typed'
<1>1. ~At("idle") /\ UNCHANGED heap /\ tj \in Instances
  BY ReadHeaderSteps, TypedFields DEF At
<1>2. NoFile \in Images /\ "check" \in Steps
  BY DEF Images, Steps
<1>3. (\E i \in Instances : Raise(i)) => Typed'
  BY <1>1, RaiseTyped
<1>4. (\E i \in Instances : Proceed(i, "check") \/ Return(0, i)) => Typed'
  BY <1>1, <1>2, ProceedTyped, ReturnTyped
<1>5. \A state \in {"START", "INHEADER", "READY", "WORKING"}, saw \in BOOLEAN, image \in Images :
          /\ Header(state, saw, image) \in Instances
          /\ Warning(Header(state, saw, image)) \in Instances
  BY HeaderLeaves, WarningLeaves
<1> QED BY <1>1, <1>2, <1>3, <1>4, <1>5, ReadHeaderSteps

LEMMA AbortedTyped ==
    ASSUME NEW d \in Decompressors
    PROVE  /\ jpeg_abort_decompress(d) \in Decompressors
           /\ jpeg_abort_decompress(d).progress = d.progress
  BY DEF jpeg_abort_decompress, Decompressors, Images

LEMMA SourceTyped == ASSUME Typed, Source PROVE Typed'
<1>1. ~At("idle") /\ UNCHANGED heap
  BY DEF Source, At
<1>2. PICK saved \in BOOLEAN, s \in Steps : Proceed([tj EXCEPT !.d.saved = saved], s)
  <2> DEFINE saved == tj.d.saved \/ \E k \in DOMAIN call.what.t : ~call.what.t[k].copynone
             s == IF Is({"tjDecompressToYUVPlanes"}) /\ tj.headerRead THEN "check" ELSE "header"
  <2>1. saved \in BOOLEAN
    OBVIOUS
  <2>2. s \in Steps
    BY DEF Steps
  <2>3. Proceed([tj EXCEPT !.d.saved = saved], s)
    BY DEF Source
  <2> QED BY <2>1, <2>2, <2>3
<1>3. [tj EXCEPT !.d.saved = saved] \in Instances
  BY TypedFields DEF Instances, Decompressors
<1> QED BY <1>1, <1>2, <1>3, ProceedTyped

LEMMA CheckHeaderTyped == ASSUME Typed, CheckHeader PROVE Typed'
<1>1. /\ ~At("idle") /\ UNCHANGED heap /\ call \in Under
      /\ tj \in Instances /\ tj.d \in Decompressors /\ call.what \in Calls
  BY TypedFields DEF CheckHeader, At
<1>2. CASE Is({"tjDecompressHeader3"})
  <2>1. tj' \in Instances
    BY <1>1, <1>2, AbortedTyped DEF CheckHeader, Is, Instances
  <2>2. held' = held /\ call' = Idle
    BY <1>2 DEF CheckHeader, Is
  <2>3. last' \in Answers
    BY <1>1, <1>2 DEF CheckHeader, Is, Answers, Under, Decompressors, Images
  <2> QED BY <1>1, <2>1, <2>2, <2>3 DEF Typed
<1>3. CASE ~Is({"tjDecompressHeader3"})
  <2>1. \A b \in BOOLEAN : /\ [tj EXCEPT !.stopOnWarning = b] \in Instances
                           /\ [tj EXCEPT !.headerRead = b] \in Instances
    BY <1>1 DEF Instances
  <2>2. CASE Return(-1, [tj EXCEPT !.stopOnWarning = FALSE])
    BY <1>1, <2>1, <2>2, ReturnTyped
  <2>3. CASE Proceed([tj EXCEPT !.headerRead = FALSE], "start") \/ Proceed(tj, "start")
    BY <1>1, <2>1, <2>3, ProceedTyped DEF Steps
  <2>4. CASE /\ tj' \in {tj, [tj EXCEPT !.headerRead = FALSE]}
             /\ call' = [call EXCEPT !.at = "bailout", !.retval = -1]
             /\ UNCHANGED <<held, last>>
    <3>1. call' \in Under
      BY <1>1, <2>4 DEF Under, Steps
    <3>2. tj' \in Instances
      BY <1>1, <2>1, <2>4
    <3> QED BY <1>1, <2>4, <3>1, <3>2 DEF Typed
  <2>5. CASE /\ tj' = [tj EXCEPT !.headerRead = TRUE, !.warning = FALSE,
                                 !.d = Monitor(@, "LIMITSCANS" \in flags)]
             /\ call' = [call EXCEPT !.inPlanes = TRUE]
             /\ UNCHANGED <<held, last>>
    <3>1. Monitor(tj.d, "LIMITSCANS" \in flags) \in Decompressors
      BY <1>1 DEF Monitor, Decompressors
    <3>2. tj' \in Instances
      BY <1>1, <2>5, <3>1 DEF Instances
    <3>3. call' \in Under
      BY <1>1, <2>5 DEF Under
    <3> QED BY <1>1, <2>5, <3>2, <3>3 DEF Typed
  <2> QED BY <1>3, <2>2, <2>3, <2>4, <2>5 DEF CheckHeader, Is, Sampled
<1> QED BY <1>2, <1>3

LEMMA StartDecompressTyped == ASSUME Typed, StartDecompress PROVE Typed'
<1>1. ~At("idle") /\ UNCHANGED heap /\ tj \in Instances /\ tj.d \in Decompressors
  BY TypedFields DEF StartDecompress, At
<1> DEFINE working == [tj EXCEPT !.d.global_state = "WORKING"]
           s == IF Is({"tjTransform"}) THEN "destination" ELSE "rows"
<1>2. working \in Instances /\ [working EXCEPT !.warning = FALSE] \in Instances
  BY <1>1 DEF Instances, Decompressors
<1>3. s \in Steps /\ (file.warns = "scan") \in BOOLEAN
  BY DEF Steps
<1>4. \/ Raise(working) \/ Raise([working EXCEPT !.warning = FALSE])
      \/ Warned(working, file.warns = "scan", s)
  BY DEF StartDecompress
<1> HIDE DEF working, s
<1> QED BY <1>1, <1>2, <1>3, <1>4, RaiseTyped, WarnedTyped

LEMMA ReadRowsTyped == ASSUME Typed, ReadRows PROVE Typed'
<1>1. /\ ~At("idle") /\ UNCHANGED heap /\ call \in Under
      /\ tj \in Instances /\ tj.d \in Decompressors
  BY TypedFields DEF ReadRows, At
<1>2. CASE Raise(tj)
  BY <1>1, <1>2, RaiseTyped
<1>3. CASE /\ tj' = [tj EXCEPT !.d = jpeg_abort_decompress(@)]
           /\ call' = [call EXCEPT !.at = "bailout", !.image = tj.d.image]
           /\ UNCHANGED <<held, last>>
  <2>1. tj' \in Instances
    BY <1>1, <1>3, AbortedTyped DEF Instances
  <2>2. call' \in Under
    BY <1>1, <1>3 DEF Under, Steps, Decompressors
  <2> QED BY <1>1, <1>3, <2>1, <2>2 DEF Typed
<1> QED BY <1>2, <1>3 DEF ReadRows

LEMMA DecodeTyped == ASSUME Typed, Decode \/ Decoded \/ Encode PROVE Typed'
<1>1. ~At("idle") /\ UNCHANGED heap /\ tj \in Instances /\ tj.d \in Decompressors
  BY TypedFields DEF Decode, Decoded, Encode, At
<1>2. CASE Raise(tj)
  BY <1>1, <1>2, RaiseTyped
<1>3. CASE \E state \in {"START", "INHEADER", "READY", "WORKING"} :
               Raise([tj EXCEPT !.d = [[tj.d EXCEPT !.read_markers = "my"]
                                           EXCEPT !.global_state = state]])
  <2>1. PICK state \in {"START", "INHEADER", "READY", "WORKING"} :
            Raise([tj EXCEPT !.d = [[tj.d EXCEPT !.read_markers = "my"]
                                        EXCEPT !.global_state = state]])
    BY <1>3
  <2>2. [[tj.d EXCEPT !.read_markers = "my"] EXCEPT !.global_state = state] \in Decompressors
    BY <1>1 DEF Decompressors
  <2>3. [tj EXCEPT !.d = [[tj.d EXCEPT !.read_markers = "my"] EXCEPT !.global_state = state]]
            \in Instances
    BY <1>1, <2>2 DEF Instances
  <2> QED BY <1>1, <2>1, <2>3, RaiseTyped
<1>4. CASE Proceed([tj EXCEPT !.d.global_state = "READY"], "decoded")
  <2>1. [tj EXCEPT !.d.global_state = "READY"] \in Instances
    BY <1>1 DEF Instances, Decompressors
  <2> QED BY <1>1, <1>4, <2>1, ProceedTyped DEF Steps
<1>5. CASE Proceed([tj EXCEPT !.d = jpeg_abort_decompress(@)], "bailout")
  <2>1. [tj EXCEPT !.d = jpeg_abort_decompress(@)] \in Instances
    BY <1>1, AbortedTyped DEF Instances
  <2> QED BY <1>1, <1>5, <2>1, ProceedTyped DEF Steps
<1>6. CASE Proceed(tj, "bailout")
  BY <1>1, <1>6, ProceedTyped DEF Steps
<1>7. Decode => \/ \E state \in {"START", "INHEADER", "READY", "WORKING"} :
                       Raise([tj EXCEPT !.d = [[tj.d EXCEPT !.read_markers = "my"]
                                                   EXCEPT !.global_state = state]])
                \/ Proceed([tj EXCEPT !.d.global_state = "READY"], "decoded")
  <2> DEFINE state == IF tj.d.global_state = "START" THEN "INHEADER" ELSE tj.d.global_state
  <2>1. state \in {"START", "INHEADER", "READY", "WORKING"}
    BY <1>1 DEF Decompressors
  <2> QED BY <2>1 DEF Decode, Proceed
<1>8. Decoded => Raise(tj) \/ Proceed([tj EXCEPT !.d = jpeg_abort_decompress(@)], "bailout")
  BY DEF Decoded
<1>9. Encode => Raise(tj) \/ Proceed(tj, "bailout")
  BY DEF Encode
<1> QED BY <1>2, <1>3, <1>4, <1>5, <1>6, <1>7, <1>8, <1>9

\* What a step does to the compressor and to the heap keeps their types.
LEMMA CompressorTyped ==
    ASSUME Typed, NEW c \in Compressors
    PROVE  [tj EXCEPT !.c = c] \in Instances
  BY TypedFields DEF Instances

LEMMA AllocatedTyped ==
    ASSUME Typed, NEW a \in FreeAddresses, NEW n \in Nat
    PROVE  /\ Allocated(a, n) \in [DOMAIN heap \cup {a} -> Nat]
           /\ DOMAIN Allocated(a, n) = DOMAIN heap \cup {a}
           /\ DOMAIN heap \cup {a} \subseteq Addresses
           /\ a \in Buffers /\ a \notin DOMAIN heap /\ a # NULL
  BY AddressesAssumption DEF Typed, Allocated, FreeAddresses, Buffers

LEMMA FreedTyped ==
    ASSUME NEW D, NEW h \in [D -> Nat], NEW b
    PROVE  /\ Freed(h, b) \in [D \ {b} -> Nat] /\ DOMAIN Freed(h, b) = D \ {b}
           /\ \A x \in D \ {b} : Freed(h, b)[x] = h[x]
  BY DEF Freed

\* The destination after jpeg_mem_dest_tj().
dest(b, size, made) ==
    [tj.c EXCEPT !.buffer = b, !.newbuffer = made, !.alloc = "NOREALLOC" \notin flags,
                 !.bufsize = size]

LEMMA TakeDestinationSteps ==
    ASSUME Typed, TakeDestination
    PROVE  /\ At("destination") /\ UNCHANGED <<held, last>>
           /\ Is({"tjTransform"}) => ~call.what.t[call.k].nooutput
           /\ LET given == IF Is({"tjTransform"}) THEN NULL ELSE call.given
                  reused == tj.c.buffer = given /\ given # NULL /\ "NOREALLOC" \notin flags
              IN  \/ /\ given # NULL /\ UNCHANGED heap
                     /\ tj' = [tj EXCEPT !.c = dest(given, IF reused THEN tj.c.bufsize ELSE Worst,
                                                    tj.c.newbuffer)]
                     /\ call' = [call EXCEPT !.at = "startCompress"]
                  \/ /\ given = NULL
                     /\ \E a \in FreeAddresses :
                            /\ heap' = Allocated(a, 1)
                            /\ tj' = [tj EXCEPT !.c = dest(a, 1, a)]
                            /\ call' = [call EXCEPT !.at = "startCompress", !.jpegBuf = a]
<1> DEFINE given == IF Is({"tjTransform"}) THEN NULL ELSE call.given
           alloc == "NOREALLOC" \notin flags
           reused == tj.c.buffer = given /\ given # NULL /\ alloc
           made(b, size, new) ==
               [tj.c EXCEPT !.buffer = b, !.newbuffer = new, !.alloc = alloc,
                            !.bufsize = IF reused THEN @ ELSE size]
<1>1. tj.c \in Compressors
  BY TypedFields
<1>2. CASE given # NULL
  <2>1. /\ tj' = [tj EXCEPT !.c = made(given, Worst, tj.c.newbuffer)] /\ UNCHANGED heap
        /\ call' = [call EXCEPT !.at = "startCompress"] /\ UNCHANGED <<held, last>>
    BY <1>2 DEF TakeDestination, Proceed, Goto
  <2>2. made(given, Worst, tj.c.newbuffer)
            = dest(given, IF reused THEN tj.c.bufsize ELSE Worst, tj.c.newbuffer)
    BY <1>1 DEF dest, Compressors
  <2> QED BY <1>2, <2>1, <2>2 DEF TakeDestination
<1>3. CASE given = NULL
  <2>1. PICK a \in FreeAddresses :
            /\ heap' = Allocated(a, 1) /\ tj' = [tj EXCEPT !.c = made(a, 1, a)]
            /\ call' = [call EXCEPT !.at = "startCompress", !.jpegBuf = a]
            /\ UNCHANGED <<held, last>>
    BY <1>3 DEF TakeDestination, OUTPUT_BUF_SIZE
  <2>2. made(a, 1, a) = dest(a, 1, a)
    BY <1>1, <1>3 DEF dest, Compressors
  <2> QED BY <1>3, <2>1, <2>2 DEF TakeDestination
<1> QED BY <1>2, <1>3

LEMMA TakeDestinationTyped == ASSUME Typed, TakeDestination PROVE Typed'
<1>1. /\ call \in Under /\ tj \in Instances /\ tj.c \in Compressors
  BY TypedFields, TakeDestinationSteps DEF At
<1> DEFINE given == IF Is({"tjTransform"}) THEN NULL ELSE call.given
<1>2. \A b, made \in Buffers, size \in Nat : [tj EXCEPT !.c = dest(b, size, made)] \in Instances
  BY <1>1, CompressorTyped DEF dest, Compressors
<1>3. UNCHANGED <<held, last>>
  BY TakeDestinationSteps
<1>4. CASE \E size \in Nat : /\ UNCHANGED heap
                             /\ tj' = [tj EXCEPT !.c = dest(given, size, tj.c.newbuffer)]
                             /\ call' = [call EXCEPT !.at = "startCompress"]
  <2>1. given \in Buffers /\ tj.c.newbuffer \in Buffers
    BY <1>1 DEF Buffers, Under, Compressors
  <2>2. tj' \in Instances /\ call' \in Under
    BY <1>1, <1>2, <1>4, <2>1 DEF Under, Steps
  <2> QED BY <1>3, <1>4, <2>2 DEF Typed
<1>5. CASE \E a \in FreeAddresses : /\ heap' = Allocated(a, 1)
                                    /\ tj' = [tj EXCEPT !.c = dest(a, 1, a)]
                                    /\ call' = [call EXCEPT !.at = "startCompress", !.jpegBuf = a]
  <2>1. PICK a \in FreeAddresses : /\ heap' = Allocated(a, 1)
                                   /\ tj' = [tj EXCEPT !.c = dest(a, 1, a)]
                                   /\ call' = [call EXCEPT !.at = "startCompress", !.jpegBuf = a]
    BY <1>5
  <2>2. a \in Buffers /\ heap' \in [DOMAIN heap' -> Nat] /\ DOMAIN heap' \subseteq Addresses
    BY <2>1, AllocatedTyped
  <2>3. tj' \in Instances /\ call' \in Under
    BY <1>1, <1>2, <2>1, <2>2 DEF Under, Steps
  <2> QED BY <1>3, <2>2, <2>3 DEF Typed
<1>6. tj.c.bufsize \in Nat /\ Worst \in Nat
  BY <1>1, AddressesAssumption DEF Compressors
<1> QED BY <1>4, <1>5, <1>6, TakeDestinationSteps

LEMMA StartCompressTyped == ASSUME Typed, PassOver \/ StartCompress PROVE Typed'
<1>1. /\ ~At("idle") /\ UNCHANGED heap /\ call \in Under
      /\ tj \in Instances /\ tj.c \in Compressors
  BY TypedFields DEF PassOver, StartCompress, At
<1>2. CASE PassOver
  <2>1. call' \in Under
    BY <1>1, <1>2 DEF PassOver, Goto, Under, Steps
  <2> QED BY <1>2, <2>1 DEF PassOver, Typed
<1>3. CASE Raise(tj)
  BY <1>1, <1>3, RaiseTyped
<1>4. CASE \E copied \in {call.copied, call.copied \cup {call.k}} :
               /\ tj' = [tj EXCEPT !.c.global_state = "WORKING"]
               /\ call' = [call EXCEPT !.at = "write", !.copied = copied]
               /\ UNCHANGED <<held, last>>
  <2>1. tj' \in Instances
    BY <1>1, <1>4 DEF Instances, Compressors
  <2>2. call.copied \cup {call.k} \in SUBSET Nat
    BY <1>1 DEF Under
  <2>3. PICK copied \in SUBSET Nat : call' = [call EXCEPT !.at = "write", !.copied = copied]
    BY <1>1, <1>4, <2>2 DEF Under
  <2>4. call' \in Under
    BY <1>1, <2>3 DEF Under, Steps
  <2> QED BY <1>1, <1>4, <2>1, <2>4 DEF Typed
<1> QED BY <1>2, <1>3, <1>4 DEF StartCompress

LEMMA EnlargeTyped == ASSUME Typed, Enlarge PROVE Typed'
<1>1. /\ ~At("idle") /\ call \in Under /\ tj \in Instances /\ tj.c \in Compressors
  BY TypedFields DEF Enlarge, At
<1>2. CASE ~tj.c.alloc
  BY <1>1, <1>2, RaiseTyped DEF Enlarge
<1>3. CASE tj.c.alloc
  <2>1. PICK a \in FreeAddresses :
            /\ heap' = Freed(Allocated(a, 2 * tj.c.bufsize), tj.c.newbuffer)
            /\ tj' = [tj EXCEPT !.c = Enlarged(tj.c, a)]
            /\ UNCHANGED <<call, held, last>>
    BY <1>3 DEF Enlarge
  <2>2. 2 * tj.c.bufsize \in Nat
    BY <1>1 DEF Compressors
  <2>3. a \in Buffers /\ heap' \in [DOMAIN heap' -> Nat] /\ DOMAIN heap' \subseteq Addresses
    <3> DEFINE h == Allocated(a, 2 * tj.c.bufsize)
               D == DOMAIN heap \cup {a}
    <3>1. h \in [D -> Nat] /\ D \subseteq Addresses /\ a \in Buffers
      BY <2>2, AllocatedTyped
    <3>2. heap' = Freed(h, tj.c.newbuffer)
      BY <2>1
    <3> HIDE DEF h, D
    <3>3. heap' \in [D \ {tj.c.newbuffer} -> Nat] /\ DOMAIN heap' = D \ {tj.c.newbuffer}
      BY <3>1, <3>2, FreedTyped
    <3> QED BY <3>1, <3>3
  <2>4. tj' \in Instances
    <3>1. Enlarged(tj.c, a) \in Compressors
      BY <1>1, <2>2, <2>3 DEF Enlarged, Compressors
    <3> QED BY <2>1, <3>1, CompressorTyped
  <2> QED BY <2>1, <2>3, <2>4 DEF Typed
<1> QED BY <1>2, <1>3

LEMMA FinishCompressTyped == ASSUME Typed, FinishCompress PROVE Typed'
<1>1. /\ ~At("idle") /\ UNCHANGED heap /\ call \in Under
      /\ tj \in Instances /\ tj.c \in Compressors
  BY TypedFields DEF FinishCompress, At
<1>2. CASE Raise(tj)
  BY <1>1, <1>2, RaiseTyped
<1>3. CASE /\ tj' = [tj EXCEPT !.c.global_state = "START"]
           /\ \E s \in Steps, b \in {call.jpegBuf, tj.c.buffer} :
                  call' = [call EXCEPT !.at = s, !.jpegBuf = b]
           /\ UNCHANGED <<held, last>>
  <2>1. tj' \in Instances
    BY <1>1, <1>3 DEF Instances, Compressors
  <2>2. call' \in Under
    BY <1>1, <1>3 DEF Under, Compressors
  <2> QED BY <1>1, <1>3, <2>1, <2>2 DEF Typed
<1>4. FinishCompress /\ call.what.fails # "rows" =>
          /\ tj' = [tj EXCEPT !.c.global_state = "START"]
          /\ \E s \in Steps, b \in {call.jpegBuf, tj.c.buffer} :
                 call' = [call EXCEPT !.at = s, !.jpegBuf = b]
          /\ UNCHANGED <<held, last>>
  BY DEF FinishCompress, Steps
<1> QED BY <1>2, <1>3, <1>4 DEF FinishCompress

LEMMA NextResultTyped == ASSUME Typed, NextResult PROVE Typed'
<1>1. /\ UNCHANGED <<heap, held, last>> /\ call \in Under
      /\ tj \in Instances /\ tj.d \in Decompressors
  BY TypedFields DEF NextResult, At
<1>2. tj' \in Instances
  BY <1>1, AbortedTyped DEF NextResult, Instances
<1>3. call' \in Under
  <2>1. /\ call.done \cup {call.jpegBuf} \in SUBSET Buffers /\ NULL \in Buffers
        /\ call.k + 1 \in Nat /\ tj.d.image \in Images
    BY <1>1 DEF Under, Buffers, Decompressors
  <2>2. \/ call' = [call EXCEPT !.done = call.done \cup {call.jpegBuf}, !.jpegBuf = NULL,
                                !.at = "destination", !.k = call.k + 1]
        \/ call' = [call EXCEPT !.done = call.done \cup {call.jpegBuf}, !.jpegBuf = NULL,
                                !.at = "bailout", !.image = tj.d.image]
    BY <1>1 DEF NextResult, Under
  <2> QED BY <1>1, <2>1, <2>2 DEF Under, Steps
<1> QED BY <1>1, <1>2, <1>3 DEF Typed

LEMMA BailoutTyped == ASSUME Typed, Bailout PROVE Typed'
<1>1. /\ UNCHANGED heap /\ call \in Under
      /\ tj \in Instances /\ tj.d \in Decompressors /\ tj.c \in Compressors
  BY TypedFields DEF Bailout, At
<1>2. Terminated(call.jpegBuf) \in Buffers
  BY <1>1 DEF Terminated, Under, Compressors
<1>3. held' \subseteq Addresses
  BY <1>1, <1>2 DEF Bailout, Typed, Under, Buffers
<1>4. last' \in Answers
  BY <1>1 DEF Bailout, Under, Answers, Images
<1>5. tj' \in Instances
  <2> DEFINE c == [tj.c EXCEPT !.global_state = IF Compresses THEN "START" ELSE @]
             left == IF Decompresses THEN jpeg_abort_decompress(tj.d) ELSE tj.d
             d == [left EXCEPT !.progress = IF @ = "own" THEN "gone" ELSE @]
  <2>1. c \in Compressors
    BY <1>1 DEF Compressors
  <2>2. left \in Decompressors
    BY <1>1, AbortedTyped
  <2>3. d \in Decompressors
    <3> HIDE DEF left
    <3> QED BY <2>2 DEF Decompressors
  <2>4. tj' = [[[tj EXCEPT !.c = c] EXCEPT !.d = d] EXCEPT !.stopOnWarning = FALSE]
    BY <1>1 DEF Bailout, Cleaned, Instances, Decompresses, Compresses
  <2> HIDE DEF c, d
  <2> QED BY <1>1, <2>1, <2>3, <2>4 DEF Instances
<1> QED BY <1>1, <1>3, <1>4, <1>5 DEF Bailout, Typed

LEMMA BetweenTyped == ASSUME Typed, Free \/ Alloc \/ Renew PROVE Typed'
<1>1. CASE Free
  <2>1. PICK b \in held : held' = held \ {b} /\ heap' = Freed(heap, b)
    BY <1>1 DEF Free
  <2>2. heap \in [DOMAIN heap -> Nat] /\ DOMAIN heap \subseteq Addresses
    BY DEF Typed
  <2>3. heap' \in [DOMAIN heap \ {b} -> Nat] /\ DOMAIN heap' = DOMAIN heap \ {b}
    BY <2>1, <2>2, FreedTyped
  <2> QED BY <1>1, <2>1, <2>2, <2>3 DEF Free, Typed
<1>2. CASE Alloc
  <2>1. PICK a \in FreeAddresses : held' = held \cup {a} /\ heap' = Allocated(a, Worst)
    BY <1>2 DEF Alloc
  <2>2. heap' \in [DOMAIN heap' -> Nat] /\ DOMAIN heap' \subseteq Addresses
    BY <2>1, AllocatedTyped, AddressesAssumption
  <2> QED BY <1>2, <2>1, <2>2 DEF Alloc, Typed, FreeAddresses
<1>3. CASE Renew
  <2>1. Instance(tj.init) \in Instances
    BY DEF Typed, Instance, Instances, Decompressors, Compressors, Images, Buffers
  <2> QED BY <1>3, <2>1 DEF Renew, Typed
<1> QED BY <1>1, <1>2, <1>3

\* Each step keeps types.
LEMMA NextTyped == Typed /\ [Next]_vars => Typed'
<1> SUFFICES ASSUME Typed, [Next]_vars PROVE Typed'
  OBVIOUS
<1>1. CASE UNCHANGED vars
  BY <1>1 DEF vars, Typed, At
<1> QED BY <1>1, CallTyped, SourceTyped, ReadHeaderTyped, CheckHeaderTyped, StartDecompressTyped,
           ReadRowsTyped, DecodeTyped, TakeDestinationTyped, StartCompressTyped, EnlargeTyped,
           FinishCompressTyped, NextResultTyped, BailoutTyped, BetweenTyped DEF Next

\* Types hold throughout (the structures of turbojpeg.c and jdatadst-tj.c).
THEOREM TypesHold == Spec => []Typed
  BY InitTyped, NextTyped, PTL DEF Spec

-----------------------------------------------------------------------------
(* Calls are where they can be. *)

\* Goto() changes where the call is, and nothing else of it.
LEMMA GotoFields ==
    ASSUME call \in Under, NEW s, Goto(s)
    PROVE  /\ call'.at = s /\ call'.what = call.what /\ call'.fit = call.fit
           /\ call'.given = call.given /\ call'.jpegBuf = call.jpegBuf
           /\ call'.done = call.done /\ call'.k = call.k /\ call'.inPlanes = call.inPlanes
           /\ call'.retval = call.retval /\ call'.image = call.image
  BY DEF Goto, Under

\* A call that is left by an error, a return or a warning, or goes on to a step that it has.
LEMMA RaisePlaced ==
    ASSUME Typed, Placed, ~At("idle"), NEW i, Raise(i) PROVE Placed'
<1>1. call \in Under
  BY TypedFields
<1>2. CASE Is({"tjDecompressHeader3"}) \/ ~call.inPlanes
  BY <1>2 DEF Raise, Return, Placed, Idle, At
<1>3. CASE ~(Is({"tjDecompressHeader3"}) \/ ~call.inPlanes)
  <2>1. call' = [call EXCEPT !.at = "bailout", !.retval = -1]
    BY <1>3 DEF Raise
  <2>2. /\ call'.at = "bailout" /\ call'.what = call.what /\ call'.inPlanes
        /\ call'.given = call.given /\ call'.done = call.done /\ call'.jpegBuf = call.jpegBuf
        /\ call'.k = call.k
    BY <1>1, <1>3, <2>1 DEF Under
  <2> QED BY <2>2, ~At("idle") DEF Placed, At, AtAny, Is, Transforms
<1> QED BY <1>2, <1>3

LEMMA GotoPlaced ==
    ASSUME Typed, Placed, ~At("idle"), NEW s \in Steps, Goto(s),
           /\ s \in {"header", "check"} => Is(Decompressing)
           /\ s = "header" => AtAny({"source"})
           /\ s = "start" => Is(Whole) /\ call.inPlanes
           /\ s = "rows" => Is(Whole) /\ ~Transforms
           /\ s = "destination" => Transforms
           /\ s = "startCompress" => AtAny({"destination"})
           /\ s = "transformed" => Transforms
           /\ s = "decoded" => Is({"tjDecodeYUVPlanes"})
           /\ s \in {"header", "check", "start", "destination"}
                  => AtAny({"source", "header", "check", "start"})
           /\ s \in {"source", "encode", "decode", "write"} => FALSE
           /\ call.inPlanes \/ s \in {"header", "check"}
           /\ ~At("bailout")
    PROVE  Placed'
<1>1. call \in Under
  BY TypedFields
<1>2. /\ call'.at = s /\ call'.what = call.what /\ call'.given = call.given
      /\ call'.jpegBuf = call.jpegBuf /\ call'.done = call.done /\ call'.k = call.k
      /\ call'.inPlanes = call.inPlanes /\ call'.retval = call.retval
      /\ call'.image = call.image
  BY <1>1, GotoFields
<1> QED BY <1>2 DEF Placed, At, AtAny, Is, Transforms, Steps

LEMMA WarnedPlaced ==
    ASSUME Typed, Placed, ~At("idle"), NEW i, NEW w, NEW s, Warned(i, w, s), Goto(s) => Placed'
    PROVE  Placed'
  BY RaisePlaced DEF Warned, Proceed

LEMMA CallPlaced == ASSUME Typed, NEW what \in Calls, Call(what) PROVE Placed'
<1>1. PICK given \in Buffers : /\ Enter(what, given)
                               /\ what.name \notin Compressing => given = NULL
  BY DEF Call, Typed, Buffers
<1>2. /\ call'.what = what /\ call'.given = given /\ call'.jpegBuf = given /\ call'.done = {}
      /\ call'.k = 1 /\ call'.inPlanes = (what.name # "tjDecompressToYUV2")
      /\ call'.image = NoFile
      /\ \/ call'.at = FirstStep(what.name) /\ call'.retval = 0
         \/ call'.at = "bailout" /\ what.name # "tjDecompressToYUV2"
  <2>1. what.name = "tjDecompressToYUV2" => Needs(what.name) \subseteq tj.init
    BY DEF Call, Needs, Compressing
  <2> QED BY <1>1, <2>1 DEF Enter
<1>3. what.name = "tjTransform" => 1 \in DOMAIN what.t
  <2>1. what.t \in Seq(Results) /\ (what.name = "tjTransform" => what.t # <<>>)
    BY CallsAssumption
  <2> QED BY <2>1
<1>4. what.name \in Decompressing \cup Compressing \cup {"tjEncodeYUVPlanes", "tjDecodeYUVPlanes"}
  BY CallsAssumption
<1> QED BY <1>1, <1>2, <1>3, <1>4
        DEF Placed, At, AtAny, Is, Transforms, Whole, FirstStep, Decompressing, Compressing

LEMMA ReadPlaced ==
    ASSUME Typed, Placed, Source \/ ReadHeader \/ StartDecompress \/ ReadRows PROVE Placed'
<1>1. call \in Under /\ ~At("idle") /\ ~At("bailout")
  BY TypedFields DEF Source, ReadHeader, StartDecompress, ReadRows, At
<1>2. CASE Source
  <2>1. (Goto("check") \/ Goto("header")) /\ At("source")
    BY <1>2 DEF Source, Proceed
  <2> QED BY <1>1, <2>1, GotoPlaced DEF Placed, At, AtAny, Steps
<1>3. CASE ReadHeader
  <2>1. At("header") /\ (Goto("check") => Placed')
    BY <1>1, <1>3, GotoPlaced DEF ReadHeader, Placed, At, AtAny, Steps
  <2>2. CASE \E i, retval : Raise(i) \/ Return(retval, i)
    BY <1>1, <2>2, RaisePlaced DEF Return, Placed, At, Idle
  <2>3. CASE \E i : Proceed(i, "check") \/ Warned(i, file.warns = "header", "check")
    BY <1>1, <2>1, <2>3, WarnedPlaced DEF Proceed
  <2> QED BY <1>3, <2>2, <2>3 DEF ReadHeader
<1>4. CASE StartDecompress
  <2> DEFINE s == IF Is({"tjTransform"}) THEN "destination" ELSE "rows"
  <2>1. At("start") /\ (Goto(s) => Placed')
    <3>1. At("start") /\ call.inPlanes /\ Is(Whole)
      BY <1>1, <1>4 DEF StartDecompress, Placed, At, AtAny
    <3>2. s \in Steps /\ s \in {"rows", "destination"} /\ (s = "rows" <=> ~Transforms)
      BY DEF Steps, Transforms
    <3> HIDE DEF s
    <3> QED BY <1>1, <3>1, <3>2, GotoPlaced DEF At, AtAny
  <2>2. (\E i : Raise(i)) \/ (\E i : Warned(i, file.warns = "scan", s))
    BY <1>4 DEF StartDecompress
  <2> HIDE DEF s
  <2> QED BY <1>1, <2>1, <2>2, RaisePlaced, WarnedPlaced
<1>5. CASE ReadRows
  <2>1. CASE Raise(tj)
    BY <1>1, <2>1, RaisePlaced
  <2>2. CASE call' = [call EXCEPT !.at = "bailout", !.image = tj.d.image]
    <3>1. /\ call'.at = "bailout" /\ call'.what = call.what /\ call'.inPlanes = call.inPlanes
          /\ call'.given = call.given /\ call'.done = call.done /\ call'.jpegBuf = call.jpegBuf
          /\ call'.k = call.k
      BY <1>1, <2>2 DEF Under
    <3> QED BY <1>1, <1>5, <3>1 DEF ReadRows, Placed, At, AtAny, Is, Transforms
  <2> QED BY <1>5, <2>1, <2>2 DEF ReadRows
<1> QED BY <1>2, <1>3, <1>4, <1>5

LEMMA CheckHeaderPlaced == ASSUME Typed, Placed, CheckHeader PROVE Placed'
<1>1. call \in Under /\ At("check") /\ ~At("idle") /\ ~At("bailout")
  BY TypedFields DEF CheckHeader, At
<1>2. CASE call' = Idle
  BY <1>2 DEF Placed, At, Idle
<1>3. CASE \E i : Return(-1, i)
  BY <1>3 DEF Return, Placed, At, Idle
<1>4. CASE Goto("start") /\ ~Is({"tjDecompressHeader3"}) /\ call.inPlanes
  BY <1>1, <1>4, GotoPlaced DEF Placed, At, AtAny, Steps, Is, Whole
<1>5. CASE call' = [call EXCEPT !.at = "bailout", !.retval = -1] /\ call.inPlanes
  <2>1. /\ call'.at = "bailout" /\ call'.what = call.what /\ call'.inPlanes
        /\ call'.given = call.given /\ call'.done = call.done /\ call'.jpegBuf = call.jpegBuf
        /\ call'.k = call.k
    BY <1>1, <1>5 DEF Under
  <2> QED BY <1>1, <2>1 DEF Placed, At, AtAny, Is, Transforms
<1>6. CASE call' = [call EXCEPT !.inPlanes = TRUE]
  <2>1. /\ call'.at = "check" /\ call'.what = call.what /\ call'.inPlanes
        /\ call'.given = call.given /\ call'.done = call.done /\ call'.jpegBuf = call.jpegBuf
        /\ call'.k = call.k /\ call'.retval = call.retval /\ call'.image = call.image
    BY <1>1, <1>6 DEF Under, At
  <2> QED BY <1>1, <2>1 DEF Placed, At, AtAny, Is, Transforms
<1>7. call.inPlanes \/ Is({"tjDecompressToYUV2"})
  BY <1>1 DEF Placed
<1> QED BY <1>2, <1>3, <1>4, <1>5, <1>6, <1>7 DEF CheckHeader, Is, Proceed

LEMMA PlanesPlaced == ASSUME Typed, Placed, Decode \/ Decoded \/ Encode PROVE Placed'
<1>1. call \in Under /\ ~At("idle") /\ ~At("bailout") /\ call.inPlanes
  BY TypedFields DEF Decode, Decoded, Encode, Placed, At, AtAny
<1>2. CASE \E i : Raise(i)
  BY <1>1, <1>2, RaisePlaced
<1>3. CASE Goto("decoded") /\ At("decode")
  BY <1>1, <1>3, GotoPlaced DEF Placed, At, AtAny, Steps
<1>4. CASE Goto("bailout")
  BY <1>1, <1>4, GotoPlaced DEF Placed, At, AtAny, Steps
<1> QED BY <1>2, <1>3, <1>4 DEF Decode, Decoded, Encode, Proceed

LEMMA WritePlaced ==
    ASSUME Typed, Placed,
           TakeDestination \/ PassOver \/ StartCompress \/ Enlarge \/ FinishCompress
    PROVE  Placed'
<1>1. call \in Under /\ ~At("idle") /\ ~At("bailout") /\ call.inPlanes
  BY TypedFields, TakeDestinationSteps
     DEF PassOver, StartCompress, Enlarge, FinishCompress, Placed, At, AtAny
<1>2. CASE Raise(tj)
  BY <1>1, <1>2, RaisePlaced
<1>3. CASE TakeDestination
  <2>1. /\ At("destination") /\ call'.at = "startCompress" /\ call'.what = call.what
        /\ call'.given = call.given /\ call'.done = call.done /\ call'.k = call.k
        /\ call'.inPlanes /\ call'.retval = call.retval /\ call'.image = call.image
    BY <1>1, <1>3, TakeDestinationSteps DEF Under
  <2> QED BY <1>1, <2>1 DEF Placed, At, AtAny, Is, Transforms
<1>4. CASE PassOver
  BY <1>1, <1>4, GotoPlaced DEF PassOver, Transforms, At, AtAny, Steps
<1>5. CASE StartCompress /\ ~Raise(tj)
  <2>1. /\ At("startCompress") /\ call'.at = "write" /\ call'.what = call.what
        /\ call'.given = call.given /\ call'.done = call.done /\ call'.jpegBuf = call.jpegBuf
        /\ call'.k = call.k
        /\ call'.inPlanes /\ call'.retval = call.retval /\ call'.image = call.image
    BY <1>1, <1>5 DEF StartCompress, Under
  <2> QED BY <1>1, <2>1 DEF Placed, At, AtAny, Is, Transforms
<1>6. CASE Enlarge /\ ~Raise(tj)
  <2>1. call' = call
    BY <1>6 DEF Enlarge
  <2> QED BY <2>1 DEF Placed, At, AtAny, Is, Transforms
<1>7. CASE FinishCompress /\ ~Raise(tj)
  <2>1. /\ At("write") /\ call'.at = (IF Transforms THEN "transformed" ELSE "bailout")
        /\ call'.what = call.what
        /\ call'.given = call.given /\ call'.done = call.done /\ call'.k = call.k
        /\ call'.inPlanes /\ call'.retval = call.retval /\ call'.image = call.image
    BY <1>1, <1>7 DEF FinishCompress, Under, Transforms
  <2> QED BY <1>1, <2>1 DEF Placed, At, AtAny, Is, Transforms
<1> QED BY <1>2, <1>3, <1>4, <1>5, <1>6, <1>7

LEMMA NextResultPlaced == ASSUME Typed, Placed, NextResult PROVE Placed'
<1>1. call \in Under /\ At("transformed") /\ ~At("idle") /\ call.inPlanes /\ Transforms
  BY TypedFields DEF NextResult, Placed, At, AtAny
<1>2. call.what.t \in Seq(Results) /\ call.k \in DOMAIN call.what.t
  BY <1>1, TypedFields DEF Placed
<1>3. /\ call'.what = call.what /\ call'.given = call.given /\ call'.inPlanes
      /\ call'.jpegBuf = NULL
      /\ \/ /\ call'.at = "destination" /\ call'.k = call.k + 1 /\ call.k < Len(call.what.t)
            /\ call'.retval = call.retval /\ call'.image = call.image
         \/ call'.at = "bailout" /\ call'.k = call.k
  BY <1>1 DEF NextResult, Under
<1>4. call'.k \in DOMAIN call.what.t
  BY <1>2, <1>3
<1> QED BY <1>1, <1>3, <1>4 DEF Placed, At, AtAny, Is, Transforms

\* Each step leaves the call where it can be.
LEMMA NextPlaced == Typed /\ Placed /\ [Next]_vars => Placed'
<1> SUFFICES ASSUME Typed, Placed, [Next]_vars PROVE Placed'
  OBVIOUS
<1>1. CASE UNCHANGED vars
  BY <1>1 DEF vars, Placed, At, AtAny, Is, Transforms
<1>2. CASE Bailout
  BY <1>2 DEF Bailout, Placed, At, Idle
<1>3. CASE Free \/ Alloc \/ Renew
  BY <1>3 DEF Free, Alloc, Renew, Placed, At
<1> QED BY <1>1, <1>2, <1>3, CallPlaced, ReadPlaced, CheckHeaderPlaced, PlanesPlaced, WritePlaced,
           NextResultPlaced DEF Next

-----------------------------------------------------------------------------
(* Calls end clean. *)

\* Which objects a call works with.
LEMMA NeedsAre ==
    ASSUME NEW name
    PROVE  /\ "DECOMPRESS" \in Needs(name) <=> name \notin Compressing \cup {"tjEncodeYUVPlanes"}
           /\ "COMPRESS" \in Needs(name)
                  <=> name \in Compressing \cup {"tjEncodeYUVPlanes", "tjTransform"}
  BY DEF Needs, Compressing

\* What a return leaves, when the call that makes it is clean.
LEMMA ReturnClean ==
    ASSUME Typed, Placed, Clean, ~At("idle"), ~At("write"), ~At("bailout"),
           NEW i \in Instances, NEW r \in {0, -1}, Return(r, i),
           i.c = tj.c, i.headerRead = FALSE,
           Is({"tjDecompressHeader3", "tjDecompressToYUV2"}),
           r = 0 => /\ Is({"tjDecompressHeader3"}) /\ i.d.global_state = "START"
                    /\ i.d.read_markers = tj.d.read_markers
                    /\ i.stopOnWarning = tj.stopOnWarning
    PROVE  Clean'
<1>1. call \in Under /\ tj \in Instances
  BY TypedFields
<1>2. /\ tj'.c = tj.c /\ tj'.headerRead = FALSE /\ tj'.stopOnWarning = i.stopOnWarning
      /\ tj'.d.global_state = i.d.global_state /\ tj'.d.read_markers = i.d.read_markers
  BY DEF Return, Instances, Decompressors
<1>3. /\ call' = Idle /\ last'.what = call.what /\ last'.fit = call.fit /\ last'.retval = r
  BY DEF Return
<1>4. CallsEndClean'
  <2>1. tj'.c.global_state = "START" /\ ~tj'.headerRead
    BY <1>2 DEF Clean
  <2>2. r = 0 /\ call.fit => Fit(last.what.name)'
    BY <1>2, <1>3, <2>1 DEF Clean, Fit, Decompresses, Is
  <2>3. last'.what.name \in {"tjDecompressHeader3", "tjDecompressToYUV2"}
    BY <1>3 DEF Is
  <2> QED BY <1>3, <2>1, <2>2, <2>3 DEF CallsEndClean
<1> QED BY <1>2, <1>3, <1>4 DEF Clean, At, Idle

LEMMA RaiseClean ==
    ASSUME Typed, Placed, Clean, ~At("idle"), ~At("bailout"), NEW i \in Instances, Raise(i),
           i.c = tj.c, i.headerRead = FALSE, i.stopOnWarning = tj.stopOnWarning,
           i.d.read_markers = tj.d.read_markers \/ Is({"tjDecodeYUVPlanes"})
    PROVE  Clean'
<1>1. call \in Under /\ tj \in Instances
  BY TypedFields
<1>2. CASE Is({"tjDecompressHeader3"}) \/ ~call.inPlanes
  <2>1. Return(-1, i) /\ Is({"tjDecompressHeader3", "tjDecompressToYUV2"})
    BY <1>2 DEF Raise, Placed, Is
  <2>2. ~At("write")
    BY <1>2 DEF Placed, At, AtAny, Is, Compressing, Transforms
  <2>3. -1 \in {0, -1} /\ -1 # 0
    OBVIOUS
  <2> QED BY <2>1, <2>2, <2>3, ReturnClean
<1>3. CASE ~(Is({"tjDecompressHeader3"}) \/ ~call.inPlanes)
  <2>1. /\ call'.at = "bailout" /\ call'.what = call.what /\ call'.retval = -1
        /\ call'.fit = call.fit /\ tj' = i
    BY <1>1, <1>3 DEF Raise, Under
  <2>2. ~At("idle")'
    BY <2>1 DEF At
  <2>3. At("write") => Compresses
    BY NeedsAre DEF Placed, AtAny, At, Is, Transforms, Compresses
  <2>4. tj'.c.global_state = "START" \/ Compresses'
    BY <2>1, <2>3 DEF Clean, Compresses
  <2>5. call'.fit /\ Decompresses' =>
            /\ tj'.d.read_markers = "own" \/ Is({"tjDecodeYUVPlanes"})'
            /\ Is({"tjDecompressHeader3"})' => ~tj'.stopOnWarning
    BY <2>1 DEF Clean, Decompresses, Is
  <2> QED BY <2>1, <2>2, <2>4, <2>5 DEF Clean, CallsEndClean, At
<1> QED BY <1>2, <1>3

\* A call goes on, with an instance that has no more to be cleaned up than before.
LEMMA GotoClean ==
    ASSUME Typed, Placed, Clean, ~At("idle"), ~At("bailout"), NEW s \in Steps,
           call'.at = s, call'.what = call.what, call'.fit = call.fit,
           s = "write" => tj'.c.global_state = "WORKING",
           tj'.c.global_state = "START" \/ s = "write",
           tj'.headerRead = FALSE, tj'.stopOnWarning = tj.stopOnWarning,
           tj'.d.read_markers = tj.d.read_markers
    PROVE  Clean'
<1>1. Decompresses' = Decompresses /\ ~At("idle")'
  BY DEF Decompresses, At, Steps
<1> QED BY <1>1 DEF Clean, CallsEndClean, At, Is

LEMMA WarnedClean ==
    ASSUME Typed, Placed, Clean, ~At("idle"), ~At("bailout"), NEW i \in Instances,
           NEW w, NEW s \in Steps \ {"write"},
           Warned(i, w, s), i.c = tj.c, i.c.global_state = "START", i.headerRead = FALSE,
           i.stopOnWarning = tj.stopOnWarning, i.d.read_markers = tj.d.read_markers
    PROVE  Clean'
<1> DEFINE warned == [i EXCEPT !.warning = TRUE]
<1>1. /\ warned \in Instances /\ warned.c = tj.c /\ warned.headerRead = FALSE
      /\ warned.stopOnWarning = tj.stopOnWarning /\ warned.d.read_markers = tj.d.read_markers
  BY DEF Instances
<1>2. Raise(warned) \/ (tj' \in {i, warned} /\ Goto(s))
  BY DEF Warned, Proceed
<1> HIDE DEF warned
<1>3. CASE Raise(warned)
  BY <1>1, <1>3, RaiseClean
<1>4. CASE tj' \in {i, warned} /\ Goto(s)
  <2>1. call \in Under
    BY TypedFields
  <2>2. call'.at = s /\ call'.what = call.what /\ call'.fit = call.fit
    BY <1>4, <2>1, GotoFields
  <2> QED BY <1>1, <1>4, <2>2, GotoClean
<1> QED BY <1>2, <1>3, <1>4

LEMMA CallClean == ASSUME Typed, Clean, NEW what \in Calls, Call(what) PROVE Clean'
<1>1. PICK given : Enter(what, given)
  BY DEF Call
<1>2. At("idle") /\ tj \in Instances /\ tj.d \in Decompressors
  BY TypedFields DEF Call
<1>3. /\ tj'.c = tj.c /\ tj'.headerRead = tj.headerRead
      /\ tj'.d.read_markers = tj.d.read_markers
      /\ what.name = "tjDecompressHeader3" => tj'.stopOnWarning = tj.stopOnWarning
  <2>1. Monitor(tj.d, "LIMITSCANS" \in what.flags).read_markers = tj.d.read_markers
    BY <1>2 DEF Monitor, Decompressors
  <2> QED BY <1>1, <1>2, <2>1 DEF Enter, Instances
<1>4. call'.what = what /\ call'.fit = Fit(what.name) /\ call'.at \in Steps \ {"write"}
  <2>1. FirstStep(what.name) \in Steps \ {"write"}
    BY CallsAssumption DEF FirstStep, Steps, Decompressing, Compressing
  <2> QED BY <1>1, <2>1 DEF Enter, Steps
<1>5. ~At("idle")' /\ ~At("write")'
  BY <1>4 DEF At, Steps
<1>6. tj.c.global_state = "START" /\ ~tj.headerRead
  BY <1>2 DEF Clean, CallsEndClean
<1>7. call'.fit /\ Decompresses' => tj.d.read_markers = "own" /\ ~tj.stopOnWarning
  BY <1>4 DEF Fit, Decompresses
<1> QED BY <1>3, <1>4, <1>5, <1>6, <1>7 DEF Clean, CallsEndClean, Is

LEMMA SourceClean == ASSUME Typed, Placed, Clean, Source \/ StartDecompress PROVE Clean'
<1>1. call \in Under /\ ~At("idle") /\ ~At("bailout") /\ tj \in Instances
  BY TypedFields DEF Source, StartDecompress, At
<1>2. tj.c.global_state = "START" /\ tj.headerRead = FALSE
  BY <1>1 DEF Source, StartDecompress, Clean, At, Instances
<1>3. CASE Source
  <2>1. PICK saved \in BOOLEAN, s \in Steps \ {"write"} :
            Proceed([tj EXCEPT !.d.saved = saved], s)
    <3> DEFINE saved == tj.d.saved \/ \E k \in DOMAIN call.what.t : ~call.what.t[k].copynone
               s == IF Is({"tjDecompressToYUVPlanes"}) /\ tj.headerRead THEN "check" ELSE "header"
    <3>1. s \in Steps \ {"write"} /\ saved \in BOOLEAN
      BY DEF Steps
    <3>2. Proceed([tj EXCEPT !.d.saved = saved], s)
      BY <1>3 DEF Source
    <3> QED BY <3>1, <3>2
  <2>2. /\ tj'.c = tj.c /\ tj'.headerRead = FALSE /\ tj'.stopOnWarning = tj.stopOnWarning
        /\ tj'.d.read_markers = tj.d.read_markers
    BY <1>1, <1>2, <2>1 DEF Proceed, Instances, Decompressors
  <2>3. call'.at = s /\ call'.what = call.what /\ call'.fit = call.fit
    BY <1>1, <2>1, GotoFields DEF Proceed
  <2> QED BY <1>1, <1>2, <2>2, <2>3, GotoClean
<1>4. CASE StartDecompress
  <2> DEFINE working == [tj EXCEPT !.d.global_state = "WORKING"]
             calm == [working EXCEPT !.warning = FALSE]
  <2>1. /\ working \in Instances /\ working.c = tj.c /\ working.headerRead = FALSE
        /\ working.stopOnWarning = tj.stopOnWarning
        /\ working.d.read_markers = tj.d.read_markers
    BY <1>1, <1>2 DEF Instances, Decompressors
  <2>2. /\ calm \in Instances /\ calm.c = tj.c /\ calm.headerRead = FALSE
        /\ calm.stopOnWarning = tj.stopOnWarning
        /\ calm.d.read_markers = tj.d.read_markers
    BY <1>1, <1>2 DEF Instances, Decompressors
  <2>3. \/ Raise(working) \/ Raise(calm)
        \/ \E s \in Steps \ {"write"} : Warned(working, file.warns = "scan", s)
    BY <1>4 DEF StartDecompress, Steps
  <2> HIDE DEF working, calm
  <2> QED BY <1>1, <1>2, <2>1, <2>2, <2>3, RaiseClean, WarnedClean
<1> QED BY <1>3, <1>4

LEMMA ReadHeaderClean == ASSUME Typed, Placed, Clean, ReadHeader PROVE Clean'
<1>1. /\ call \in Under /\ ~At("idle") /\ ~At("bailout") /\ ~At("write")
      /\ tj \in Instances /\ tj.d.image \in Images /\ tj.d.saw_SOI \in BOOLEAN
      /\ file \in Images /\ NoFile \in Images
  BY ReadHeaderSteps, TypedFields DEF At, Images
<1>2. tj.c.global_state = "START" /\ tj.headerRead = FALSE
  BY <1>1, ReadHeaderSteps DEF Clean, At, Instances
<1> DEFINE Same(i) == /\ i \in Instances /\ i.c = tj.c /\ i.headerRead = FALSE
                      /\ i.stopOnWarning = tj.stopOnWarning
                      /\ i.d.read_markers = tj.d.read_markers
<1>3. \A state \in {"START", "INHEADER", "READY", "WORKING"}, saw \in BOOLEAN, image \in Images :
          /\ Same(Header(state, saw, image)) /\ Same(Warning(Header(state, saw, image)))
          /\ Header(state, saw, image).d.global_state = state
  <2> TAKE state \in {"START", "INHEADER", "READY", "WORKING"}, saw \in BOOLEAN, image \in Images
  <2> DEFINE i == Header(state, saw, image)
  <2>1. Same(i) /\ i.d.global_state = state
    BY <1>2, HeaderLeaves
  <2> HIDE DEF i
  <2>2. Same(Warning(i))
    BY <2>1, WarningLeaves
  <2> QED BY <2>1, <2>2 DEF i
<1>4. Same(tj)
  BY <1>1, <1>2
<1>5. ASSUME NEW i, Same(i), Raise(i) PROVE Clean'
  BY <1>1, <1>5, RaiseClean
<1>6. ASSUME NEW i, Same(i), Proceed(i, "check") PROVE Clean'
  <2>1. call'.at = "check" /\ call'.what = call.what /\ call'.fit = call.fit /\ tj' = i
    BY <1>1, <1>6, GotoFields DEF Proceed
  <2> QED BY <1>1, <1>2, <1>6, <2>1, GotoClean DEF Steps
<1>7. ASSUME NEW i, Same(i), Return(0, i), i.d.global_state = "START", Is({"tjDecompressHeader3"})
      PROVE  Clean'
  <2>1. Is({"tjDecompressHeader3", "tjDecompressToYUV2"}) /\ 0 \in {0, -1}
    BY <1>7 DEF Is
  <2> QED BY <1>1, <1>7, <2>1, ReturnClean
<1> HIDE DEF Same
<1>8. /\ Same(Header("READY", tj.d.saw_SOI, tj.d.image))
      /\ \A saw \in BOOLEAN : Same(Header("INHEADER", saw, NoFile))
      /\ Same(Header("INHEADER", TRUE, NoFile)) /\ Same(Warning(Header("INHEADER", TRUE, NoFile)))
      /\ Same(Header("START", TRUE, NoFile))
      /\ Header("START", TRUE, NoFile).d.global_state = "START"
      /\ Same(Header("READY", TRUE, file)) /\ Same(Warning(Header("READY", TRUE, file)))
  BY <1>1, <1>3
<1> QED BY <1>4, <1>5, <1>6, <1>7, <1>8, ReadHeaderSteps

LEMMA CheckHeaderClean == ASSUME Typed, Placed, Clean, CheckHeader PROVE Clean'
<1>1. /\ At("check") /\ call \in Under /\ ~At("idle") /\ ~At("bailout") /\ ~At("write")
      /\ tj \in Instances /\ tj.d \in Decompressors
      /\ tj.c.global_state = "START"
  BY TypedFields DEF CheckHeader, At, Clean
<1>2. CASE Is({"tjDecompressHeader3"})
  <2>1. /\ tj' = [tj EXCEPT !.d = jpeg_abort_decompress(@)] /\ call' = Idle
        /\ last'.what = call.what /\ last'.fit = call.fit
    BY <1>2 DEF CheckHeader, Is
  <2>2. /\ jpeg_abort_decompress(tj.d).global_state = "START"
        /\ jpeg_abort_decompress(tj.d).read_markers = tj.d.read_markers
    BY <1>1 DEF jpeg_abort_decompress, Decompressors
  <2>3. /\ tj'.c = tj.c /\ tj'.headerRead = tj.headerRead /\ tj'.d.global_state = "START"
        /\ tj'.stopOnWarning = tj.stopOnWarning /\ tj'.d.read_markers = tj.d.read_markers
    BY <1>1, <2>1, <2>2 DEF Instances
  <2>4. ~tj.headerRead
    BY <1>2 DEF Clean, Is
  <2>5. call.fit => Fit(last.what.name)'
    BY <1>1, <1>2, <2>1, <2>3, <2>4 DEF Fit, Clean, Decompresses
  <2>6. CallsEndClean'
    <3>1. last'.what.name = "tjDecompressHeader3"
      BY <1>2, <2>1 DEF Is
    <3> QED BY <1>1, <2>1, <2>3, <2>4, <2>5, <3>1 DEF CallsEndClean
  <2> QED BY <1>1, <2>1, <2>3, <2>4, <2>6 DEF Clean, At, Idle
<1>3. CASE Is({"tjDecompressToYUV2"}) /\ ~call.inPlanes
  <2>1. tj.headerRead = FALSE
    BY <1>1, <1>3 DEF Clean, Instances
  <2>2. CASE Return(-1, [tj EXCEPT !.stopOnWarning = FALSE])
    <3> DEFINE i == [tj EXCEPT !.stopOnWarning = FALSE]
    <3>1. i \in Instances /\ i.c = tj.c /\ i.headerRead = FALSE
      BY <1>1, <2>1 DEF Instances
    <3>2. Is({"tjDecompressHeader3", "tjDecompressToYUV2"}) /\ -1 \in {0, -1} /\ -1 # 0
      BY <1>3 DEF Is
    <3> HIDE DEF i
    <3> QED BY <1>1, <2>2, <3>1, <3>2, ReturnClean DEF i
  <2>3. CASE /\ tj' = [tj EXCEPT !.headerRead = TRUE, !.warning = FALSE,
                                 !.d = Monitor(@, "LIMITSCANS" \in flags)]
             /\ call' = [call EXCEPT !.inPlanes = TRUE]
    <3>1. Monitor(tj.d, "LIMITSCANS" \in flags).read_markers = tj.d.read_markers
      BY <1>1 DEF Monitor, Decompressors
    <3>2. tj'.c = tj.c /\ tj'.d.read_markers = tj.d.read_markers
      BY <1>1, <2>3, <3>1 DEF Instances
    <3>3. call'.at = "check" /\ call'.what = call.what /\ call'.fit = call.fit /\ call'.inPlanes
      BY <1>1, <2>3 DEF Under, At
    <3>4. Decompresses' = Decompresses
      BY <3>3 DEF Decompresses
    <3> QED BY <1>1, <1>3, <3>2, <3>3, <3>4 DEF Clean, CallsEndClean, At, Is
  <2> QED BY <1>3, <2>2, <2>3 DEF CheckHeader, Is
<1>4. CASE ~Is({"tjDecompressHeader3"}) /\ ~(Is({"tjDecompressToYUV2"}) /\ ~call.inPlanes)
  <2>1. /\ \/ tj' = tj /\ ~Is({"tjDecompressToYUV2"})
           \/ tj' = [tj EXCEPT !.headerRead = FALSE]
        /\ Goto("start") \/ call' = [call EXCEPT !.at = "bailout", !.retval = -1]
    BY <1>1, <1>4 DEF CheckHeader, Is, Proceed, Sampled, Placed
  <2>2. /\ tj'.c = tj.c /\ tj'.headerRead = FALSE /\ tj'.stopOnWarning = tj.stopOnWarning
        /\ tj'.d.read_markers = tj.d.read_markers
    BY <1>1, <2>1 DEF Instances, Clean
  <2>3. /\ call'.at \in {"start", "bailout"} /\ call'.what = call.what /\ call'.fit = call.fit
    BY <1>1, <2>1, GotoFields DEF Under
  <2>4. "start" \in Steps /\ "bailout" \in Steps
    BY DEF Steps
  <2> QED BY <1>1, <2>2, <2>3, <2>4, GotoClean
<1> QED BY <1>2, <1>3, <1>4

\* What jpeg_abort_decompress() leaves alone.
LEMMA AbortLeaves ==
    ASSUME Typed
    PROVE  LET i == [tj EXCEPT !.d = jpeg_abort_decompress(@)]
           IN  /\ i \in Instances /\ i.init = tj.init /\ i.c = tj.c
               /\ i.headerRead = tj.headerRead /\ i.stopOnWarning = tj.stopOnWarning
               /\ i.warning = tj.warning
               /\ i.d.global_state = "START" /\ i.d.read_markers = tj.d.read_markers
<1>1. tj \in Instances /\ tj.d \in Decompressors
  BY TypedFields
<1>2. /\ jpeg_abort_decompress(tj.d) \in Decompressors
      /\ jpeg_abort_decompress(tj.d).global_state = "START"
      /\ jpeg_abort_decompress(tj.d).read_markers = tj.d.read_markers
  BY <1>1 DEF jpeg_abort_decompress, Decompressors, Images
<1> QED BY <1>1, <1>2 DEF Instances

LEMMA RowsClean ==
    ASSUME Typed, Placed, Clean, ReadRows \/ Decode \/ Decoded \/ Encode PROVE Clean'
<1>1. /\ call \in Under /\ ~At("idle") /\ ~At("bailout") /\ ~At("check") /\ ~At("write")
      /\ tj \in Instances /\ tj.d \in Decompressors
      /\ "bailout" \in Steps /\ "decoded" \in Steps
  BY TypedFields DEF ReadRows, Decode, Decoded, Encode, At, Steps
<1>2. tj.c.global_state = "START" /\ tj.headerRead = FALSE
  BY <1>1 DEF Clean, Instances
<1>3. CASE Raise(tj)
  BY <1>1, <1>2, <1>3, RaiseClean
<1>4. CASE /\ tj' = [tj EXCEPT !.d = jpeg_abort_decompress(@)]
           /\ Goto("bailout") \/ call' = [call EXCEPT !.at = "bailout", !.image = tj.d.image]
  <2>1. call'.at = "bailout" /\ call'.what = call.what /\ call'.fit = call.fit
    BY <1>1, <1>4, GotoFields DEF Under
  <2> QED BY <1>1, <1>2, <1>4, <2>1, AbortLeaves, GotoClean
<1>5. CASE Proceed(tj, "bailout")
  <2>1. call'.at = "bailout" /\ call'.what = call.what /\ call'.fit = call.fit /\ tj' = tj
    BY <1>1, <1>5, GotoFields DEF Proceed
  <2> QED BY <1>1, <1>2, <2>1, GotoClean
<1>6. CASE Decode
  <2>1. CASE tj' = [tj EXCEPT !.d.global_state = "READY"] /\ Goto("decoded")
    <3>1. call'.at = "decoded" /\ call'.what = call.what /\ call'.fit = call.fit
      BY <1>1, <2>1, GotoFields
    <3>2. /\ tj'.c = tj.c /\ tj'.headerRead = FALSE /\ tj'.stopOnWarning = tj.stopOnWarning
          /\ tj'.d.read_markers = tj.d.read_markers
      BY <1>1, <1>2, <2>1 DEF Instances, Decompressors
    <3> QED BY <1>1, <1>2, <3>1, <3>2, GotoClean
  <2> DEFINE state == IF tj.d.global_state = "START" THEN "INHEADER" ELSE tj.d.global_state
             d == [[tj.d EXCEPT !.read_markers = "my"] EXCEPT !.global_state = state]
             i == [tj EXCEPT !.d = d]
  <2>2. d \in Decompressors
    BY <1>1 DEF Decompressors
  <2>3. Raise(i) \/ (tj' = [tj EXCEPT !.d.global_state = "READY"] /\ Goto("decoded"))
    BY <1>6 DEF Decode
  <2> HIDE DEF d
  <2>4. /\ i \in Instances /\ i.c = tj.c /\ i.headerRead = FALSE
        /\ i.stopOnWarning = tj.stopOnWarning
    BY <1>1, <1>2, <2>2 DEF Instances
  <2>5. Is({"tjDecodeYUVPlanes"})
    BY <1>1, <1>6 DEF Decode, Placed, AtAny, At
  <2> HIDE DEF i
  <2> QED BY <1>1, <2>1, <2>3, <2>4, <2>5, RaiseClean
<1> QED BY <1>3, <1>4, <1>5, <1>6 DEF ReadRows, Decoded, Encode, Proceed

LEMMA WriteClean ==
    ASSUME Typed, Placed, Clean,
           \/ TakeDestination \/ PassOver \/ StartCompress \/ Enlarge \/ FinishCompress
           \/ NextResult
    PROVE  Clean'
<1>1. /\ call \in Under /\ ~At("idle") /\ ~At("bailout") /\ ~At("check")
      /\ tj \in Instances /\ tj.d \in Decompressors /\ tj.c \in Compressors
      /\ "bailout" \in Steps /\ "startCompress" \in Steps /\ "write" \in Steps
      /\ "transformed" \in Steps /\ "destination" \in Steps
  BY TypedFields, TakeDestinationSteps
     DEF PassOver, StartCompress, Enlarge, FinishCompress, NextResult, At, Steps
<1>2. tj.headerRead = FALSE /\ (~At("write") => tj.c.global_state = "START")
  BY <1>1 DEF Clean, Instances
<1>3. CASE Raise(tj)
  BY <1>1, <1>2, <1>3, RaiseClean
<1>4. CASE TakeDestination
  <2>1. /\ call'.at = "startCompress" /\ call'.what = call.what /\ call'.fit = call.fit
    BY <1>1, <1>4, TakeDestinationSteps DEF Under
  <2> DEFINE given == IF Is({"tjTransform"}) THEN NULL ELSE call.given
             reused == tj.c.buffer = given /\ given # NULL /\ "NOREALLOC" \notin flags
  <2>2. /\ tj'.headerRead = FALSE /\ tj'.stopOnWarning = tj.stopOnWarning
        /\ tj'.d = tj.d /\ tj'.c.global_state = tj.c.global_state
    <3>1. PICK c : /\ tj' = [tj EXCEPT !.c = c]
                   /\ \E b, size, made : c = dest(b, size, made)
      <4>1. CASE tj' = [tj EXCEPT !.c = dest(given, IF reused THEN tj.c.bufsize ELSE Worst,
                                             tj.c.newbuffer)]
        BY <4>1
      <4>2. CASE \E a \in FreeAddresses : tj' = [tj EXCEPT !.c = dest(a, 1, a)]
        BY <4>2
      <4> QED BY <1>4, <4>1, <4>2, TakeDestinationSteps
    <3>2. c.global_state = tj.c.global_state
      BY <1>1, <3>1 DEF dest, Compressors
    <3> QED BY <1>1, <1>2, <3>1, <3>2 DEF Instances
  <2>3. ~At("write")
    BY <1>4, TakeDestinationSteps DEF At
  <2> QED BY <1>1, <1>2, <2>1, <2>2, <2>3, GotoClean
<1>5. CASE PassOver
  <2>1. call'.at = "transformed" /\ call'.what = call.what /\ call'.fit = call.fit /\ tj' = tj
    BY <1>1, <1>5, GotoFields DEF PassOver
  <2> QED BY <1>1, <1>2, <1>5, <2>1, GotoClean DEF PassOver, At
<1>6. CASE StartCompress /\ ~Raise(tj)
  <2>1. /\ call'.at = "write" /\ call'.what = call.what /\ call'.fit = call.fit
        /\ tj' = [tj EXCEPT !.c.global_state = "WORKING"]
    BY <1>1, <1>6 DEF StartCompress, Under
  <2>2. /\ tj'.headerRead = FALSE /\ tj'.stopOnWarning = tj.stopOnWarning /\ tj'.d = tj.d
        /\ tj'.c.global_state = "WORKING"
    BY <1>1, <1>2, <2>1 DEF Instances, Compressors
  <2> QED BY <1>1, <2>1, <2>2, GotoClean
<1>7. CASE Enlarge /\ ~Raise(tj)
  <2>1. /\ call' = call /\ At("write")
        /\ \E a : tj' = [tj EXCEPT !.c = Enlarged(tj.c, a)]
    BY <1>7 DEF Enlarge
  <2>2. tj.c.global_state = "WORKING"
    BY <2>1 DEF Clean
  <2>3. PICK a : tj' = [tj EXCEPT !.c = Enlarged(tj.c, a)]
    BY <2>1
  <2>4. Enlarged(tj.c, a).global_state = "WORKING"
    BY <1>1, <2>2 DEF Enlarged, Compressors
  <2>5. /\ tj'.headerRead = FALSE /\ tj'.stopOnWarning = tj.stopOnWarning /\ tj'.d = tj.d
        /\ tj'.c.global_state = "WORKING"
    BY <1>1, <1>2, <2>3, <2>4 DEF Instances
  <2> QED BY <1>1, <2>1, <2>5, GotoClean DEF At
<1>8. CASE FinishCompress /\ ~Raise(tj)
  <2>1. /\ call'.at \in {"transformed", "bailout"} /\ call'.what = call.what
        /\ call'.fit = call.fit /\ tj' = [tj EXCEPT !.c.global_state = "START"]
    BY <1>1, <1>8 DEF FinishCompress, Under
  <2>2. /\ tj'.headerRead = FALSE /\ tj'.stopOnWarning = tj.stopOnWarning /\ tj'.d = tj.d
        /\ tj'.c.global_state = "START"
    BY <1>1, <1>2, <2>1 DEF Instances, Compressors
  <2> QED BY <1>1, <2>1, <2>2, GotoClean
<1>9. CASE NextResult
  <2>1. /\ call'.at \in {"destination", "bailout"} /\ call'.what = call.what
        /\ call'.fit = call.fit /\ tj' \in {tj, [tj EXCEPT !.d = jpeg_abort_decompress(@)]}
    BY <1>1, <1>9 DEF NextResult, Under
  <2>2. /\ tj'.headerRead = FALSE /\ tj'.stopOnWarning = tj.stopOnWarning
        /\ tj'.d.read_markers = tj.d.read_markers /\ tj'.c = tj.c
    BY <1>2, <2>1, AbortLeaves
  <2>3. ~At("write")
    BY <1>9 DEF NextResult, At
  <2> QED BY <1>1, <1>2, <2>1, <2>2, <2>3, GotoClean
<1> QED BY <1>3, <1>4, <1>5, <1>6, <1>7, <1>8, <1>9

\* What is left after bailout, and what there is to say of the call.
LEMMA BailoutLeaves ==
    ASSUME Typed, Bailout
    PROVE  /\ tj'.init = tj.init
           /\ tj'.d.global_state = IF Decompresses THEN "START" ELSE tj.d.global_state
           /\ tj'.c.global_state = IF Compresses THEN "START" ELSE tj.c.global_state
           /\ tj'.d.read_markers = tj.d.read_markers /\ tj'.stopOnWarning = FALSE
           /\ tj'.headerRead = tj.headerRead
           /\ tj'.c.buffer = tj.c.buffer /\ tj'.c.newbuffer = tj.c.newbuffer
           /\ tj'.c.bufsize = tj.c.bufsize
           /\ call' = Idle /\ last'.what = call.what /\ last'.fit = call.fit
           /\ last'.retval = (IF tj.warning THEN -1 ELSE call.retval)
           /\ last'.image = (IF last'.retval = 0 THEN call.image ELSE NoFile)
           /\ UNCHANGED heap
<1>1. tj \in Instances /\ tj.d \in Decompressors /\ tj.c \in Compressors
  BY TypedFields
<1> DEFINE c == [tj.c EXCEPT !.global_state = IF Compresses THEN "START" ELSE @]
           left == IF Decompresses THEN jpeg_abort_decompress(tj.d) ELSE tj.d
           d == [left EXCEPT !.progress = IF @ = "own" THEN "gone" ELSE @]
<1>2. tj' = [[[tj EXCEPT !.c = c] EXCEPT !.d = d] EXCEPT !.stopOnWarning = FALSE]
  BY <1>1 DEF Bailout, Cleaned, Instances, Decompresses, Compresses
<1>3. /\ c.global_state = IF Compresses THEN "START" ELSE tj.c.global_state
      /\ c.buffer = tj.c.buffer /\ c.newbuffer = tj.c.newbuffer /\ c.bufsize = tj.c.bufsize
      /\ d.global_state = IF Decompresses THEN "START" ELSE tj.d.global_state
      /\ d.read_markers = tj.d.read_markers
  BY <1>1 DEF Compressors, Decompressors, jpeg_abort_decompress
<1> HIDE DEF c, d
<1>4. /\ tj'.init = tj.init /\ tj'.c = c /\ tj'.d = d /\ tj'.stopOnWarning = FALSE
      /\ tj'.headerRead = tj.headerRead
  BY <1>1, <1>2 DEF Instances
<1>5. /\ call' = Idle /\ last'.what = call.what /\ last'.fit = call.fit
      /\ last'.retval = (IF tj.warning THEN -1 ELSE call.retval)
      /\ last'.image = (IF last'.retval = 0 THEN call.image ELSE NoFile)
      /\ UNCHANGED heap
  BY DEF Bailout
<1> QED BY <1>3, <1>4, <1>5

LEMMA BailoutClean == ASSUME Typed, Clean, Bailout PROVE Clean'
<1>1. At("bailout") /\ ~At("idle") /\ ~At("check") /\ call \in Under /\ ~tj.headerRead
  BY TypedFields DEF Bailout, At, Clean
<1>2. tj'.c.global_state = "START" /\ ~tj'.headerRead /\ ~tj'.stopOnWarning
  BY <1>1, BailoutLeaves DEF Clean, At
<1>3. Decompresses => tj'.d.global_state = "START"
  BY BailoutLeaves
<1>4. last'.what = call.what /\ last'.fit = call.fit
  BY BailoutLeaves
<1>5. ASSUME call.fit, last'.retval = 0 \/ call.what.name # "tjDecodeYUVPlanes"
      PROVE  Fit(last.what.name)'
  <2>1. -1 # 0
    OBVIOUS
  <2>2. Decompresses => tj'.d.read_markers = "own"
    BY <1>1, <1>5, <2>1, BailoutLeaves DEF Clean, Is
  <2> QED BY <1>2, <1>3, <1>4, <2>2 DEF Fit, Decompresses
<1>6. At("idle")' /\ ~At("write")' /\ ~At("check")'
  BY BailoutLeaves DEF Idle, At
<1>7. CallsEndClean'
  BY <1>2, <1>3, <1>4, <1>5 DEF CallsEndClean, Decompresses
<1> QED BY <1>2, <1>6, <1>7 DEF Clean

LEMMA BetweenClean == ASSUME Typed, Clean, Free \/ Alloc \/ Renew PROVE Clean'
<1>1. At("idle") /\ call' = call /\ last' = Nothing
  BY DEF Free, Alloc, Renew
<1>2. /\ tj'.c.global_state = "START" /\ ~tj'.headerRead
  BY <1>1 DEF Free, Alloc, Renew, Instance, Clean, CallsEndClean
<1> QED BY <1>1, <1>2 DEF Clean, CallsEndClean, At, Nothing

\* Each step leaves an instance that can be cleaned up, or is clean.
LEMMA NextClean == Typed /\ Placed /\ Clean /\ [Next]_vars => Clean'
<1> SUFFICES ASSUME Typed, Placed, Clean, [Next]_vars PROVE Clean'
  OBVIOUS
<1>1. CASE UNCHANGED vars
  BY <1>1 DEF vars, Clean, CallsEndClean, Fit, At, Is, Decompresses, Compresses
<1> QED BY <1>1, CallClean, SourceClean, ReadHeaderClean, CheckHeaderClean, RowsClean, WriteClean,
           BailoutClean, BetweenClean DEF Next

LEMMA InitClean == Init => Placed /\ Clean
  BY DEF Init, Instance, Idle, Nothing, Placed, Clean, CallsEndClean, At

\* Every call leaves clean what it works with (bailout in turbojpeg.c), but for the calls that the
\* property names, for every application and every sequence of calls.
THEOREM CallsDoEndClean == Spec => []CallsEndClean
<1>1. Init => Typed /\ Placed /\ Clean
  BY InitTyped, InitClean
<1>2. Typed /\ Placed /\ Clean /\ [Next]_vars => (Typed /\ Placed /\ Clean)'
  BY NextTyped, NextPlaced, NextClean
<1>3. Clean => CallsEndClean
  BY DEF Clean
<1> QED BY <1>1, <1>2, <1>3, PTL DEF Spec

-----------------------------------------------------------------------------
(* Buffers are known, and owned. *)

\* A call that returns, with nothing being written, gives the application what is due.
LEMMA ReturnOwned ==
    ASSUME Typed, Known, Owned, ~At("idle"), NEW i \in Instances, NEW r, Return(r, i),
           i.c = tj.c, tj.c.global_state = "START", UNCHANGED heap
    PROVE  Known' /\ Owned'
<1>1. tj'.c = tj.c
  BY DEF Return, Instances
<1>2. call' = Idle /\ held' = Due
  BY DEF Return, Due, Terminated
<1>3. Due = DOMAIN heap
  BY DEF Owned
<1> QED BY <1>1, <1>2, <1>3 DEF Known, Owned, At, AtAny, Idle

\* A call that goes on, with its buffers and the compressor as they are, and where it makes
\* nothing of them.
LEMMA GotoOwned ==
    ASSUME Typed, Known, Owned, ~At("idle"), UNCHANGED <<heap, held>>,
           call'.at \in Steps, call'.what = call.what, call'.given = call.given,
           call'.done = call.done, call'.jpegBuf = call.jpegBuf,
           tj'.c = tj.c, call'.at \notin {"startCompress", "write"},
           call'.at = "destination" => ~Is(Compressing)
    PROVE  Known' /\ Owned'
<1>1. Due' = Due
  BY DEF Due, Terminated
<1> QED BY <1>1 DEF Known, Owned, At, AtAny, Is, Steps

LEMMA RaiseOwned ==
    ASSUME Typed, Placed, Clean, Known, Owned, ~At("idle"), ~At("bailout"), UNCHANGED heap,
           NEW i \in Instances, Raise(i), i.c = tj.c
    PROVE  Known' /\ Owned'
<1>1. call \in Under
  BY TypedFields
<1>2. CASE Is({"tjDecompressHeader3"}) \/ ~call.inPlanes
  <2>1. Return(-1, i)
    BY <1>2 DEF Raise
  <2>2. ~At("write")
    BY <1>2 DEF Placed, At, AtAny, Is, Compressing, Transforms
  <2> QED BY <2>1, <2>2, ReturnOwned DEF Clean
<1>3. CASE ~(Is({"tjDecompressHeader3"}) \/ ~call.inPlanes)
  <2>1. /\ call'.at = "bailout" /\ call'.what = call.what /\ call'.given = call.given
        /\ call'.done = call.done /\ call'.jpegBuf = call.jpegBuf /\ tj' = i
        /\ held' = held
    BY <1>1, <1>3 DEF Raise, Under
  <2> QED BY <2>1, GotoOwned DEF Steps
<1> QED BY <1>2, <1>3

LEMMA ProceedOwned ==
    ASSUME Typed, Known, Owned, ~At("idle"), UNCHANGED heap,
           NEW i, NEW s \in Steps, Proceed(i, s), i.c = tj.c,
           s \notin {"startCompress", "write"}, s = "destination" => ~Is(Compressing)
    PROVE  Known' /\ Owned'
<1>1. call \in Under
  BY TypedFields
<1>2. /\ call'.at = s /\ call'.what = call.what /\ call'.given = call.given
      /\ call'.done = call.done /\ call'.jpegBuf = call.jpegBuf /\ tj' = i /\ held' = held
  BY <1>1, GotoFields DEF Proceed
<1> QED BY <1>2, GotoOwned

LEMMA CallOwned == ASSUME Typed, Clean, Known, Owned, NEW what \in Calls, Call(what)
                   PROVE  Known' /\ Owned'
<1>1. PICK given \in Buffers :
          /\ Enter(what, given)
          /\ given # NULL => given \in held
          /\ what.name \in Compressing /\ "NOREALLOC" \in what.flags => given # NULL
          /\ given # NULL => \/ Worst <= heap[given]
                             \/ given = tj.c.buffer /\ "NOREALLOC" \notin what.flags
  <2> DEFINE large == {b \in held : heap[b] >= Worst}
             handed == IF what.name \notin Compressing THEN {NULL}
                       ELSE IF "NOREALLOC" \in what.flags THEN large
                       ELSE {NULL} \cup large \cup (held \cap {tj.c.buffer})
  <2>1. PICK given \in handed : Enter(what, given)
    BY DEF Call
  <2>2. NULL \notin held /\ held \subseteq Addresses /\ DOMAIN heap = held
    BY AddressesAssumption DEF Typed, Call, Owned
  <2>3. \A b \in held : heap[b] >= Worst => Worst <= heap[b]
    <3>1. \A b \in held : heap[b] \in Nat
      BY <2>2 DEF Typed
    <3> QED BY <3>1, AddressesAssumption
  <2> QED BY <2>1, <2>2, <2>3 DEF Buffers
<1>2. At("idle") /\ tj \in Instances /\ tj.c.global_state = "START" /\ held = DOMAIN heap
  BY TypedFields DEF Call, Clean, CallsEndClean, Owned
<1>3. tj'.c = tj.c /\ UNCHANGED <<heap, held>>
  BY <1>1, <1>2 DEF Enter, Instances
<1>4. /\ call'.what = what /\ call'.given = given /\ call'.jpegBuf = given /\ call'.done = {}
      /\ call'.at \in Steps \ {"startCompress", "write"}
  <2>1. FirstStep(what.name) \in Steps \ {"startCompress", "write"}
    BY CallsAssumption DEF FirstStep, Steps, Decompressing, Compressing
  <2> QED BY <1>1, <2>1 DEF Enter, Steps
<1>5. Due' = DOMAIN heap'
  <2>1. Due' = ((held \ {given}) \cup {} \cup {given}) \ {NULL}
    BY <1>2, <1>3, <1>4 DEF Due, Terminated
  <2>2. NULL \notin held
    BY AddressesAssumption DEF Typed
  <2> QED BY <1>1, <1>2, <1>3, <2>1, <2>2
<1>6. ~At("idle")' /\ ~AtAny({"startCompress", "write"})'
  BY <1>4 DEF At, AtAny, Steps
<1> QED BY <1>1, <1>3, <1>4, <1>5, <1>6 DEF Known, Owned, At, AtAny, Is, flags

LEMMA ReadOwned ==
    ASSUME Typed, Placed, Clean, Known, Owned,
           \/ Source \/ ReadHeader \/ StartDecompress \/ ReadRows \/ Decode \/ Decoded \/ Encode
    PROVE  Known' /\ Owned'
<1>1. /\ call \in Under /\ ~At("idle") /\ ~At("bailout") /\ ~At("write")
      /\ tj \in Instances /\ tj.d \in Decompressors /\ UNCHANGED heap
      /\ tj.c.global_state = "START"
  BY TypedFields
     DEF Source, ReadHeader, StartDecompress, ReadRows, Decode, Decoded, Encode, At, Clean
<1> DEFINE Same(i) == i \in Instances /\ i.c = tj.c
<1>2. ASSUME NEW i, Same(i), Raise(i) PROVE Known' /\ Owned'
  BY <1>1, <1>2, RaiseOwned
<1>3. ASSUME NEW i, Same(i),
             NEW s \in {"header", "check", "rows", "decoded", "bailout"}, Proceed(i, s)
      PROVE  Known' /\ Owned'
  BY <1>1, <1>3, ProceedOwned DEF Steps
<1>4. \A i : Same(i) => Same(Warning(i))
  BY WarningLeaves
<1>5. ASSUME NEW i, Same(i), NEW w, NEW s \in {"rows"}, Warned(i, w, s)
      PROVE  Known' /\ Owned'
  <2>1. Proceed(i, s) \/ Raise(Warning(i)) \/ Proceed(Warning(i), s)
    BY <1>5 DEF Warned, Warning
  <2> QED BY <1>2, <1>3, <1>4, <1>5, <2>1
<1>6. Same(tj)
  BY <1>1
<1>7. CASE Source
  <2> DEFINE saved == tj.d.saved \/ \E k \in DOMAIN call.what.t : ~call.what.t[k].copynone
             s == IF Is({"tjDecompressToYUVPlanes"}) /\ tj.headerRead THEN "check" ELSE "header"
             i == [tj EXCEPT !.d.saved = saved]
  <2>1. Proceed(i, s) /\ s \in {"header", "check"}
    BY <1>7 DEF Source
  <2>2. i.c = tj.c
    BY <1>1 DEF Instances
  <2>3. s \in Steps /\ s \notin {"startCompress", "write", "destination"}
    BY <2>1 DEF Steps
  <2> HIDE DEF i, s
  <2> QED BY <1>1, <2>1, <2>2, <2>3, ProceedOwned
<1>8. CASE StartDecompress
  <2> DEFINE working == [tj EXCEPT !.d.global_state = "WORKING"]
             calm == [working EXCEPT !.warning = FALSE]
             s == IF Is({"tjTransform"}) THEN "destination" ELSE "rows"
  <2>1. Same(working) /\ Same(calm)
    BY <1>1 DEF Instances, Decompressors
  <2>2. Raise(working) \/ Raise(calm) \/ Warned(working, file.warns = "scan", s)
    BY <1>8 DEF StartDecompress
  <2>3. s \in Steps \ {"startCompress", "write"} /\ (s = "destination" => ~Is(Compressing))
    BY DEF Steps, Is, Compressing
  <2> HIDE DEF working, calm, s
  <2>4. CASE Warned(working, file.warns = "scan", s)
    <3>1. \/ Proceed(working, s) \/ Raise(Warning(working)) \/ Proceed(Warning(working), s)
      BY <2>4 DEF Warned, Warning
    <3>2. Same(Warning(working))
      BY <1>4, <2>1
    <3> QED BY <1>1, <1>2, <2>1, <2>3, <3>1, <3>2, ProceedOwned
  <2> QED BY <1>2, <2>1, <2>2, <2>4
<1>9. CASE ReadHeader
  <2>1. \A state \in {"START", "INHEADER", "READY", "WORKING"}, saw \in BOOLEAN, image \in Images :
            Same(Header(state, saw, image))
    BY HeaderLeaves
  <2>2. /\ tj.d.image \in Images /\ tj.d.saw_SOI \in BOOLEAN
        /\ file \in Images /\ NoFile \in Images
    BY <1>9, ReadHeaderSteps DEF Images
  <2> HIDE DEF Same
  <2>3. /\ Same(Header("READY", tj.d.saw_SOI, tj.d.image))
        /\ \A saw \in BOOLEAN : Same(Header("INHEADER", saw, NoFile))
        /\ Same(Header("INHEADER", TRUE, NoFile)) /\ Same(Warning(Header("INHEADER", TRUE, NoFile)))
        /\ Same(Header("START", TRUE, NoFile))
        /\ Same(Header("READY", TRUE, file)) /\ Same(Warning(Header("READY", TRUE, file)))
    BY <1>4, <2>1, <2>2
  <2>4. ASSUME NEW i, Same(i), Return(0, i) PROVE Known' /\ Owned'
    BY <1>1, <2>4, ReturnOwned DEF Same
  <2> QED BY <1>2, <1>3, <1>6, <1>9, <2>3, <2>4, ReadHeaderSteps
<1>10. CASE ReadRows
  <2>1. CASE Raise(tj)
    BY <1>2, <1>6, <2>1
  <2>2. CASE /\ tj' = [tj EXCEPT !.d = jpeg_abort_decompress(@)]
             /\ call' = [call EXCEPT !.at = "bailout", !.image = tj.d.image]
             /\ UNCHANGED <<held, last>>
    <3>1. /\ call'.at = "bailout" /\ call'.what = call.what /\ call'.given = call.given
          /\ call'.done = call.done /\ call'.jpegBuf = call.jpegBuf
      BY <1>1, <2>2 DEF Under
    <3> QED BY <1>1, <2>2, <3>1, AbortLeaves, GotoOwned DEF Steps
  <2> QED BY <1>10, <2>1, <2>2 DEF ReadRows
<1>11. CASE Decode
  <2> DEFINE state == IF tj.d.global_state = "START" THEN "INHEADER" ELSE tj.d.global_state
             d == [[tj.d EXCEPT !.read_markers = "my"] EXCEPT !.global_state = state]
             i == [tj EXCEPT !.d = d]
             j == [tj EXCEPT !.d.global_state = "READY"]
  <2>1. d \in Decompressors /\ Same(j)
    BY <1>1 DEF Decompressors, Instances
  <2>2. Raise(i) \/ Proceed(j, "decoded")
    BY <1>11 DEF Decode, Proceed
  <2> HIDE DEF d, j
  <2>3. Same(i)
    BY <1>1, <2>1 DEF Instances
  <2> HIDE DEF i, Same
  <2> QED BY <1>2, <1>3, <2>1, <2>2, <2>3
<1>12. CASE Decoded \/ Encode
  <2>1. \/ Raise(tj) \/ Proceed(tj, "bailout")
        \/ Proceed([tj EXCEPT !.d = jpeg_abort_decompress(@)], "bailout")
    BY <1>12 DEF Decoded, Encode
  <2>2. Same([tj EXCEPT !.d = jpeg_abort_decompress(@)])
    BY AbortLeaves
  <2> HIDE DEF Same
  <2> QED BY <1>2, <1>3, <1>6, <2>1, <2>2
<1> QED BY <1>7, <1>8, <1>9, <1>10, <1>11, <1>12

LEMMA CheckHeaderOwned ==
    ASSUME Typed, Placed, Clean, Known, Owned, CheckHeader PROVE Known' /\ Owned'
<1>1. /\ At("check") /\ call \in Under /\ ~At("idle") /\ UNCHANGED heap
      /\ tj \in Instances /\ tj.d \in Decompressors /\ tj.c.global_state = "START"
      /\ "bailout" \in Steps /\ "start" \in Steps /\ "check" \in Steps
  BY TypedFields DEF CheckHeader, At, Clean, Steps
<1>2. CASE Is({"tjDecompressHeader3"})
  <2>1. /\ tj' = [tj EXCEPT !.d = jpeg_abort_decompress(@)] /\ call' = Idle /\ held' = held
    BY <1>2 DEF CheckHeader, Is
  <2>2. call.given = NULL /\ call.done = {} /\ call.jpegBuf = NULL
    BY <1>1, <1>2 DEF Placed, Is, Transforms, Compressing
  <2>3. Due = held
    BY <1>1, <2>2, AddressesAssumption DEF Due, Terminated, Typed
  <2>4. tj'.c = tj.c /\ held = DOMAIN heap
    BY <1>1, <2>1, <2>3, AbortLeaves DEF Owned
  <2> QED BY <1>1, <2>1, <2>4 DEF Known, Owned, At, AtAny, Idle
<1>3. CASE ~Is({"tjDecompressHeader3"})
  <2>1. CASE Return(-1, [tj EXCEPT !.stopOnWarning = FALSE])
    <3>1. LET i == [tj EXCEPT !.stopOnWarning = FALSE] IN i \in Instances /\ i.c = tj.c
      BY <1>1 DEF Instances
    <3> QED BY <1>1, <2>1, <3>1, ReturnOwned
  <2>2. CASE /\ call'.at \in {"start", "bailout", "check"} /\ call'.what = call.what
             /\ call'.given = call.given /\ call'.done = call.done
             /\ call'.jpegBuf = call.jpegBuf
             /\ held' = held /\ tj'.c = tj.c
    BY <1>1, <2>2, GotoOwned
  <2>3. CASE /\ tj' = tj \/ tj' = [tj EXCEPT !.headerRead = FALSE]
             /\ Goto("start") \/ call' = [call EXCEPT !.at = "bailout", !.retval = -1]
             /\ held' = held
    <3>1. tj'.c = tj.c
      BY <1>1, <2>3 DEF Instances
    <3>2. /\ call'.at \in {"start", "bailout"} /\ call'.what = call.what
          /\ call'.given = call.given /\ call'.done = call.done
          /\ call'.jpegBuf = call.jpegBuf
      BY <1>1, <2>3, GotoFields DEF Under
    <3> QED BY <2>2, <2>3, <3>1, <3>2
  <2>4. CASE /\ tj' = [tj EXCEPT !.headerRead = TRUE, !.warning = FALSE,
                                 !.d = Monitor(@, "LIMITSCANS" \in flags)]
             /\ call' = [call EXCEPT !.inPlanes = TRUE]
             /\ held' = held
    <3>1. tj'.c = tj.c
      BY <1>1, <2>4 DEF Instances
    <3>2. /\ call'.at = "check" /\ call'.what = call.what
          /\ call'.given = call.given /\ call'.done = call.done
          /\ call'.jpegBuf = call.jpegBuf
      BY <1>1, <2>4 DEF Under, At
    <3> QED BY <2>2, <2>4, <3>1, <3>2
  <2> QED BY <1>1, <1>3, <2>1, <2>3, <2>4 DEF CheckHeader, Is, Proceed, Sampled, Placed
<1> QED BY <1>2, <1>3

\* What jpeg_mem_dest_tj() makes of the destination.
LEMMA DestLeaves ==
    ASSUME Typed, NEW b, NEW size, NEW made, tj' = [tj EXCEPT !.c = dest(b, size, made)]
    PROVE  /\ tj'.c.buffer = b /\ tj'.c.newbuffer = made /\ tj'.c.bufsize = size
           /\ tj'.c.alloc = ("NOREALLOC" \notin flags)
           /\ tj'.c.global_state = tj.c.global_state
           /\ tj'.d = tj.d /\ tj'.init = tj.init /\ tj'.warning = tj.warning
           /\ tj'.stopOnWarning = tj.stopOnWarning
<1>1. tj \in Instances /\ tj.c \in Compressors
  BY TypedFields
<1> DEFINE c == dest(b, size, made)
<1>2. /\ c.buffer = b /\ c.newbuffer = made /\ c.bufsize = size
      /\ c.alloc = ("NOREALLOC" \notin flags) /\ c.global_state = tj.c.global_state
      /\ tj' = [tj EXCEPT !.c = c]
  BY <1>1 DEF dest, Compressors
<1> HIDE DEF c
<1>3. /\ tj'.c = c /\ tj'.d = tj.d /\ tj'.init = tj.init /\ tj'.warning = tj.warning
      /\ tj'.stopOnWarning = tj.stopOnWarning
  BY <1>1, <1>2 DEF Instances
<1> QED BY <1>2, <1>3

LEMMA TakeDestinationOwned ==
    ASSUME Typed, Placed, Clean, Known, Owned, TakeDestination PROVE Known' /\ Owned'
<1>1. /\ At("destination") /\ ~At("idle") /\ call \in Under /\ tj \in Instances
      /\ tj.c \in Compressors /\ held' = held /\ tj.c.global_state = "START"
  BY TypedFields, TakeDestinationSteps DEF At, Clean
<1>2. Is(Compressing) \/ Transforms
  BY <1>1 DEF Placed, AtAny, At
<1>3. Transforms => call.given = NULL /\ call.jpegBuf = NULL /\ "NOREALLOC" \notin flags
  <2>1. Transforms => "NOREALLOC" \notin flags
    BY <1>1, TypedFields, CallsAssumption DEF Transforms, Is, flags
  <2> QED BY <1>1, <2>1 DEF Placed, At, AtAny, Transforms, Is, Compressing
<1>4. /\ call.jpegBuf = call.given
      /\ "NOREALLOC" \in flags => call.given # NULL
      /\ call.given # NULL => \/ Worst <= heap[call.given]
                              \/ call.given = tj.c.buffer /\ "NOREALLOC" \notin flags
  BY <1>1, <1>2, <1>3 DEF Owned
<1>5. ((held \ {call.given}) \cup call.done \cup {call.given}) \ {NULL} = DOMAIN heap
  BY <1>1, <1>4 DEF Owned, Due, Terminated
<1>6. Is(Compressing) => ~Transforms /\ call.done = {}
  BY <1>1 DEF Placed, Is, Compressing, Transforms
<1>7. NULL \notin held /\ DOMAIN heap \subseteq Addresses /\ NULL \notin Addresses
      /\ Worst \in Nat /\ tj.c.bufsize \in Nat
  BY <1>1, AddressesAssumption DEF Typed, Compressors
<1>8. CASE call.given # NULL
  <2> DEFINE reused == tj.c.buffer = call.given /\ "NOREALLOC" \notin flags
             size == IF reused THEN tj.c.bufsize ELSE Worst
  <2>1. ~Transforms /\ Is(Compressing) /\ call.done = {}
    BY <1>2, <1>3, <1>6, <1>8
  <2>2. /\ tj' = [tj EXCEPT !.c = dest(call.given, size, tj.c.newbuffer)]
        /\ heap' = heap /\ call' = [call EXCEPT !.at = "startCompress"]
    BY <1>8, <2>1, TakeDestinationSteps DEF Transforms
  <2>3. /\ call'.at = "startCompress" /\ call'.what = call.what /\ call'.given = call.given
        /\ call'.done = {} /\ call'.jpegBuf = call.given
    BY <1>1, <1>4, <2>1, <2>2 DEF Under
  <2>4. /\ tj'.c.buffer = call.given /\ tj'.c.newbuffer = tj.c.newbuffer /\ tj'.c.bufsize = size
        /\ tj'.c.alloc = ("NOREALLOC" \notin flags) /\ tj'.c.global_state = "START"
    BY <1>1, <2>2, DestLeaves
  <2>5. call.given \in DOMAIN heap /\ call.given \notin (held \ {call.given}) \cup {}
    BY <1>5, <1>8
  <2>6. Known'
    <3>1. CASE reused
      BY <1>4, <2>2, <2>4, <3>1 DEF Known
    <3>2. CASE ~reused
      BY <1>4, <1>7, <1>8, <2>2, <2>4, <3>2 DEF Known
    <3> QED BY <3>1, <3>2
  <2>7. Due' = DOMAIN heap'
    <3>1. Due' = ((held \ {call.given}) \cup {} \cup {call.given}) \ {NULL}
      BY <1>1, <2>3, <2>4 DEF Due, Terminated
    <3> QED BY <1>5, <2>1, <2>2, <3>1
  <2>8. ~tj'.c.alloc => Worst <= tj'.c.bufsize
    <3>1. CASE "NOREALLOC" \in flags
      BY <1>7, <2>4, <3>1
    <3>2. CASE "NOREALLOC" \notin flags
      BY <2>4, <3>2, Zenon
    <3> QED BY <3>1, <3>2
  <2> QED BY <1>1, <2>1, <2>2, <2>3, <2>4, <2>5, <2>6, <2>7, <2>8
          DEF Owned, At, AtAny, Is, Transforms
<1>9. CASE call.given = NULL
  <2>1. PICK a \in FreeAddresses : /\ heap' = Allocated(a, 1)
                                   /\ tj' = [tj EXCEPT !.c = dest(a, 1, a)]
                                   /\ call' = [call EXCEPT !.at = "startCompress", !.jpegBuf = a]
    BY <1>3, <1>9, TakeDestinationSteps DEF Transforms
  <2>2. /\ call'.at = "startCompress" /\ call'.what = call.what /\ call'.given = NULL
        /\ call'.done = call.done /\ call'.jpegBuf = a
    BY <1>1, <1>9, <2>1 DEF Under
  <2>3. /\ tj'.c.buffer = a /\ tj'.c.newbuffer = a /\ tj'.c.bufsize = 1
        /\ tj'.c.alloc = ("NOREALLOC" \notin flags) /\ tj'.c.global_state = "START"
    BY <1>1, <2>1, DestLeaves
  <2>4. a \notin DOMAIN heap /\ a # NULL /\ DOMAIN heap' = DOMAIN heap \cup {a}
    BY <2>1, AllocatedTyped
  <2>5. heap'[a] = 1
    BY <2>1 DEF Allocated
  <2>6. tj'.c.alloc = TRUE
    BY <1>4, <1>9, <2>3
  <2>7. a \notin held \cup call.done
    BY <1>5, <1>9, <2>4
  <2>8. Due' = DOMAIN heap'
    <3>1. Due' = ((held \ {NULL}) \cup call.done \cup {a}) \ {NULL}
      BY <1>1, <2>2, <2>3 DEF Due, Terminated
    <3> QED BY <1>5, <1>9, <2>4, <3>1
  <2>9. Known'
    BY <2>3, <2>5 DEF Known
  <2> QED BY <1>1, <2>2, <2>3, <2>4, <2>5, <2>6, <2>7, <2>8, <2>9
          DEF Owned, At, AtAny, Is, Transforms
<1> QED BY <1>8, <1>9

LEMMA StartCompressOwned ==
    ASSUME Typed, Placed, Clean, Known, Owned, PassOver \/ StartCompress PROVE Known' /\ Owned'
<1>1. /\ call \in Under /\ ~At("idle") /\ ~At("bailout") /\ tj \in Instances
      /\ tj.c \in Compressors /\ UNCHANGED heap /\ tj.c.global_state = "START"
  BY TypedFields DEF PassOver, StartCompress, At, Clean
<1>2. CASE PassOver
  <2>1. /\ call'.at = "transformed" /\ call'.what = call.what /\ call'.given = call.given
        /\ call'.done = call.done /\ call'.jpegBuf = call.jpegBuf /\ tj' = tj /\ held' = held
    BY <1>1, <1>2, GotoFields DEF PassOver
  <2> QED BY <1>1, <2>1, GotoOwned DEF Steps
<1>3. CASE Raise(tj)
  BY <1>1, <1>3, RaiseOwned
<1>4. CASE StartCompress /\ ~Raise(tj)
  <2>1. /\ At("startCompress") /\ call'.at = "write" /\ call'.what = call.what
        /\ call'.given = call.given /\ call'.done = call.done /\ call'.jpegBuf = call.jpegBuf
        /\ tj' = [tj EXCEPT !.c.global_state = "WORKING"] /\ held' = held
    BY <1>1, <1>4 DEF StartCompress, Under
  <2>2. /\ tj'.c.buffer = tj.c.buffer /\ tj'.c.newbuffer = tj.c.newbuffer
        /\ tj'.c.bufsize = tj.c.bufsize /\ tj'.c.alloc = tj.c.alloc
        /\ tj'.c.global_state = "WORKING"
    BY <1>1, <2>1 DEF Instances, Compressors
  <2>3. tj.c.buffer = call.jpegBuf
    BY <2>1 DEF Owned, At, AtAny
  <2>4. Due' = Due
    BY <1>1, <2>1, <2>2, <2>3 DEF Due, Terminated
  <2> QED BY <1>1, <2>1, <2>2, <2>3, <2>4 DEF Known, Owned, At, AtAny, Is, Transforms
<1> QED BY <1>2, <1>3, <1>4

\* A buffer that is too small is the destination's own, in the hands of nobody else.
LEMMA EnlargeOwn ==
    ASSUME Typed, Placed, Known, Owned, Enlarge
    PROVE  tj.c.alloc /\ tj.c.newbuffer = tj.c.buffer
<1>1. /\ At("write") /\ ~At("idle") /\ call.what.size > tj.c.bufsize
      /\ tj.c.bufsize \in Nat /\ Worst \in Nat /\ call.what.size \in Nat
  BY TypedFields, AddressesAssumption DEF Enlarge, At, Compressors
<1>2. Is(Compressing) \/ Transforms
  BY <1>1 DEF Placed, At, AtAny
<1>3. Is(Compressing) => call.what.size <= Worst
  BY <1>1, TypedFields, CallsAssumption DEF Is
<1>4. Is(Compressing) => ~(Worst <= tj.c.bufsize)
  BY <1>1, <1>3
<1>5. Is(Compressing) => ~Transforms
  BY DEF Is, Compressing, Transforms
<1>6. tj.c.alloc \in BOOLEAN
  BY TypedFields DEF Compressors
<1>7. tj.c.alloc
  BY <1>1, <1>4, <1>6 DEF Owned, At, AtAny
<1>8. tj.c.newbuffer = tj.c.buffer
  BY <1>1, <1>2, <1>4 DEF Owned, Known, At, AtAny
<1> QED BY <1>7, <1>8

LEMMA EnlargeOwned ==
    ASSUME Typed, Placed, Clean, Known, Owned, Enlarge PROVE Known' /\ Owned'
<1>1. /\ At("write") /\ ~At("idle") /\ call \in Under /\ tj \in Instances
      /\ tj.c \in Compressors
      /\ tj.c.alloc /\ tj.c.newbuffer = tj.c.buffer
  BY TypedFields, EnlargeOwn DEF At, Enlarge
<1> DEFINE n == 2 * tj.c.bufsize
<1>2. PICK a \in FreeAddresses : /\ heap' = Freed(Allocated(a, n), tj.c.buffer)
                                 /\ tj' = [tj EXCEPT !.c = Enlarged(tj.c, a)]
                                 /\ UNCHANGED <<call, held, last>>
  BY <1>1 DEF Enlarge
<1>3. n \in Nat
  BY <1>1 DEF Compressors
<1>4. /\ a \notin DOMAIN heap /\ a # NULL
      /\ Allocated(a, n) \in [DOMAIN heap \cup {a} -> Nat] /\ Allocated(a, n)[a] = n
  BY <1>3, AllocatedTyped DEF Allocated
<1>5. /\ Enlarged(tj.c, a).buffer = a /\ Enlarged(tj.c, a).newbuffer = a
      /\ Enlarged(tj.c, a).bufsize = n /\ Enlarged(tj.c, a).alloc = tj.c.alloc
      /\ Enlarged(tj.c, a).global_state = tj.c.global_state
  BY <1>1 DEF Enlarged, Compressors
<1>6. /\ tj'.c.buffer = a /\ tj'.c.newbuffer = a /\ tj'.c.bufsize = n /\ tj'.c.alloc
      /\ tj'.c.global_state = tj.c.global_state
  BY <1>1, <1>2, <1>5 DEF Instances
<1>7. /\ tj.c.buffer \in DOMAIN heap
      /\ tj.c.buffer \notin (held \ {call.given}) \cup call.done
  BY <1>1 DEF Owned, At, AtAny
<1>8. DOMAIN heap' = (DOMAIN heap \cup {a}) \ {tj.c.buffer} /\ heap'[a] = n
  <2> DEFINE h == Allocated(a, n)
             D == DOMAIN heap \cup {a}
  <2>1. h \in [D -> Nat] /\ h[a] = n /\ heap' = Freed(h, tj.c.buffer) /\ a \in D \ {tj.c.buffer}
    BY <1>2, <1>4, <1>7
  <2> HIDE DEF h, D
  <2>2. DOMAIN heap' = D \ {tj.c.buffer} /\ heap'[a] = h[a]
    BY <2>1 DEF Freed
  <2> QED BY <2>1, <2>2 DEF D
<1>9. NULL \notin DOMAIN heap
  BY AddressesAssumption DEF Typed
<1>10. CASE tj.c.global_state = "WORKING"
  <2>1. DOMAIN heap = ((held \ {call.given}) \cup call.done \cup {tj.c.buffer}) \ {NULL}
    BY <1>1, <1>10 DEF Owned, Due, Terminated
  <2>2. Due' = ((held \ {call.given}) \cup call.done \cup {a}) \ {NULL}
    BY <1>2, <1>6, <1>10 DEF Due, Terminated
  <2>3. Due' = DOMAIN heap'
    BY <1>4, <1>7, <1>8, <1>9, <2>1, <2>2
  <2>4. a \notin (held \ {call.given}) \cup call.done
    BY <1>4, <2>1
  <2>5. Known'
    BY <1>3, <1>6, <1>8 DEF Known
  <2> QED BY <1>1, <1>2, <1>4, <1>6, <1>7, <1>8, <2>3, <2>4, <2>5
          DEF Owned, At, AtAny, Is, Transforms
<1> QED BY <1>1, <1>10 DEF Clean

LEMMA FinishCompressOwned ==
    ASSUME Typed, Placed, Clean, Known, Owned, FinishCompress \/ NextResult
    PROVE  Known' /\ Owned'
<1>1. /\ call \in Under /\ ~At("idle") /\ ~At("bailout") /\ tj \in Instances
      /\ tj.c \in Compressors /\ UNCHANGED heap
  BY TypedFields DEF FinishCompress, NextResult, At
<1>2. CASE Raise(tj)
  BY <1>1, <1>2, RaiseOwned
<1>3. CASE FinishCompress /\ ~Raise(tj)
  <2>1. /\ At("write") /\ call'.at \in {"transformed", "bailout"} /\ call'.what = call.what
        /\ call'.given = call.given /\ call'.done = call.done
        /\ call'.jpegBuf = (IF tj.c.alloc THEN tj.c.buffer ELSE call.jpegBuf)
        /\ tj' = [tj EXCEPT !.c.global_state = "START"] /\ held' = held
    BY <1>1, <1>3 DEF FinishCompress, Under
  <2>2. /\ tj'.c.buffer = tj.c.buffer /\ tj'.c.newbuffer = tj.c.newbuffer
        /\ tj'.c.bufsize = tj.c.bufsize /\ tj'.c.global_state = "START"
    BY <1>1, <2>1 DEF Instances, Compressors
  <2>3. CASE tj.c.global_state = "WORKING"
    <3>1. Due' = Due
      BY <1>1, <2>1, <2>2, <2>3 DEF Due, Terminated
    <3> QED BY <1>1, <2>1, <2>2, <3>1 DEF Known, Owned, At, AtAny
  <2> QED BY <2>1, <2>3 DEF Clean
<1>4. CASE NextResult
  <2>1. /\ At("transformed") /\ call'.at \in {"destination", "bailout"} /\ call'.what = call.what
        /\ call'.given = call.given /\ call'.done = call.done \cup {call.jpegBuf}
        /\ call'.jpegBuf = NULL /\ held' = held
        /\ tj' \in {tj, [tj EXCEPT !.d = jpeg_abort_decompress(@)]}
    BY <1>1, <1>4 DEF NextResult, Under
  <2>2. tj'.c = tj.c /\ tj.c.global_state = "START"
    BY <1>1, <2>1, AbortLeaves DEF Clean, At
  <2>3. Due' = Due
    BY <1>1, <2>1, <2>2 DEF Due, Terminated
  <2>4. ~Is(Compressing)
    BY <1>1, <2>1 DEF Placed, At, AtAny, Is, Transforms, Compressing
  <2> QED BY <1>1, <2>1, <2>2, <2>3, <2>4 DEF Known, Owned, At, AtAny, Is
<1> QED BY <1>2, <1>3, <1>4

LEMMA BailoutOwned == ASSUME Typed, Known, Owned, Bailout PROVE Known' /\ Owned'
<1>1. ~At("idle")
  BY DEF Bailout, At
<1>2. held' = Due
  BY DEF Bailout, Due
<1>3. held' = DOMAIN heap'
  BY <1>1, <1>2, BailoutLeaves DEF Owned
<1> QED BY <1>3, BailoutLeaves DEF Known, Owned, At, AtAny, Idle

LEMMA BetweenOwned == ASSUME Typed, Known, Owned, Free \/ Alloc \/ Renew PROVE Known' /\ Owned'
<1>1. At("idle") /\ call' = call /\ held = DOMAIN heap /\ heap \in [DOMAIN heap -> Nat]
  BY DEF Free, Alloc, Renew, Owned, Typed
<1>2. CASE Free
  <2>1. PICK b \in held : held' = held \ {b} /\ heap' = Freed(heap, b) /\ tj' = tj
    BY <1>2 DEF Free
  <2>2. DOMAIN heap' = held' /\ \A x \in held' : heap'[x] = heap[x]
    <3>1. DOMAIN heap' = DOMAIN heap \ {b} /\ \A x \in DOMAIN heap \ {b} : heap'[x] = heap[x]
      BY <1>1, <2>1 DEF Freed
    <3> QED BY <1>1, <2>1, <3>1
  <2> QED BY <1>1, <2>1, <2>2 DEF Known, Owned, At, AtAny
<1>3. CASE Alloc
  <2>1. PICK a \in FreeAddresses : held' = held \cup {a} /\ heap' = Allocated(a, Worst) /\ tj' = tj
    BY <1>3 DEF Alloc
  <2>2. /\ DOMAIN heap' = held' /\ \A x \in held : heap'[x] = heap[x]
        /\ heap'[a] = Worst /\ Worst \in Nat
    BY <1>1, <2>1, AddressesAssumption DEF Allocated, FreeAddresses
  <2> QED BY <1>1, <2>1, <2>2 DEF Known, Owned, At, AtAny
<1>4. CASE Renew
  <2>1. tj'.c.newbuffer = tj'.c.buffer /\ tj'.c.buffer = NULL
    BY <1>4 DEF Renew, Instance
  <2>2. NULL \notin DOMAIN heap
    BY AddressesAssumption DEF Typed
  <2> QED BY <1>1, <1>4, <2>1, <2>2 DEF Renew, Known, Owned, At, AtAny
<1> QED BY <1>2, <1>3, <1>4

\* Each step leaves every buffer in somebody's hands, and the destination with one that it knows.
LEMMA NextOwned == Typed /\ Placed /\ Clean /\ Known /\ Owned /\ [Next]_vars => (Known /\ Owned)'
<1> SUFFICES ASSUME Typed, Placed, Clean, Known, Owned, [Next]_vars PROVE Known' /\ Owned'
  OBVIOUS
<1>1. CASE UNCHANGED vars
  BY <1>1 DEF vars, Known, Owned, Due, Terminated, At, AtAny, Is, Transforms, flags
<1> QED BY <1>1, CallOwned, ReadOwned, CheckHeaderOwned, TakeDestinationOwned,
           StartCompressOwned, EnlargeOwned, FinishCompressOwned, BailoutOwned, BetweenOwned
        DEF Next

LEMMA InitOwned == Init => Known /\ Owned
<1> SUFFICES ASSUME Init PROVE Known /\ Owned
  OBVIOUS
<1>1. DOMAIN heap = {} /\ held = {} /\ call = Idle
  BY DEF Init
<1>2. tj.c.newbuffer = tj.c.buffer
  BY DEF Init, Instance
<1> QED BY <1>1, <1>2 DEF Known, Owned, At, AtAny, Idle

LEMMA OwnedKept == Typed /\ Placed /\ Known /\ Owned => ResultsKept
<1> SUFFICES ASSUME Typed, Placed, Known, Owned PROVE ResultsKept
  OBVIOUS
<1>1. ~At("idle") => held \ {call.given} \subseteq DOMAIN heap
  BY AddressesAssumption DEF Owned, Due, Typed
<1>2. ASSUME At("write")
      PROVE  /\ tj.c.buffer \in DOMAIN heap
             /\ call.what.size <= heap[tj.c.buffer] \/ tj.c.bufsize <= heap[tj.c.buffer]
  <2>1. tj.c.buffer \in DOMAIN heap /\ ~At("idle")
    BY <1>2 DEF Owned, At, AtAny
  <2>2. tj.c.bufsize <= heap[tj.c.buffer] \/ Worst <= heap[tj.c.buffer]
    BY <2>1 DEF Known
  <2>3. Is(Compressing) => call.what.size <= Worst
    BY <2>1, TypedFields, CallsAssumption DEF Is
  <2>4. /\ call.what.size \in Nat /\ Worst \in Nat /\ heap[tj.c.buffer] \in Nat
    BY <2>1, TypedFields, AddressesAssumption DEF Typed
  <2>5. Is(Compressing) => call.what.size <= heap[tj.c.buffer] \/ tj.c.bufsize <= heap[tj.c.buffer]
    BY <2>2, <2>3, <2>4
  <2>6. Is(Compressing) \/ Transforms
    BY <1>2, <2>1 DEF Placed, At, AtAny
  <2> QED BY <1>2, <2>1, <2>5, <2>6 DEF Owned, At, AtAny
<1> QED BY <1>1, <1>2 DEF Owned, ResultsKept

\* The invariant so far.
Kept == Typed /\ Placed /\ Clean /\ Known /\ Owned

LEMMA KeptHolds == Spec => []Kept
<1>1. Init => Kept
  BY InitTyped, InitClean, InitOwned DEF Kept
<1>2. Kept /\ [Next]_vars => Kept'
  BY NextTyped, NextPlaced, NextClean, NextOwned DEF Kept
<1> QED BY <1>1, <1>2, PTL DEF Spec

\* No result is lost, none is freed while somebody has it, and none is overrun, for every
\* application, however many buffers there are and whatever tjBufSize() returns
\* (jpeg_mem_dest_tj, empty_mem_output_buffer, and jpegBuf in turbojpeg.c).
THEOREM ResultsAreKept == Spec => []ResultsKept
<1>1. Kept => ResultsKept
  BY OwnedKept DEF Kept
<1> QED BY <1>1, KeptHolds, PTL

-----------------------------------------------------------------------------
(* Calls answer as they would on a new instance. *)

\* When a call is to fail.
Failing(what) ==
    \/ ~(Needs(what.name) \subseteq tj.init)
    \/ what.fails # "no" /\ what.name # "tjDecompressHeader3"
    \/ /\ what.name \in Decompressing
       /\ \/ what.file.header \notin {"good", "tables"}
          \/ what.file.header = "tables" /\ what.name \in Whole
          \/ what.file.header = "good" /\ ~what.file.sampling /\ what.name # "tjDecompress2"
          \/ /\ what.file.header = "good" /\ what.file.warns = "header"
             /\ what.name = "tjDecompressToYUV2" => "STOPONWARNING" \in what.flags
          \/ what.file.warns = "scan" /\ what.name \in Whole
          \/ what.name \in Whole /\ what.file.scans = "many" /\ "LIMITSCANS" \in what.flags

Failure == [retval |-> -1, image |-> NoFile]

LEMMA PromisedIs ==
    ASSUME NEW what \in Calls
    PROVE  /\ Failing(what) => Promised(what) = Failure
           /\ ~Failing(what) =>
                  Promised(what) =
                      [retval |-> 0,
                       image |-> IF what.name \in Decompressing /\ what.file.header = "good"
                                 THEN what.file ELSE NoFile]
<1> DEFINE whole == what.name \in Decompressing /\ what.name # "tjDecompressHeader3"
<1>1. whole <=> what.name \in Whole
  BY DEF Whole
<1>2. Promised(what) =
          [retval |-> IF Failing(what) THEN -1 ELSE 0,
           image |-> IF ~Failing(what) /\ what.name \in Decompressing /\ what.file.header = "good"
                     THEN what.file ELSE NoFile]
  BY <1>1 DEF Promised, Failing
<1> QED BY <1>2 DEF Failure

\* What is promised does not change while the instance is there.
LEMMA EndsAsPromised ==
    ASSUME call.what \in Calls, tj'.init = tj.init, last'.what = call.what, last'.fit = call.fit,
           call.fit => [retval |-> last'.retval, image |-> last'.image] = Promised(call.what)
    PROVE  AnswersAsFresh'
  BY DEF AnswersAsFresh, Promised, Needs

LEMMA KeepsPromise ==
    ASSUME call'.what = call.what, tj'.init = tj.init
    PROVE  /\ Promised(call.what)' = Promised(call.what)
           /\ Needs(call.what.name)' = Needs(call.what.name)
  BY DEF Promised, Needs

\* A call that is to fail may do so.
LEMMA RaiseAnswered ==
    ASSUME Kept, Answered, ~At("idle"), ~At("bailout"), NEW i \in Instances, Raise(i),
           i.init = tj.init, call.fit => Failing(call.what)
    PROVE  Answered'
<1>1. call \in Under /\ call.what \in Calls /\ call.fit \in BOOLEAN
  BY TypedFields DEF Kept, Under
<1>2. call.fit => Promised(call.what) = Failure
  BY <1>1, PromisedIs
<1>3. CASE Is({"tjDecompressHeader3"}) \/ ~call.inPlanes
  <2>1. /\ last'.what = call.what /\ last'.fit = call.fit /\ last'.retval = -1
        /\ last'.image = NoFile /\ call' = Idle
    BY <1>3 DEF Raise, Return
  <2>2. tj'.init = tj.init
    BY <1>3 DEF Raise, Return, Instances
  <2>3. AnswersAsFresh'
    BY <1>1, <1>2, <2>1, <2>2, EndsAsPromised DEF Failure
  <2> QED BY <2>1, <2>3 DEF Answered, At, Idle
<1>4. CASE ~(Is({"tjDecompressHeader3"}) \/ ~call.inPlanes)
  <2>1. /\ call'.at = "bailout" /\ call'.what = call.what /\ call'.retval = -1
        /\ call'.fit = call.fit /\ tj' = i
    BY <1>1, <1>4 DEF Raise, Under
  <2>2. Outcome' = Failure
    BY <2>1 DEF Outcome, Failure
  <2>3. call'.fit => Told'
    BY <1>2, <2>1, <2>2, KeepsPromise
       DEF Told, ToldOfHeader, ToldOfRows, ToldOfResults, At, AtAny, Written
  <2> QED BY <2>1, <2>3 DEF Answered, AnswersAsFresh, At
<1> QED BY <1>3, <1>4

\* A call that goes on has found out no more than it has.
LEMMA GotoAnswered ==
    ASSUME Kept, Answered, ~At("idle"), ~At("bailout"),
           call'.at \in Steps \ {"bailout"}, call'.what = call.what, call'.fit = call.fit,
           tj'.init = tj.init,
           call.fit /\ Told => (ToldOfHeader /\ ToldOfRows /\ ToldOfResults)'
    PROVE  Answered'
<1>1. call'.fit => Told'
  BY KeepsPromise DEF Told, Answered, At, Steps
<1> QED BY <1>1 DEF Answered, AnswersAsFresh, At, Steps

\* A call that goes to bailout has its answer.
LEMMA BailAnswered ==
    ASSUME Kept, Answered, ~At("idle"),
           call'.at = "bailout", call'.what = call.what, call'.fit = call.fit,
           tj'.init = tj.init,
           call.fit => Outcome' = Promised(call.what)
    PROVE  Answered'
<1>1. call'.fit => Told'
  BY KeepsPromise DEF Told, ToldOfHeader, ToldOfRows, ToldOfResults, At, AtAny, Written
<1> QED BY <1>1 DEF Answered, AnswersAsFresh, At

LEMMA CallAnswered == ASSUME Kept, Answered, NEW what \in Calls, Call(what) PROVE Answered'
<1>1. PICK given : Enter(what, given)
  BY DEF Call
<1>2. At("idle") /\ tj \in Instances /\ tj.d \in Decompressors
  BY TypedFields DEF Call, Kept
<1> DEFINE able == Needs(what.name) \subseteq tj.init
           monitored == what.name \in {"tjDecompress2", "tjDecompressToYUVPlanes", "tjTransform"}
<1>3. /\ tj'.init = tj.init /\ ~tj'.warning /\ tj'.d.global_state = tj.d.global_state
      /\ what.name # "tjDecompressHeader3" =>
             (tj'.stopOnWarning <=> "STOPONWARNING" \in what.flags)
      /\ able /\ monitored => (tj'.d.progress # "none" <=> "LIMITSCANS" \in what.flags)
  <2> DEFINE m == Monitor(tj.d, "LIMITSCANS" \in what.flags)
  <2>1. /\ m.global_state = tj.d.global_state
        /\ m.progress # "none" <=> "LIMITSCANS" \in what.flags
    BY <1>2 DEF Monitor, Decompressors
  <2> HIDE DEF m
  <2>2. PICK d, stop : /\ tj' = [tj EXCEPT !.warning = FALSE, !.stopOnWarning = stop, !.d = d]
                       /\ what.name # "tjDecompressHeader3" =>
                              stop = ("STOPONWARNING" \in what.flags)
                       /\ d \in {tj.d, m} /\ (able /\ monitored => d = m)
    BY <1>1 DEF Enter, m
  <2> QED BY <1>2, <2>1, <2>2 DEF Instances
<1>4. /\ call'.what = what /\ call'.fit = Fit(what.name) /\ call'.k = 1
      /\ call'.inPlanes <=> what.name # "tjDecompressToYUV2"
      /\ call'.at = (IF able THEN FirstStep(what.name) ELSE "bailout")
      /\ call'.retval = (IF able THEN 0 ELSE -1) /\ call'.image = NoFile
  BY <1>1 DEF Enter
<1>5. what.name \in Decompressing \cup Compressing \cup {"tjEncodeYUVPlanes", "tjDecodeYUVPlanes"}
  BY CallsAssumption
<1>6. CASE able
  <2>1. call'.at \in {"source", "destination", "encode", "decode"}
    BY <1>4, <1>5, <1>6 DEF FirstStep
  <2>2. /\ call'.at = "source" <=> what.name \in Decompressing
        /\ call'.at = "destination" => what.name \in Compressing
    BY <1>4, <1>5, <1>6 DEF FirstStep, Decompressing, Compressing
  <2>3. Fit(what.name) => ToldOfHeader'
    <3>1. what.name \in Decompressing /\ Fit(what.name) => tj.d.global_state = "START"
      BY NeedsAre DEF Fit, Decompressing, Compressing
    <3> QED BY <1>2, <1>3, <1>4, <1>6, <2>1, <2>2, <3>1
       DEF ToldOfHeader, At, AtAny, Is, Whole, Stopping, Limited, flags, Decompressing
  <2>4. Fit(what.name) => ToldOfRows'
    BY <2>1, <2>2, <1>4 DEF ToldOfRows, At, AtAny, Is, Transforms, Written, Compressing
  <2>5. Fit(what.name) => ToldOfResults'
    <3>1. call'.at = "decode" /\ Fit(what.name) => tj.d.global_state = "START"
      BY <1>4, <1>5, <1>6, NeedsAre DEF Fit, FirstStep, Decompressing, Compressing
    <3> QED BY <1>3, <1>4, <2>1, <2>2, <3>1
       DEF ToldOfResults, At, AtAny, Is, Transforms, Written, Compressing
  <2>6. (~At("bailout") /\ Needs(call.what.name) \subseteq tj.init)'
    BY <1>3, <1>4, <1>6, <2>1 DEF At, Needs
  <2> QED BY <1>4, <2>1, <2>3, <2>4, <2>5, <2>6 DEF Answered, Told, AnswersAsFresh, At
<1>7. CASE ~able
  <2>1. Promised(what) = Failure
    BY <1>7, PromisedIs DEF Failing
  <2>2. Outcome' = Failure
    BY <1>4, <1>7 DEF Outcome, Failure
  <2>3. Promised(call.what)' = Promised(what)
    BY <1>3, <1>4 DEF Promised, Needs
  <2>4. Told'
    BY <1>4, <1>7, <2>1, <2>2, <2>3
       DEF Told, ToldOfHeader, ToldOfRows, ToldOfResults, At, AtAny, Written
  <2> QED BY <1>4, <1>7, <2>4 DEF Answered, AnswersAsFresh, At
<1> QED BY <1>6, <1>7

LEMMA SourceAnswered == ASSUME Kept, Answered, Source PROVE Answered'
<1>1. /\ At("source") /\ call \in Under /\ ~At("idle") /\ ~At("bailout") /\ tj \in Instances
      /\ tj.d \in Decompressors /\ ~tj.headerRead
  BY TypedFields DEF Source, At, Kept, Clean
<1>2. PICK saved : Proceed([tj EXCEPT !.d.saved = saved], "header")
  BY <1>1 DEF Source
<1>3. /\ tj'.init = tj.init /\ tj'.warning = tj.warning /\ tj'.stopOnWarning = tj.stopOnWarning
      /\ tj'.d.global_state = tj.d.global_state /\ tj'.d.progress = tj.d.progress
  BY <1>1, <1>2 DEF Proceed, Instances, Decompressors
<1>4. /\ call'.at = "header" /\ call'.what = call.what /\ call'.fit = call.fit
      /\ call'.inPlanes = call.inPlanes
  BY <1>1, <1>2, GotoFields DEF Proceed
<1>5. Told => (ToldOfHeader /\ ToldOfRows /\ ToldOfResults)'
  BY <1>1, <1>3, <1>4 DEF Told, ToldOfHeader, ToldOfRows, ToldOfResults, At, AtAny, Is, Written,
                          Stopping, Limited, flags
<1> QED BY <1>1, <1>3, <1>4, <1>5, GotoAnswered DEF Steps

LEMMA ReadHeaderAnswered == ASSUME Kept, Answered, ReadHeader PROVE Answered'
<1>1. /\ At("header") /\ call \in Under /\ ~At("idle") /\ ~At("bailout") /\ tj \in Instances
      /\ tj.d \in Decompressors /\ call.what \in Calls /\ Typed
      /\ tj.d.image \in Images /\ tj.d.saw_SOI \in BOOLEAN /\ file \in Images /\ NoFile \in Images
  BY TypedFields, ReadHeaderSteps DEF At, Kept, Images
<1>2. Is(Decompressing) /\ file \in Files
  BY <1>1, CallsAssumption DEF Kept, Placed, AtAny, At, Is, file
<1>3. \A state \in {"START", "INHEADER", "READY", "WORKING"}, saw \in BOOLEAN, image \in Images :
          LET in == Header(state, saw, image)
          IN  /\ in \in Instances /\ in.init = tj.init
              /\ Warning(in) \in Instances /\ Warning(in).init = tj.init
  <2> TAKE state \in {"START", "INHEADER", "READY", "WORKING"}, saw \in BOOLEAN, image \in Images
  <2> DEFINE i == Header(state, saw, image)
  <2>1. i \in Instances /\ i.init = tj.init
    BY <1>1, HeaderLeaves
  <2> HIDE DEF i
  <2>2. Warning(i) \in Instances /\ Warning(i).init = tj.init
    BY <2>1, WarningLeaves
  <2> QED BY <2>1, <2>2 DEF i
<1>4. call.fit => /\ tj.d.global_state = "START" /\ tj.d.read_markers = "own" /\ ~tj.warning
                  /\ Is(Whole) => (tj.stopOnWarning <=> Stopping)
                  /\ Is({"tjDecompressHeader3"}) => ~tj.stopOnWarning
  <2>1. Decompresses
    BY <1>2, NeedsAre DEF Is, Decompresses, Decompressing, Compressing
  <2> QED BY <1>1, <2>1 DEF Answered, Told, ToldOfHeader, Kept, Clean, At, AtAny
<1>5. Is({"tjDecompressHeader3"}) <=> ~Is(Whole)
  BY <1>2 DEF Is, Whole, Decompressing
<1>6. ASSUME NEW i \in Instances, i.init = tj.init, Raise(i), call.fit => Failing(call.what)
      PROVE  Answered'
  BY <1>1, <1>6, RaiseAnswered
<1>7. ASSUME call.fit => /\ file.header = "good" /\ tj'.d.image = file /\ tj'.init = tj.init
                         /\ tj'.d.progress = tj.d.progress /\ tj'.stopOnWarning = tj.stopOnWarning
                         /\ tj'.warning <=> file.warns = "header"
                         /\ ~(file.warns = "header" /\ tj.stopOnWarning),
             tj'.init = tj.init, Goto("check")
      PROVE  Answered'
  <2>1. /\ call'.at = "check" /\ call'.what = call.what /\ call'.fit = call.fit
        /\ call'.inPlanes = call.inPlanes
    BY <1>1, <1>7, GotoFields
  <2>2. Forgetful => ~call.inPlanes
    BY <1>1 DEF Kept, Placed, AtAny, At, Forgetful
  <2>3. call.fit /\ Told => (ToldOfHeader /\ ToldOfRows /\ ToldOfResults)'
    BY <1>1, <1>4, <1>7, <2>1, <2>2
       DEF Told, ToldOfHeader, ToldOfRows, ToldOfResults, At, AtAny, Is, Written,
           Stopping, Limited, Forgetful, flags, file
  <2> QED BY <1>1, <1>7, <2>1, <2>3, GotoAnswered DEF Steps
<1>8. CASE \E i \in Instances : Raise(i) /\ i.init = tj.init /\ (call.fit => Failing(call.what))
  BY <1>6, <1>8
<1>9. CASE Proceed(Header("READY", tj.d.saw_SOI, tj.d.image), "check") /\ ~call.fit
  <2>1. tj'.init = tj.init /\ Goto("check")
    BY <1>1, <1>3, <1>9 DEF Proceed
  <2> QED BY <1>7, <1>9, <2>1
<1>10. CASE /\ file.header = "tables" /\ Is({"tjDecompressHeader3"})
            /\ Return(0, Header("START", TRUE, NoFile))
  <2> DEFINE i == Header("START", TRUE, NoFile)
  <2>1. i \in Instances /\ i.init = tj.init
    BY <1>1, <1>3
  <2> HIDE DEF i
  <2>2. /\ tj'.init = tj.init /\ call' = Idle
        /\ last'.what = call.what /\ last'.fit = call.fit /\ last'.retval = 0
        /\ last'.image = NoFile
    <3>1. call.image = NoFile
      BY <1>1 DEF Kept, Placed
    <3> QED BY <1>10, <2>1, <3>1 DEF Return, Instances, i
  <2>3. call.fit => Needs(call.what.name) \subseteq tj.init
    BY <1>1 DEF Answered, Told
  <2>4. call.fit => ~Failing(call.what)
    BY <1>2, <1>10, <2>3 DEF Failing, Is, Whole, file
  <2>5. call.fit => Promised(call.what) = [retval |-> 0, image |-> NoFile]
    BY <1>1, <1>10, <2>4, PromisedIs DEF file
  <2>6. AnswersAsFresh'
    BY <1>1, <2>2, <2>5, EndsAsPromised
  <2> QED BY <2>2, <2>6 DEF Answered, At, Idle
<1>11. CASE /\ ~(file.warns = "header" /\ tj.stopOnWarning)
            /\ file.header = "good"
            /\ \/ file.warns = "header" /\ Proceed(Warning(Header("READY", TRUE, file)), "check")
               \/ file.warns # "header" /\ Proceed(Header("READY", TRUE, file), "check")
  <2> DEFINE i == Header("READY", TRUE, file)
  <2>1. /\ i \in Instances /\ i.init = tj.init /\ i.d.image = file
        /\ i.d.progress = tj.d.progress /\ i.stopOnWarning = tj.stopOnWarning
        /\ i.warning = tj.warning
    <3>1. \A state \in {"START", "INHEADER", "READY", "WORKING"}, saw \in BOOLEAN,
             image \in Images :
              LET in == Header(state, saw, image)
              IN  /\ in \in Instances /\ in.init = tj.init /\ in.d.image = image
                  /\ in.d.progress = tj.d.progress /\ in.stopOnWarning = tj.stopOnWarning
                  /\ in.warning = tj.warning
      <4> TAKE state \in {"START", "INHEADER", "READY", "WORKING"}, saw \in BOOLEAN,
               image \in Images
      <4> QED BY <1>1, HeaderLeaves
    <3> QED BY <1>1, <3>1
  <2> HIDE DEF i
  <2>2. /\ Warning(i).init = tj.init /\ Warning(i).d.image = file
        /\ Warning(i).d.progress = tj.d.progress /\ Warning(i).stopOnWarning = tj.stopOnWarning
        /\ Warning(i).warning = TRUE
    BY <2>1, WarningLeaves
  <2>3. Goto("check")
    BY <1>11 DEF Proceed
  <2>4. /\ tj'.init = tj.init /\ tj'.d.image = file /\ tj'.d.progress = tj.d.progress
        /\ tj'.stopOnWarning = tj.stopOnWarning
        /\ file.warns = "header" => tj'.warning
        /\ file.warns # "header" => tj'.warning = tj.warning
    BY <1>11, <2>1, <2>2 DEF Proceed, i
  <2> QED BY <1>4, <1>7, <1>11, <2>3, <2>4
<1>12. file.header \in {"good", "damaged", "noSOI", "tables"}
  BY <1>2 DEF Files
<1>13. /\ file.header \in {"noSOI", "damaged"} => Failing(call.what)
       /\ file.header = "tables" /\ ~Is({"tjDecompressHeader3"}) => Failing(call.what)
       /\ call.fit /\ file.header = "good" /\ file.warns = "header" /\ tj.stopOnWarning
              => Failing(call.what)
  BY <1>2, <1>4, <1>5 DEF Failing, Is, file, Stopping, flags
<1>14. /\ tj \in Instances
       /\ \A saw \in BOOLEAN : LET i == Header("INHEADER", saw, NoFile)
                               IN  i \in Instances /\ i.init = tj.init
       /\ LET w == Warning(Header("INHEADER", TRUE, NoFile))
          IN  w \in Instances /\ w.init = tj.init
  BY <1>1, <1>3
<1> QED BY <1>1, <1>4, <1>8, <1>9, <1>10, <1>11, <1>12, <1>13, <1>14, ReadHeaderSteps

LEMMA CheckHeaderAnswered == ASSUME Kept, Answered, CheckHeader PROVE Answered'
<1>1. /\ At("check") /\ call \in Under /\ ~At("idle") /\ ~At("bailout") /\ tj \in Instances
      /\ tj.d \in Decompressors /\ call.what \in Calls /\ Is(Decompressing) /\ file \in Files
  BY TypedFields, CallsAssumption DEF CheckHeader, At, Kept, Placed, AtAny, Is, file
<1>2. call.fit => /\ tj.d.image = file /\ file.header = "good" /\ tj.d.image # NoFile
                  /\ tj.warning <=> file.warns = "header" /\ (Forgetful => ~call.inPlanes)
                  /\ Is(Whole) => ~(Stopping /\ file.warns = "header")
                  /\ Is(Whole) => (tj.stopOnWarning <=> Stopping)
                  /\ Is(Whole) /\ call.inPlanes => (tj.d.progress # "none" <=> Limited)
                  /\ Needs(call.what.name) \subseteq tj.init
  <2>1. tj.d.image = file /\ file.header = "good" => tj.d.image # NoFile
    BY DEF NoFile
  <2> QED BY <1>1, <2>1 DEF Answered, Told, ToldOfHeader, At, AtAny
<1>3. Is({"tjDecompressHeader3"}) <=> ~Is(Whole)
  BY <1>1 DEF Is, Whole, Decompressing
<1>4. call.fit /\ ~file.sampling /\ ~Is({"tjDecompress2"}) => Failing(call.what)
  BY <1>1, <1>2 DEF Failing, Is, file
<1>5. CASE Is({"tjDecompressHeader3"})
  <2>1. /\ tj' = [tj EXCEPT !.d = jpeg_abort_decompress(@)] /\ call' = Idle
        /\ last'.what = call.what /\ last'.fit = call.fit
        /\ tj.d.image # NoFile =>
               /\ last'.retval = (IF ~tj.d.image.sampling \/ tj.warning THEN -1 ELSE 0)
               /\ last'.image = IF last'.retval = 0 THEN tj.d.image ELSE NoFile
    BY <1>5 DEF CheckHeader, Is
  <2>2. tj'.init = tj.init
    BY <1>1, <2>1 DEF Instances
  <2>3. call.fit => (Failing(call.what) <=> (~file.sampling \/ file.warns = "header"))
    BY <1>1, <1>2, <1>5, <1>3 DEF Failing, Is, file
  <2>4. call.fit => (tj.warning <=> file.warns = "header")
    BY <1>2, <1>5 DEF Forgetful, Is
  <2>5. call.fit /\ Failing(call.what) =>
            [retval |-> last'.retval, image |-> last'.image] = Promised(call.what)
    <3> SUFFICES ASSUME call.fit, Failing(call.what)
                 PROVE  [retval |-> last'.retval, image |-> last'.image] = Promised(call.what)
      OBVIOUS
    <3>1. last'.retval = -1 /\ last'.image = NoFile
      <4>1. -1 # 0
        OBVIOUS
      <4> QED BY <1>2, <2>1, <2>3, <2>4, <4>1
    <3>2. Promised(call.what) = Failure
      BY <1>1, PromisedIs
    <3> QED BY <3>1, <3>2 DEF Failure
  <2>6. call.fit /\ ~Failing(call.what) =>
            [retval |-> last'.retval, image |-> last'.image] = Promised(call.what)
    <3> SUFFICES ASSUME call.fit, ~Failing(call.what)
                 PROVE  [retval |-> last'.retval, image |-> last'.image] = Promised(call.what)
      OBVIOUS
    <3>1. last'.retval = 0 /\ last'.image = file
      BY <1>2, <2>1, <2>3, <2>4
    <3>2. Promised(call.what) = [retval |-> 0, image |-> file]
      BY <1>1, <1>2, PromisedIs DEF file, Is
    <3> QED BY <3>1, <3>2
  <2>7. AnswersAsFresh'
    BY <1>1, <2>1, <2>2, <2>5, <2>6, EndsAsPromised
  <2> QED BY <2>1, <2>7 DEF Answered, At, Idle
<1>6. CASE Is({"tjDecompressToYUV2"}) /\ ~call.inPlanes
  <2>1. CASE /\ Return(-1, [tj EXCEPT !.stopOnWarning = FALSE])
             /\ ~(tj.d.image = NoFile \/ tj.d.image.sampling)
    <3>1. tj'.init = tj.init
      BY <1>1, <2>1 DEF Return, Instances, Decompressors
    <3>2. /\ last'.what = call.what /\ last'.fit = call.fit /\ last'.retval = -1
          /\ last'.image = NoFile /\ call' = Idle
      BY <2>1 DEF Return
    <3>3. call.fit => Promised(call.what) = Failure
      BY <1>1, <1>2, <1>4, <1>6, <2>1, PromisedIs DEF Is
    <3>4. AnswersAsFresh'
      BY <1>1, <3>1, <3>2, <3>3, EndsAsPromised DEF Failure
    <3> QED BY <3>2, <3>4 DEF Answered, At, Idle
  <2>2. CASE /\ tj' = [tj EXCEPT !.headerRead = TRUE, !.warning = FALSE,
                                 !.d = Monitor(@, "LIMITSCANS" \in flags)]
             /\ call' = [call EXCEPT !.inPlanes = TRUE]
    <3>1. /\ Monitor(tj.d, Limited).image = tj.d.image
          /\ Monitor(tj.d, Limited).progress # "none" <=> Limited
      BY <1>1 DEF Monitor, Decompressors
    <3>2. /\ tj'.init = tj.init /\ ~tj'.warning /\ tj'.stopOnWarning = tj.stopOnWarning
          /\ tj'.d = Monitor(tj.d, Limited)
      BY <1>1, <2>2 DEF Instances, Limited
    <3>3. call'.at = "check" /\ call'.what = call.what /\ call'.fit = call.fit /\ call'.inPlanes
      BY <1>1, <2>2 DEF Under, At
    <3>4. call.fit => ToldOfHeader'
      BY <1>2, <1>6, <3>1, <3>2, <3>3
         DEF ToldOfHeader, At, AtAny, Is, Stopping, Limited, Forgetful, flags, file
    <3>5. ToldOfRows' /\ ToldOfResults'
      BY <3>3 DEF ToldOfRows, ToldOfResults, At, AtAny, Written
    <3> QED BY <1>1, <3>2, <3>3, <3>4, <3>5, GotoAnswered DEF Steps
  <2> QED BY <1>6, <2>1, <2>2 DEF CheckHeader, Is
<1>7. CASE ~Is({"tjDecompressHeader3"}) /\ ~(Is({"tjDecompressToYUV2"}) /\ ~call.inPlanes)
  <2>1. /\ tj' = tj \/ tj' = [tj EXCEPT !.headerRead = FALSE]
        /\ \/ Goto("start") /\ (tj.d.image = NoFile \/ tj.d.image.sampling \/ Is({"tjDecompress2"}))
           \/ /\ call' = [call EXCEPT !.at = "bailout", !.retval = -1]
              /\ ~(tj.d.image = NoFile \/ tj.d.image.sampling) /\ ~Is({"tjDecompress2"})
    <3>1. CASE Is({"tjDecompressToYUV2", "tjDecompressToYUVPlanes"}) /\ call.inPlanes
      BY <1>7, <3>1 DEF CheckHeader, Is, Proceed, Sampled
    <3>2. CASE Is({"tjTransform"})
      BY <3>2 DEF CheckHeader, Is, Proceed
    <3>3. CASE Is({"tjDecompress2"})
      BY <3>3 DEF CheckHeader, Is, Proceed
    <3>4. Is({"tjDecompressToYUVPlanes"}) => call.inPlanes
      BY <1>1 DEF Kept, Placed, Is
    <3> QED BY <1>1, <1>7, <3>1, <3>2, <3>3, <3>4 DEF Is, Decompressing
  <2>2. /\ tj'.init = tj.init /\ tj'.d = tj.d /\ tj'.stopOnWarning = tj.stopOnWarning
        /\ tj'.warning = tj.warning
    BY <1>1, <2>1 DEF Instances
  <2>3. CASE Goto("start") /\ (tj.d.image = NoFile \/ tj.d.image.sampling \/ Is({"tjDecompress2"}))
    <3>1. /\ call'.at = "start" /\ call'.what = call.what /\ call'.fit = call.fit
          /\ call'.inPlanes = call.inPlanes
      BY <1>1, <2>3, GotoFields
    <3>2. call.fit => ToldOfHeader'
      BY <1>2, <2>2, <3>1 DEF ToldOfHeader, At, AtAny, Is, Stopping, Limited, flags
    <3>3. call.fit => HeaderKnown
      BY <1>2, <1>3, <1>7, <2>3 DEF HeaderKnown
    <3>4. call.fit => (tj.warning <=> file.warns = "header" /\ ~Forgetful)
      BY <1>2, <1>7 DEF Forgetful
    <3>5. call.fit => ToldOfRows'
      BY <2>2, <3>1, <3>3, <3>4
         DEF ToldOfRows, HeaderKnown, At, AtAny, Is, Written, Stopping, Forgetful, flags, file
    <3>6. ToldOfResults'
      BY <3>1 DEF ToldOfResults, At, AtAny, Written
    <3> QED BY <1>1, <2>2, <3>1, <3>2, <3>5, <3>6, GotoAnswered DEF Steps
  <2>4. CASE /\ call' = [call EXCEPT !.at = "bailout", !.retval = -1]
             /\ ~(tj.d.image = NoFile \/ tj.d.image.sampling) /\ ~Is({"tjDecompress2"})
    <3>1. /\ call'.at = "bailout" /\ call'.what = call.what /\ call'.fit = call.fit
          /\ call'.retval = -1
      BY <1>1, <2>4 DEF Under
    <3>2. Outcome' = Failure
      BY <3>1 DEF Outcome, Failure
    <3>3. call.fit => Promised(call.what) = Failure
      BY <1>1, <1>2, <1>4, <2>4, PromisedIs
    <3> QED BY <1>1, <2>2, <3>1, <3>2, <3>3, BailAnswered
  <2> QED BY <2>1, <2>3, <2>4
<1> QED BY <1>5, <1>6, <1>7

LEMMA StartDecompressAnswered == ASSUME Kept, Answered, StartDecompress PROVE Answered'
<1>1. /\ At("start") /\ call \in Under /\ ~At("idle") /\ ~At("bailout") /\ tj \in Instances
      /\ tj.d \in Decompressors /\ call.what \in Calls /\ Is(Whole) /\ file \in Files
      /\ Transforms => call.k = 1
  BY TypedFields, CallsAssumption
     DEF StartDecompress, At, Kept, Placed, AtAny, Is, Whole, file
<1>2. call.inPlanes
  BY <1>1 DEF Kept, Placed, AtAny, At
<1>3. Is(Decompressing) /\ call.what.name # "tjDecompressHeader3"
  BY <1>1 DEF Is, Whole
<1>4. call.fit => /\ HeaderKnown
                  /\ tj.warning <=> file.warns = "header" /\ ~Forgetful
                  /\ tj.stopOnWarning <=> Stopping
                  /\ tj.d.progress # "none" <=> Limited
  BY <1>1, <1>2 DEF Answered, Told, ToldOfHeader, ToldOfRows, At, AtAny
<1> DEFINE d == [tj.d EXCEPT !.global_state = "WORKING"]
           i == [tj EXCEPT !.d = d]
           j == [i EXCEPT !.warning = FALSE]
<1>5. d \in Decompressors /\ d.image = tj.d.image
  BY <1>1 DEF Decompressors
<1>6. i = [tj EXCEPT !.d.global_state = "WORKING"]
  BY <1>1 DEF Instances, Decompressors
<1> HIDE DEF d
<1>7. /\ i \in Instances /\ i.init = tj.init /\ i.d = d /\ i.warning = tj.warning
  BY <1>1, <1>5 DEF Instances
<1>8. j \in Instances /\ j.init = tj.init
  BY <1>1, <1>5 DEF Instances
<1>9. /\ Warning(i) \in Instances /\ Warning(i).init = tj.init
      /\ Warning(i).d = d /\ Warning(i).warning
  BY <1>7, WarningLeaves
<1> DEFINE next == IF Is({"tjTransform"}) THEN "destination" ELSE "rows"
           many == tj.d.progress # "none" /\ file.scans = "many"
<1>10. \/ call.what.fails = "start" /\ Raise(i)
       \/ many /\ Raise(j)
       \/ file.warns = "scan" /\ tj.stopOnWarning /\ Raise(Warning(i))
       \/ /\ call.what.fails # "start" /\ ~many
          /\ \/ file.warns = "scan" /\ ~tj.stopOnWarning /\ Proceed(Warning(i), next)
             \/ file.warns # "scan" /\ Proceed(i, next)
  BY <1>6 DEF StartDecompress, Warned, Warning
<1> HIDE DEF i, j
<1>11. CASE call.what.fails = "start" /\ Raise(i)
  <2>1. Failing(call.what)
    BY <1>3, <1>11 DEF Failing
  <2> QED BY <1>1, <1>7, <1>11, <2>1, RaiseAnswered
<1>12. CASE many /\ Raise(j)
  <2>1. call.fit => Failing(call.what)
    BY <1>1, <1>3, <1>4, <1>12 DEF Failing, Is, Limited, flags, file
  <2> QED BY <1>1, <1>8, <1>12, <2>1, RaiseAnswered
<1>13. CASE file.warns = "scan" /\ tj.stopOnWarning /\ Raise(Warning(i))
  <2>1. Failing(call.what)
    BY <1>1, <1>3, <1>13 DEF Failing, Is, file
  <2> QED BY <1>1, <1>9, <1>13, <2>1, RaiseAnswered
<1>14. CASE /\ call.what.fails # "start" /\ ~many
            /\ \/ file.warns = "scan" /\ Proceed(Warning(i), next)
               \/ file.warns # "scan" /\ Proceed(i, next)
  <2>1. /\ tj'.init = tj.init /\ tj'.d.image = tj.d.image
        /\ file.warns = "scan" => tj'.warning
        /\ file.warns # "scan" => tj'.warning = tj.warning
    BY <1>5, <1>7, <1>9, <1>14 DEF Proceed
  <2>2. Goto(next)
    BY <1>14 DEF Proceed
  <2>3. /\ call'.at = next /\ call'.what = call.what /\ call'.fit = call.fit /\ call'.k = call.k
    BY <1>1, <2>2, GotoFields
  <2>4. call.fit => ~(Limited /\ file.scans = "many")
    BY <1>4, <1>14
  <2>5. call.fit => (tj'.warning <=> (file.warns = "header" /\ ~Forgetful) \/ file.warns = "scan")
    BY <1>4, <2>1
  <2>6. ToldOfHeader'
    BY <2>3 DEF ToldOfHeader, At, AtAny
  <2>7. call.fit => ToldOfRows'
    BY <1>4, <1>14, <2>1, <2>3, <2>4, <2>5
       DEF ToldOfRows, HeaderKnown, At, AtAny, Is, Written, Stopping, Limited, Forgetful, flags,
           file, Transforms
  <2>8. ToldOfResults'
    <3>1. ~Is(Compressing)
      BY <1>1 DEF Is, Whole, Compressing, Decompressing
    <3>2. Transforms => \A n \in DOMAIN call.what.t : ~(n < call.k)
      <4>1. DOMAIN call.what.t \subseteq Nat \ {0}
        BY <1>1, TypedFields DEF Kept
      <4> QED BY <1>1, <4>1
    <3> QED BY <2>3, <3>1, <3>2
            DEF ToldOfResults, At, AtAny, Is, Written, Transforms
  <2>9. next \in Steps \ {"bailout"}
    BY DEF Steps
  <2> QED BY <1>1, <2>1, <2>3, <2>6, <2>7, <2>8, <2>9, GotoAnswered
<1> QED BY <1>10, <1>11, <1>12, <1>13, <1>14

\* When a whole file has been read, only warnings have the call fail.
LEMMA OnlyWarned ==
    ASSUME Kept, Answered, ~At("idle"), ~At("bailout"), Is(Whole), call.fit, HeaderKnown,
           call.what.fails = "no", ~(Limited /\ file.scans = "many"),
           tj.warning <=> (file.warns = "header" /\ ~Forgetful) \/ file.warns = "scan",
           NEW retval, NEW image, retval = (IF tj.warning THEN -1 ELSE 0),
           image = (IF retval = 0 THEN tj.d.image ELSE NoFile)
    PROVE  [retval |-> retval, image |-> image] = Promised(call.what)
<1>1. /\ call.what \in Calls /\ Needs(call.what.name) \subseteq tj.init
      /\ tj.d.image = file /\ file.header = "good"
  BY TypedFields DEF Kept, Answered, Told, HeaderKnown
<1>2. Is(Decompressing)
  BY DEF Is, Whole
<1>3. Failing(call.what) <=> tj.warning
  BY <1>1, <1>2 DEF Failing, Is, HeaderKnown, Stopping, Limited, Forgetful, flags, file
<1>4. -1 # 0
  OBVIOUS
<1>5. CASE tj.warning
  <2>1. Promised(call.what) = Failure
    BY <1>1, <1>3, <1>5, PromisedIs
  <2> QED BY <1>4, <1>5, <2>1 DEF Failure
<1>6. CASE ~tj.warning
  <2>1. Promised(call.what) = [retval |-> 0, image |-> file]
    BY <1>1, <1>2, <1>3, <1>6, PromisedIs DEF Is, file
  <2> QED BY <1>1, <1>6, <2>1
<1> QED BY <1>5, <1>6

\* When no file is read, only luck has the call fail.
LEMMA OnlyLuck ==
    ASSUME Kept, Answered, ~At("idle"), ~At("bailout"), ~Is(Decompressing), call.fit,
           call.what.fails = "no"
    PROVE  [retval |-> 0, image |-> NoFile] = Promised(call.what)
<1>1. /\ call.what \in Calls /\ Needs(call.what.name) \subseteq tj.init
  BY TypedFields DEF Kept, Answered, Told
<1>2. ~Failing(call.what)
  BY <1>1 DEF Failing, Is
<1> QED BY <1>1, <1>2, PromisedIs DEF Is

LEMMA ReadRowsAnswered == ASSUME Kept, Answered, ReadRows PROVE Answered'
<1>1. /\ At("rows") /\ call \in Under /\ ~At("idle") /\ ~At("bailout") /\ tj \in Instances
      /\ call.what \in Calls /\ Is(Whole) /\ Typed /\ call.retval = 0
  BY TypedFields DEF ReadRows, At, Kept, Placed
<1>2. call.fit => /\ HeaderKnown
                  /\ call.what.fails # "start" /\ ~(Limited /\ file.scans = "many")
                  /\ tj.warning <=> (file.warns = "header" /\ ~Forgetful) \/ file.warns = "scan"
  BY <1>1 DEF Answered, Told, ToldOfRows
<1>3. CASE call.what.fails = "rows" /\ Raise(tj)
  <2>1. Failing(call.what)
    BY <1>1, <1>3 DEF Failing, Is, Whole
  <2> QED BY <1>1, <1>3, <2>1, RaiseAnswered
<1>4. CASE /\ call.what.fails # "rows" /\ tj' = [tj EXCEPT !.d = jpeg_abort_decompress(@)]
           /\ call' = [call EXCEPT !.at = "bailout", !.image = tj.d.image]
  <2>1. tj'.init = tj.init /\ tj'.warning = tj.warning
    BY <1>1, <1>4, AbortLeaves
  <2>2. /\ call'.at = "bailout" /\ call'.what = call.what /\ call'.fit = call.fit
        /\ call'.retval = 0 /\ call'.image = tj.d.image
    BY <1>1, <1>4 DEF Under
  <2>3. call.what.fails \in {"no", "start", "rows"}
    BY <1>1, CallsAssumption
  <2>4. Outcome' = [retval |-> IF tj.warning THEN -1 ELSE 0,
                    image |-> IF (IF tj.warning THEN -1 ELSE 0) = 0 THEN tj.d.image ELSE NoFile]
    BY <2>1, <2>2 DEF Outcome
  <2>5. call.fit => Outcome' = Promised(call.what)
    BY <1>1, <1>2, <1>4, <2>3, <2>4, OnlyWarned
  <2> QED BY <1>1, <2>1, <2>2, <2>5, BailAnswered
<1> QED BY <1>3, <1>4 DEF ReadRows

LEMMA PlanesAnswered == ASSUME Kept, Answered, Decode \/ Decoded \/ Encode PROVE Answered'
<1>1. /\ AtAny({"decode", "decoded", "encode"}) /\ call \in Under /\ ~At("idle")
      /\ ~At("bailout") /\ tj \in Instances /\ tj.d \in Decompressors /\ tj.c \in Compressors
      /\ call.what \in Calls /\ Typed /\ call.retval = 0 /\ call.image = NoFile
      /\ tj.c.global_state = "START" /\ Is({"tjDecodeYUVPlanes", "tjEncodeYUVPlanes"})
  BY TypedFields DEF Decode, Decoded, Encode, At, AtAny, Kept, Placed, Clean, Is
<1>2. /\ ~Is(Decompressing) /\ call.what.name # "tjDecompressHeader3"
      /\ call.what.fails \in {"no", "start", "rows"}
  BY <1>1, CallsAssumption DEF Is, Decompressing
<1>3. call.fit => /\ ~tj.warning
                  /\ At("decoded") => call.what.fails # "start"
                  /\ At("decode") => tj.d.global_state = "START"
  BY <1>1 DEF Answered, Told, ToldOfResults, At, AtAny
<1>4. ASSUME NEW i \in Instances, i.init = tj.init, Raise(i), call.fit => call.what.fails # "no"
      PROVE  Answered'
  <2>1. call.fit => Failing(call.what)
    BY <1>2, <1>4 DEF Failing
  <2> QED BY <1>1, <1>4, <2>1, RaiseAnswered
<1>5. ASSUME tj'.init = tj.init, tj'.warning = tj.warning, Goto("bailout"),
             call.fit => call.what.fails = "no"
      PROVE  Answered'
  <2>1. /\ call'.at = "bailout" /\ call'.what = call.what /\ call'.fit = call.fit
        /\ call'.retval = 0 /\ call'.image = NoFile
    BY <1>1, <1>5, GotoFields
  <2>2. call.fit => Outcome' = [retval |-> 0, image |-> NoFile]
    BY <1>3, <1>5, <2>1 DEF Outcome
  <2>3. call.fit => Outcome' = Promised(call.what)
    BY <1>1, <1>2, <1>5, <2>2, OnlyLuck
  <2> QED BY <1>1, <1>5, <2>1, <2>3, BailAnswered
<1>6. CASE Encode
  <2>1. \/ call.what.fails # "no" /\ Raise(tj)
        \/ call.what.fails = "no" /\ Proceed(tj, "bailout")
    BY <1>1, <1>6 DEF Encode
  <2> QED BY <1>1, <1>4, <1>5, <2>1 DEF Proceed
<1>7. CASE Decoded
  <2>1. At("decoded") /\ (call.fit => call.what.fails # "start")
    BY <1>3, <1>7 DEF Decoded
  <2>2. \/ call.what.fails = "rows" /\ Raise(tj)
        \/ /\ call.what.fails # "rows"
           /\ Proceed([tj EXCEPT !.d = jpeg_abort_decompress(@)], "bailout")
    BY <1>7 DEF Decoded
  <2>3. CASE call.what.fails = "rows" /\ Raise(tj)
    BY <1>1, <1>4, <2>3
  <2>4. CASE /\ call.what.fails # "rows"
             /\ Proceed([tj EXCEPT !.d = jpeg_abort_decompress(@)], "bailout")
    <3>1. tj'.init = tj.init /\ tj'.warning = tj.warning /\ Goto("bailout")
      BY <1>1, <2>4, AbortLeaves DEF Proceed
    <3> QED BY <1>2, <1>5, <2>1, <2>4, <3>1
  <2> QED BY <2>2, <2>3, <2>4
<1>8. CASE Decode
  <2>1. At("decode")
    BY <1>8 DEF Decode
  <2>2. PICK d, i : /\ d \in Decompressors /\ i = [tj EXCEPT !.d = d]
                    /\ \/ /\ Raise(i)
                          /\ \/ tj.d.global_state \notin {"START", "INHEADER"}
                             \/ call.what.fails = "start"
                       \/ tj' = i /\ Goto("decoded") /\ call.what.fails # "start"
    <3> DEFINE state == IF tj.d.global_state = "START" THEN "INHEADER" ELSE tj.d.global_state
               failed == [[tj.d EXCEPT !.read_markers = "my"] EXCEPT !.global_state = state]
               ready == [tj.d EXCEPT !.global_state = "READY"]
    <3>1. failed \in Decompressors /\ ready \in Decompressors
      BY <1>1 DEF Decompressors
    <3>2. \/ /\ Raise([tj EXCEPT !.d = failed])
             /\ \/ tj.d.global_state \notin {"START", "INHEADER"}
                \/ call.what.fails = "start"
          \/ tj' = [tj EXCEPT !.d = ready] /\ Goto("decoded") /\ call.what.fails # "start"
      <4>1. [tj EXCEPT !.d.global_state = "READY"] = [tj EXCEPT !.d = ready]
        BY <1>1 DEF Instances, Decompressors
      <4> QED BY <1>8, <4>1 DEF Decode
    <3> QED BY <3>1, <3>2
  <2>3. i \in Instances /\ i.init = tj.init /\ i.warning = tj.warning
    BY <1>1, <2>2 DEF Instances
  <2>4. CASE /\ Raise(i)
             /\ tj.d.global_state \notin {"START", "INHEADER"} \/ call.what.fails = "start"
    <3>1. call.fit => call.what.fails # "no"
      BY <1>3, <2>1, <2>4
    <3> QED BY <1>4, <2>3, <2>4, <3>1
  <2>5. CASE tj' = i /\ Goto("decoded") /\ call.what.fails # "start"
    <3>1. /\ call'.at = "decoded" /\ call'.what = call.what /\ call'.fit = call.fit
      BY <1>1, <2>5, GotoFields
    <3>2. call.fit => (ToldOfHeader /\ ToldOfRows /\ ToldOfResults)'
      BY <1>3, <2>3, <2>5, <3>1
         DEF ToldOfHeader, ToldOfRows, ToldOfResults, At, AtAny, Written
    <3> QED BY <1>1, <2>3, <2>5, <3>1, <3>2, GotoAnswered DEF Steps
  <2> QED BY <2>2, <2>4, <2>5
<1> QED BY <1>6, <1>7, <1>8

\* A result is on its way, and what has been found out of the file stays.
LEMMA WriteAnswered ==
    ASSUME Kept, Answered, ~At("idle"), ~At("bailout"),
           AtAny({"destination", "startCompress", "write"}), Is(Compressing) \/ Transforms,
           call'.at \in {"startCompress", "write", "transformed"},
           call'.what = call.what, call'.fit = call.fit, call'.k = call.k,
           tj'.init = tj.init, tj'.d = tj.d, tj'.warning = tj.warning,
           call'.at = "write" => At("write") \/ Transforms \/ call.what.fails # "start",
           Transforms /\ call'.at \in {"startCompress", "write"} =>
               ~call.what.t[call.k].nooutput,
           Transforms /\ call'.at = "transformed" /\ call.what.fails = "rows" =>
               call.what.t[call.k].nooutput
    PROVE  Answered'
<1>1. ToldOfHeader'
  BY DEF ToldOfHeader, At, AtAny
<1>2. Told => ToldOfRows'
  BY DEF Told, ToldOfRows, HeaderKnown, At, AtAny, Is, Written, Stopping, Limited, Forgetful,
         flags, file, Transforms
<1>3. Told => ToldOfResults'
  BY DEF Told, ToldOfRows, ToldOfResults, At, AtAny, Is, Written, Transforms
<1> QED BY <1>1, <1>2, <1>3, GotoAnswered DEF Steps

\* jpeg_mem_dest_tj() and nothing else.
LEMMA TakeDestinationLeaves ==
    ASSUME Typed, call \in Under, TakeDestination
    PROVE  /\ Transforms => ~call.what.t[call.k].nooutput
           /\ \E c : tj' = [tj EXCEPT !.c = c]
           /\ call'.at = "startCompress" /\ call'.what = call.what
           /\ call'.fit = call.fit /\ call'.k = call.k
<1> DEFINE given == IF Transforms THEN NULL ELSE call.given
           reused == tj.c.buffer = given /\ given # NULL /\ "NOREALLOC" \notin flags
           size == IF reused THEN tj.c.bufsize ELSE Worst
           Into(c) == tj' = [tj EXCEPT !.c = c]
           Onward == /\ call'.at = "startCompress" /\ call'.what = call.what
                     /\ call'.fit = call.fit /\ call'.k = call.k
<1>1. At("destination") /\ (Transforms => ~call.what.t[call.k].nooutput)
  BY TakeDestinationSteps DEF Transforms
<1>2. CASE given # NULL
  <2>1. /\ Into(dest(given, size, tj.c.newbuffer))
        /\ call' = [call EXCEPT !.at = "startCompress"]
    BY <1>2, TakeDestinationSteps DEF Transforms
  <2>2. Onward
    BY <2>1 DEF Under
  <2> QED BY <1>1, <2>1, <2>2
<1>3. CASE given = NULL
  <2>1. PICK a \in FreeAddresses :
            /\ Into(dest(a, 1, a))
            /\ call' = [call EXCEPT !.at = "startCompress", !.jpegBuf = a]
    BY <1>3, TakeDestinationSteps DEF Transforms
  <2>2. Onward
    BY <2>1 DEF Under
  <2> QED BY <1>1, <2>1, <2>2
<1> QED BY <1>2, <1>3

LEMMA TakeDestinationAnswered ==
    ASSUME Kept, Answered, TakeDestination PROVE Answered'
<1>1. At("destination")
  BY DEF TakeDestination
<1>2. /\ call \in Under /\ ~At("idle") /\ ~At("bailout")
      /\ tj \in Instances /\ Typed /\ (Is(Compressing) \/ Transforms)
  BY <1>1, TypedFields DEF At, Kept, Placed, AtAny
<1>3. /\ Transforms => ~call.what.t[call.k].nooutput
      /\ \E c : tj' = [tj EXCEPT !.c = c]
      /\ call'.at = "startCompress" /\ call'.what = call.what
      /\ call'.fit = call.fit /\ call'.k = call.k
  BY <1>1, <1>2, TakeDestinationLeaves
<1>4. tj'.init = tj.init /\ tj'.d = tj.d /\ tj'.warning = tj.warning
  BY <1>2, <1>3 DEF Instances
<1> QED BY <1>1, <1>2, <1>3, <1>4, WriteAnswered DEF AtAny, At

LEMMA PassOverAnswered == ASSUME Kept, Answered, PassOver PROVE Answered'
<1>1. At("destination") /\ Transforms
  BY DEF PassOver, Transforms
<1>2. call \in Under /\ ~At("idle") /\ ~At("bailout")
  BY <1>1, TypedFields DEF At, Kept
<1>3. /\ call'.at = "transformed" /\ call'.what = call.what /\ call'.fit = call.fit
      /\ call'.k = call.k /\ tj' = tj /\ call.what.t[call.k].nooutput
  BY <1>2, GotoFields DEF PassOver
<1> QED BY <1>1, <1>2, <1>3, WriteAnswered DEF AtAny, At

LEMMA StartCompressAnswered == ASSUME Kept, Answered, StartCompress PROVE Answered'
<1>1. /\ At("startCompress") /\ call \in Under /\ ~At("idle") /\ ~At("bailout")
      /\ tj \in Instances /\ tj.c \in Compressors /\ (Is(Compressing) \/ Transforms)
  BY TypedFields DEF StartCompress, At, Kept, Placed, AtAny
<1>2. CASE call.what.fails = "start" /\ ~Transforms /\ Raise(tj)
  <2>1. Failing(call.what)
    BY <1>1, <1>2 DEF Failing, Is, Compressing
  <2> QED BY <1>1, <1>2, <2>1, RaiseAnswered
<1>3. CASE StartCompress /\ (call.what.fails # "start" \/ Transforms)
  <2>1. /\ tj' = [tj EXCEPT !.c.global_state = "WORKING"]
        /\ call'.at = "write" /\ call'.what = call.what /\ call'.fit = call.fit
        /\ call'.k = call.k
    BY <1>1, <1>3 DEF StartCompress, Under, Transforms
  <2>2. tj'.init = tj.init /\ tj'.d = tj.d /\ tj'.warning = tj.warning
    BY <1>1, <2>1 DEF Instances
  <2>3. call.fit /\ Transforms => ~call.what.t[call.k].nooutput
    BY <1>1 DEF Answered, Told, ToldOfResults, AtAny, At
  <2>4. ToldOfHeader'
    BY <2>1 DEF ToldOfHeader, At, AtAny
  <2>5. Told => ToldOfRows'
    BY <1>1, <2>1, <2>2
       DEF Told, ToldOfRows, HeaderKnown, At, AtAny, Is, Written, Stopping, Limited, Forgetful,
           flags, file, Transforms
  <2>6. Told => ToldOfResults'
    BY <1>1, <1>3, <2>1, <2>2
       DEF Told, ToldOfRows, ToldOfResults, At, AtAny, Is, Written, Transforms
  <2> QED BY <1>1, <2>1, <2>2, <2>4, <2>5, <2>6, GotoAnswered DEF Steps
<1>4. call.what.fails = "start" /\ ~Transforms => Raise(tj)
  BY DEF StartCompress, Transforms
<1> QED BY <1>2, <1>3, <1>4

LEMMA EnlargeAnswered == ASSUME Kept, Answered, Enlarge PROVE Answered'
<1>1. /\ At("write") /\ call \in Under /\ ~At("idle") /\ ~At("bailout")
      /\ tj \in Instances /\ (Is(Compressing) \/ Transforms)
  BY TypedFields DEF Enlarge, At, Kept, Placed, AtAny
<1>2. PICK a \in FreeAddresses : /\ tj' = [tj EXCEPT !.c = Enlarged(tj.c, a)]
                                 /\ UNCHANGED call
  BY EnlargeOwn DEF Enlarge, Kept
<1>3. tj'.init = tj.init /\ tj'.d = tj.d /\ tj'.warning = tj.warning
  BY <1>1, <1>2 DEF Instances
<1>4. /\ call'.at = "write" /\ call'.what = call.what /\ call'.fit = call.fit
      /\ call'.k = call.k
  BY <1>1, <1>2 DEF At
<1>5. ToldOfHeader'
  BY <1>4 DEF ToldOfHeader, At, AtAny
<1>6. Told => ToldOfRows'
  BY <1>1, <1>3, <1>4
     DEF Told, ToldOfRows, HeaderKnown, At, AtAny, Is, Written, Stopping, Limited, Forgetful,
         flags, file, Transforms
<1>7. Told => ToldOfResults'
  BY <1>1, <1>3, <1>4 DEF Told, ToldOfResults, At, AtAny, Is, Written, Transforms
<1> QED BY <1>1, <1>3, <1>4, <1>5, <1>6, <1>7, GotoAnswered DEF Steps

LEMMA FinishCompressAnswered == ASSUME Kept, Answered, FinishCompress PROVE Answered'
<1>1. /\ At("write") /\ call \in Under /\ ~At("idle") /\ ~At("bailout") /\ call.retval = 0
      /\ call.image = NoFile /\ call.what \in Calls
      /\ tj \in Instances /\ (Is(Compressing) \/ Transforms)
  BY TypedFields DEF FinishCompress, At, Kept, Placed, AtAny
<1>2. CASE call.what.fails = "rows" /\ Raise(tj)
  <2>1. call.what.name # "tjDecompressHeader3"
    BY <1>1 DEF Is, Compressing, Transforms
  <2>2. Failing(call.what)
    BY <1>2, <2>1 DEF Failing
  <2> QED BY <1>1, <1>2, <2>2, RaiseAnswered
<1>3. CASE FinishCompress /\ call.what.fails # "rows"
  <2>1. /\ tj' = [tj EXCEPT !.c.global_state = "START"]
        /\ call'.at = (IF Transforms THEN "transformed" ELSE "bailout")
        /\ call'.what = call.what /\ call'.fit = call.fit /\ call'.k = call.k
        /\ call'.retval = call.retval /\ call'.image = call.image
    BY <1>1, <1>3 DEF FinishCompress, Under, Transforms
  <2>2. tj'.init = tj.init /\ tj'.d = tj.d /\ tj'.warning = tj.warning
    BY <1>1, <2>1 DEF Instances
  <2>3. CASE Transforms
    BY <1>1, <1>3, <2>1, <2>2, <2>3, WriteAnswered DEF AtAny, At
  <2>4. CASE ~Transforms
    <3>1. call.fit => ~tj.warning /\ call.what.fails # "start"
      BY <1>1, <2>4 DEF Answered, Told, ToldOfResults, Written, AtAny, At
    <3>2. call.what.fails \in {"no", "start", "rows"} /\ ~Is(Decompressing)
      BY <1>1, <2>4, CallsAssumption DEF Is, Compressing, Decompressing
    <3>3. call.fit => Outcome' = [retval |-> 0, image |-> NoFile]
      BY <1>1, <2>1, <2>2, <3>1 DEF Outcome
    <3>4. call.fit => Outcome' = Promised(call.what)
      BY <1>1, <1>3, <3>1, <3>2, <3>3, OnlyLuck
    <3> QED BY <1>1, <2>1, <2>2, <2>4, <3>4, BailAnswered
  <2> QED BY <2>3, <2>4
<1> QED BY <1>2, <1>3 DEF FinishCompress

LEMMA NextResultAnswered == ASSUME Kept, Answered, NextResult PROVE Answered'
<1>1. /\ At("transformed") /\ call \in Under /\ ~At("idle") /\ ~At("bailout")
      /\ call.retval = 0 /\ call.what \in Calls /\ Typed /\ Transforms
      /\ tj \in Instances /\ call.what.t \in Seq(Results) /\ call.k \in DOMAIN call.what.t
      /\ call.what.name = "tjTransform"
  BY TypedFields DEF NextResult, At, Kept, Placed, AtAny, Transforms, Is
<1>2. /\ call.what.fails = "rows" => \E j \in DOMAIN call.what.t : ~call.what.t[j].nooutput
      /\ call.what.fails \in {"no", "start", "rows"}
  BY <1>1, CallsAssumption
<1>3. Is(Whole)
  BY <1>1 DEF Is, Whole, Decompressing
<1>4. call.fit => /\ HeaderKnown
                  /\ call.what.fails # "start" /\ ~(Limited /\ file.scans = "many")
                  /\ tj.warning <=> (file.warns = "header" /\ ~Forgetful) \/ file.warns = "scan"
                  /\ call.what.fails = "rows" =>
                         /\ \A j \in DOMAIN call.what.t : j < call.k => call.what.t[j].nooutput
                         /\ call.what.t[call.k].nooutput
  BY <1>1 DEF Answered, Told, ToldOfRows, ToldOfResults, Written, AtAny, At
<1>5. DOMAIN call.what.t = 1 .. Len(call.what.t) /\ Len(call.what.t) \in Nat /\ call.k \in Nat
  BY <1>1
<1>6. CASE /\ call.k < Len(call.what.t) /\ tj' = tj
           /\ call'.at = "destination" /\ call'.k = call.k + 1
           /\ call'.what = call.what /\ call'.fit = call.fit
  <2>1. call.fit /\ call.what.fails = "rows" =>
            \A j \in DOMAIN call.what.t : j < call.k + 1 => call.what.t[j].nooutput
    <3> SUFFICES ASSUME call.fit, call.what.fails = "rows", NEW j \in DOMAIN call.what.t,
                        j < call.k + 1
                 PROVE  call.what.t[j].nooutput
      OBVIOUS
    <3>1. j < call.k \/ j = call.k
      BY <1>5
    <3> QED BY <1>4, <3>1
  <2>2. ToldOfHeader'
    BY <1>6 DEF ToldOfHeader, At, AtAny
  <2>3. call.fit => ToldOfRows'
    BY <1>4, <1>6
       DEF ToldOfRows, HeaderKnown, At, AtAny, Is, Written, Stopping, Limited, Forgetful,
           flags, file, Transforms
  <2>4. call.fit => ToldOfResults'
    <3>1. ~Is(Compressing)
      BY <1>1 DEF Is, Compressing
    <3> QED BY <1>6, <2>1, <3>1 DEF ToldOfResults, At, AtAny, Is, Written, Transforms
  <2> QED BY <1>1, <1>6, <2>2, <2>3, <2>4, GotoAnswered DEF Steps
<1>7. CASE /\ ~(call.k < Len(call.what.t)) /\ tj' = [tj EXCEPT !.d = jpeg_abort_decompress(@)]
           /\ call'.at = "bailout" /\ call'.image = tj.d.image /\ call'.retval = 0
           /\ call'.what = call.what /\ call'.fit = call.fit
  <2>1. tj'.init = tj.init /\ tj'.warning = tj.warning
    BY <1>1, <1>7, AbortLeaves
  <2>2. call.fit => call.what.fails = "no"
    <3>1. \A j \in DOMAIN call.what.t : j < call.k \/ j = call.k
      BY <1>5, <1>7
    <3> QED BY <1>2, <1>4, <3>1
  <2>3. Outcome' = [retval |-> IF tj.warning THEN -1 ELSE 0,
                    image |-> IF (IF tj.warning THEN -1 ELSE 0) = 0 THEN tj.d.image ELSE NoFile]
    BY <1>7, <2>1 DEF Outcome
  <2>4. call.fit => Outcome' = Promised(call.what)
    BY <1>1, <1>3, <1>4, <2>2, <2>3, OnlyWarned
  <2> QED BY <1>1, <1>7, <2>1, <2>4, BailAnswered
<1>8. call.retval = 0 /\ NextResult
  BY <1>1
<1> QED BY <1>1, <1>5, <1>6, <1>7, <1>8 DEF NextResult, Under

LEMMA BailoutAnswered == ASSUME Kept, Answered, Bailout PROVE Answered'
<1>1. /\ At("bailout") /\ ~At("idle") /\ call.what \in Calls /\ Typed
  BY TypedFields DEF Bailout, At, Kept
<1>2. call.fit => Outcome = Promised(call.what)
  BY <1>1 DEF Answered, Told
<1>3. call.fit => [retval |-> last'.retval, image |-> last'.image] = Promised(call.what)
  BY <1>1, <1>2, BailoutLeaves DEF Outcome
<1>4. AnswersAsFresh'
  BY <1>1, <1>3, BailoutLeaves, EndsAsPromised
<1>5. At("idle")'
  BY <1>1, BailoutLeaves DEF At, Idle
<1> QED BY <1>4, <1>5 DEF Answered

LEMMA BetweenAnswered == ASSUME Kept, Answered, Free \/ Alloc \/ Renew PROVE Answered'
  BY DEF Free, Alloc, Renew, Answered, AnswersAsFresh, At

\* Init, and every step.
LEMMA NextAnswered == Kept /\ Answered /\ [Next]_vars => Answered'
<1> SUFFICES ASSUME Kept, Answered, [Next]_vars PROVE Answered'
  OBVIOUS
<1>1. CASE UNCHANGED vars
  <2>1. tj' = tj /\ call' = call /\ last' = last
    BY <1>1 DEF vars
  <2> QED BY <2>1
          DEF Answered, AnswersAsFresh, Promised, Needs, Told, ToldOfHeader, ToldOfRows,
              ToldOfResults, HeaderKnown, Outcome, At, AtAny, Is, Written, Stopping, Limited,
              Forgetful, Transforms, flags, file
<1> QED BY <1>1, CallAnswered, SourceAnswered, ReadHeaderAnswered, CheckHeaderAnswered,
           StartDecompressAnswered, ReadRowsAnswered, PlanesAnswered, TakeDestinationAnswered,
           PassOverAnswered, StartCompressAnswered, EnlargeAnswered, FinishCompressAnswered,
           NextResultAnswered,
           BailoutAnswered, BetweenAnswered DEF Next

\* A call that begins with a clean instance succeeds, fails and reads what it would on a new
\* one, for every application and every file (each tj...() function of turbojpeg.c).
THEOREM CallsAnswerAsFresh == Spec => []AnswersAsFresh
<1>1. Init => Answered
  BY DEF Init, Answered, AnswersAsFresh, Nothing, Idle, At
<1>2. Kept /\ Answered /\ [Next]_vars => Answered'
  BY NextAnswered
<1>3. Answered => AnswersAsFresh
  BY DEF Answered
<1> QED BY <1>1, <1>2, <1>3, KeptHolds, PTL DEF Spec

=============================================================================
