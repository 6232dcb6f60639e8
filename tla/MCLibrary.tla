---- MODULE MCLibrary ----
(* The wrappers of the library, which share no state: `which` names the one that *)
(* moves in a behaviour, so that their state spaces add up. The algorithms have  *)
(* no state: `input` ranges over what they are given.                            *)
EXTENDS LibraryProperties, ThreadSignal, SingleInstance, Process,
        SocketObject, SocketStream, RegistryKey, RegistryValue, FileObject,
        MemoryBuffer, StopWatch, Variant, Codecs, TextFiles, Settings, Paths, ProcessQueries, Maths

VARIABLES which, input

CONSTANTS p1, p2

\* ---- values of the constants
TwoPids == {p1, p2}
OneWow64 == {p2}
TwoLayouts == {[p \in 0..1 |-> IF p = 0 THEN "r" ELSE "none"], [p \in 0..1 |-> "none"],
               [p \in 0..1 |-> IF p = 0 THEN "rw" ELSE "free"]}
TwoMessages == <<<<1, 2, 3>>, <<4, 5>>>>
ThreeDescriptors == 1..3
TwoKeyNames == 1..2
FourTexts == {<<>>, <<1>>, <<1, 2>>, <<2, 1, 1>>}
FiveLists == {<<>>, <<<<1>>>>, <<<<1>>, <<2, 1>>>>, <<<<>>, <<1>>>>, <<<<1>>, <<>>, <<2>>>>}
FourData == {<<>>, <<0>>, <<1, 0>>, <<1, 2, 3>>}
TwoBytes == {0, 1}
OneByte == {1}
TwoDigits == {1, 2}
OneLetter == {3}

\* ---- inputs of the algorithms
Lower == [c \in {3} |-> 1]
CodePage == <<<<1>>, <<5, 6>>, <<7, 8, 9>>>>
LowerA == [c \in {"A"} |-> "a"]
UrlCharacters == {10, 32, 37, 43, 65, 97, 233, 300, 5000}
Utf8Of == [c \in {65, 233, 8364} |->
             IF c = 65 THEN <<65>> ELSE IF c = 233 THEN <<195, 169>> ELSE <<226, 130, 172>>]
Encodings == Mapped \union {"UTF8_NOBOM"}
PathCharacters == {"a", ".", "\\", "/", " "}
ShortPaths == BoundedSeq({"a", "\\", "/"}, 3)
CasedNames == BoundedSeq({"a", "A", "\\"}, 3)
Devices == [d \in {"C", "D"} |-> IF d = "C" THEN <<"\\", "a">> ELSE <<"\\", "a", "a">>]
Region(b, n, readable, kind) == [base |-> b, size |-> n, readable |-> readable, kind |-> kind]
ThreeRegions(x, y, k) == <<Region(1, 2, x, "p"), Region(3, 2, y, k), Region(5, 1, TRUE, "p")>>
Modules == <<[name |-> "m", base |-> 1, size |-> 2], [name |-> "n", base |-> 3, size |-> 3]>>
Snapshot == {<<p, q>> : p, q \in [pid : {7, 8}, parent : {0, 7}, name : {<<1>>, <<3>>, <<2>>}, opens : BOOLEAN]}
Threads == BoundedSeq([tid : {1, 2}, owner : {7, 8}], 3)
SizeCalls == BoundedSeq([bytes : {-1, 0, 1, 999, 1000, 1023, 1024, 2000000}, unit : {1000, 1024}], 2)
Crcs == [bits : {8, 16}, poly : {1, 2}]

TextInputs == [of : {"text"}, s : BoundedSeq(1..3, 4), t : BoundedSeq(1..3, 2) \ {<<>>},
               u : {<<>>, <<1>>, <<3, 3>>, <<2, 1>>}]
ListInputs == [of : {"list"}, list : BoundedSeq({<<>>, <<1>>, <<1, 2>>}, 4), max : 2..10]
HexInputs == [of : {"hex"}, bytes : BoundedSeq({0, 10, 200}, 3), at : 0..6]
UrlInputs == [of : {"url"}, text : BoundedSeq(UrlCharacters, 3)]
DumpInputs == [of : {"dump"}, data : BoundedSeq({1, 65}, 5) \ {<<>>}, column : 1..3]
SizeInputs == [of : {"sizes"}, calls : SizeCalls]
CrcInputs == [of : {"crc"}, list : BoundedSeq(Crcs, 2), wanted : Crcs]
FileInputs == [of : {"file"}, text : BoundedSeq(DOMAIN Utf8Of, 3), detected : Encodings]
EntryInputs == [of : {"entries"}, entries : BoundedSeq(1..3, 3), stops : SUBSET (1..3)]
SettingInputs == [of : {"setting"}, length : 0..600]
PathInputs == [of : {"path"}, path : BoundedSeq(PathCharacters, 4)]
JoinInputs == [of : {"paths"}, left : ShortPaths, right : ShortPaths, sep : {"\\", "/"}]
CasedInputs == [of : {"cased"}, left : CasedNames, right : CasedNames]
BlockInputs == [of : {"block"}, block : BoundedSeq({1, 2}, 4), behind : {<<1, 2>>, <<2, 2>>, <<1, 1>>},
                pattern : BoundedSeq({1, 2, -1}, 2) \ {<<>>}]
ScanInputs ==
  [of : {"scan"}, regions : {ThreeRegions(x, y, k) : x, y \in BOOLEAN, k \in {"p", "i"}},
   memory : [1..5 -> {1, 2}], pattern : {<<1>>, <<1, 2>>, <<-1, 1>>}, name : {"m", "n", "x"}]
ChainInputs == [of : {"chain"}, pointers : UNION {[d -> 1..4] : d \in SUBSET (1..3)}, address : 0..3,
                offsets : BoundedSeq({0, 1}, 3)]
NameInputs == [of : {"names"}, processes : Snapshot, room : 0..2]
ThreadInputs == [of : {"threads"}, processes : {<<>>, <<[pid |-> 7, parent |-> 0]>>}, threads : Threads]
PieceInputs == [of : {"pieces"}, items : 0..40, pieces : 1..20]
Base64Inputs == [of : {"base64"}, n : 0..300]

TextQuestions == UNION {TextInputs, ListInputs, HexInputs, UrlInputs, DumpInputs, SizeInputs,
                        CrcInputs, FileInputs, EntryInputs, SettingInputs}
AlgorithmQuestions == UNION {PathInputs, JoinInputs, CasedInputs, BlockInputs, ScanInputs,
                             ChainInputs, NameInputs, ThreadInputs, PieceInputs, Base64Inputs}
Questions == TextQuestions \union AlgorithmQuestions

\* ---- one component, or one input, at a time
wrapperVars == <<lockVars, signalVars, instanceVars, processVars, memoryVars, injectVars, hookVars,
                 socketVars, streamVars, registryVars, valueVars, mappingVars, fileVars, bufferVars,
                 stopWatchVars, variantVars, singletonVars, scopedVars>>

Wrappers == {"lock", "signal", "instance", "process", "memory", "inject", "hook", "socket", "stream",
             "key", "value", "mapping", "file", "buffer", "stopwatch", "variant",
             "singleton", "scoped"}

\* A wrapper that does not move starts in one of its initial states only.
LibraryInit ==
  /\ which \in Wrappers \union {"input"}
  /\ SignalInit /\ (which # "signal" => \A s \in Signals : ~signalUp[s])
  /\ MemoryInit /\ (which # "memory" => \A p \in Pages : layout[p] = "none")
  /\ HookInit /\ (which # "hook" => \A i \in AcceptedTypes : hookTable[i] = 0)
  /\ ValueInit /\ (which # "value" => valueKind = "fixed")
  /\ LockInit /\ InstanceInit /\ ProcessInit /\ InjectInit /\ SocketInit /\ StreamInit
  /\ RegistryInit /\ MappingInit /\ FileInit /\ BufferInit /\ StopWatchInit /\ VariantInit
  /\ SingletonInit /\ ScopedInit
  /\ input \in IF which = "input" THEN Questions ELSE {[of |-> "nothing"]}

LibraryNext ==
  /\ UNCHANGED <<which, input>>
  /\ \/ which = "lock" /\ LockNext
        /\ UNCHANGED <<signalVars, instanceVars, processVars, memoryVars, injectVars, hookVars, socketVars,
                       streamVars, registryVars, valueVars, mappingVars, fileVars, bufferVars,
                       stopWatchVars, variantVars, singletonVars, scopedVars>>
     \/ which = "signal" /\ SignalNext
        /\ UNCHANGED <<lockVars, instanceVars, processVars, memoryVars, injectVars, hookVars, socketVars,
                       streamVars, registryVars, valueVars, mappingVars, fileVars, bufferVars,
                       stopWatchVars, variantVars, singletonVars, scopedVars>>
     \/ which = "instance" /\ InstanceNext
        /\ UNCHANGED <<lockVars, signalVars, processVars, memoryVars, injectVars, hookVars, socketVars,
                       streamVars, registryVars, valueVars, mappingVars, fileVars, bufferVars,
                       stopWatchVars, variantVars, singletonVars, scopedVars>>
     \/ which = "process" /\ ProcessNext
        /\ UNCHANGED <<lockVars, signalVars, instanceVars, memoryVars, injectVars, hookVars, socketVars,
                       streamVars, registryVars, valueVars, mappingVars, fileVars, bufferVars,
                       stopWatchVars, variantVars, singletonVars, scopedVars>>
     \/ which = "memory" /\ MemoryNext
        /\ UNCHANGED <<lockVars, signalVars, instanceVars, processVars, injectVars, hookVars, socketVars,
                       streamVars, registryVars, valueVars, mappingVars, fileVars, bufferVars,
                       stopWatchVars, variantVars, singletonVars, scopedVars>>
     \/ which = "inject" /\ InjectNext
        /\ UNCHANGED <<lockVars, signalVars, instanceVars, processVars, memoryVars, hookVars, socketVars,
                       streamVars, registryVars, valueVars, mappingVars, fileVars, bufferVars,
                       stopWatchVars, variantVars, singletonVars, scopedVars>>
     \/ which = "hook" /\ HookNext
        /\ UNCHANGED <<lockVars, signalVars, instanceVars, processVars, memoryVars, injectVars, socketVars,
                       streamVars, registryVars, valueVars, mappingVars, fileVars, bufferVars,
                       stopWatchVars, variantVars, singletonVars, scopedVars>>
     \/ which = "socket" /\ SocketNext
        /\ UNCHANGED <<lockVars, signalVars, instanceVars, processVars, memoryVars, injectVars, hookVars,
                       streamVars, registryVars, valueVars, mappingVars, fileVars, bufferVars,
                       stopWatchVars, variantVars, singletonVars, scopedVars>>
     \/ which = "stream" /\ StreamNext
        /\ UNCHANGED <<lockVars, signalVars, instanceVars, processVars, memoryVars, injectVars, hookVars,
                       socketVars, registryVars, valueVars, mappingVars, fileVars, bufferVars,
                       stopWatchVars, variantVars, singletonVars, scopedVars>>
     \/ which = "key" /\ RegistryNext
        /\ UNCHANGED <<lockVars, signalVars, instanceVars, processVars, memoryVars, injectVars, hookVars,
                       socketVars, streamVars, valueVars, mappingVars, fileVars, bufferVars, stopWatchVars,
                       variantVars, singletonVars, scopedVars>>
     \/ which = "value" /\ ValueNext
        /\ UNCHANGED <<lockVars, signalVars, instanceVars, processVars, memoryVars, injectVars, hookVars,
                       socketVars, streamVars, registryVars, mappingVars, fileVars, bufferVars,
                       stopWatchVars, variantVars, singletonVars, scopedVars>>
     \/ which = "mapping" /\ MappingNext
        /\ UNCHANGED <<lockVars, signalVars, instanceVars, processVars, memoryVars, injectVars, hookVars,
                       socketVars, streamVars, registryVars, valueVars, fileVars, bufferVars, stopWatchVars,
                       variantVars, singletonVars, scopedVars>>
     \/ which = "file" /\ FileNext
        /\ UNCHANGED <<lockVars, signalVars, instanceVars, processVars, memoryVars, injectVars, hookVars,
                       socketVars, streamVars, registryVars, valueVars, mappingVars, bufferVars,
                       stopWatchVars, variantVars, singletonVars, scopedVars>>
     \/ which = "buffer" /\ BufferNext
        /\ UNCHANGED <<lockVars, signalVars, instanceVars, processVars, memoryVars, injectVars, hookVars,
                       socketVars, streamVars, registryVars, valueVars, mappingVars, fileVars,
                       stopWatchVars, variantVars, singletonVars, scopedVars>>
     \/ which = "stopwatch" /\ StopWatchNext
        /\ UNCHANGED <<lockVars, signalVars, instanceVars, processVars, memoryVars, injectVars, hookVars,
                       socketVars, streamVars, registryVars, valueVars, mappingVars, fileVars, bufferVars,
                       variantVars, singletonVars, scopedVars>>
     \/ which = "variant" /\ VariantNext
        /\ UNCHANGED <<lockVars, signalVars, instanceVars, processVars, memoryVars, injectVars, hookVars,
                       socketVars, streamVars, registryVars, valueVars, mappingVars, fileVars, bufferVars,
                       stopWatchVars, singletonVars, scopedVars>>
     \/ which = "singleton" /\ SingletonNext
        /\ UNCHANGED <<lockVars, signalVars, instanceVars, processVars, memoryVars, injectVars, hookVars,
                       socketVars, streamVars, registryVars, valueVars, mappingVars, fileVars, bufferVars,
                       stopWatchVars, variantVars, scopedVars>>
     \/ which = "scoped" /\ ScopedNext
        /\ UNCHANGED <<lockVars, signalVars, instanceVars, processVars, memoryVars, injectVars, hookVars,
                       socketVars, streamVars, registryVars, valueVars, mappingVars, fileVars, bufferVars,
                       stopWatchVars, variantVars, singletonVars>>

LibrarySpec == LibraryInit /\ [][LibraryNext]_<<which, input, wrapperVars>>

\* ---- properties

\* Each wrapper's variables keep their types.
LibraryTypeOK ==
  /\ LockTypeOK /\ SignalTypeOK /\ InstanceTypeOK /\ ProcessTypeOK /\ MemoryTypeOK /\ InjectTypeOK
  /\ HookTypeOK /\ SocketTypeOK /\ StreamTypeOK /\ RegistryTypeOK /\ ValueTypeOK /\ MappingTypeOK
  /\ FileTypeOK /\ BufferTypeOK /\ StopWatchTypeOK /\ VariantTypeOK
  /\ SingletonTypeOK /\ ScopedTypeOK

\* The names and values a registry object gives the program are those of the key the program
\* opened with it, all of them and whole, unless the key changed meanwhile or the program has
\* since asked the object whether another key exists, which leaves it on that one.
RegistryFaithful == []SubKeyNamesPath /\ []ListingComplete /\ ReadsWhole

\* Each conversion of a text keeps what its own law says it keeps: splitting and joining,
\* replacing, trimming, multi-strings, the ANSI page, hexadecimal and URL text, dumps, text
\* files and settings. (The conversion to UTF-8 keeps nothing: DocumentedResults.)
TextsLawful ==
  CASE input.of = "text" ->
         /\ SplitJoins(input.s, input.t) /\ ReplaceIsSplitJoin(input.s, input.t, input.u)
         /\ TrimLongest(input.s, ToSet(input.t)) /\ ClosestLongest(input.s, input.t, input.u)
         /\ AnsiWhole(input.s, CodePage) /\ AffixesAgree(input.s, input.t, Lower)
    [] input.of = "list" ->
         /\ MultiStringKeeps(input.list)
         /\ <<>> \notin ToSet(input.list) => SectionNamesWhole(input.list, input.max)
    [] input.of = "hex" -> HexRoundTrip(input.bytes, input.at)
    [] input.of = "url" -> UrlRoundTrip(input.text)
    [] input.of = "dump" -> DumpWhole(input.data, input.column)
    [] input.of = "sizes" -> UnitsOfFirst(input.calls)
    [] input.of = "crc" -> ChecksumAsAsked(input.list, input.wanted) /\ DigestsDiffer
    [] input.of = "file" -> TextRoundTrip(input.text, input.detected, Utf8Of)
    [] input.of = "entries" -> IteratesInOrder(input.entries, input.stops)
    [] input.of = "setting" -> ValuesReadWhole(input.length)
    [] OTHER -> TRUE

\* Paths are taken apart, joined and compared by their names; searches of memory find every
\* match; queries of processes agree with each other; a set whose last piece has a place to
\* begin is divided without a loss.
AlgorithmsLawful ==
  CASE input.of = "path" ->
         /\ PartsMakePath(input.path) /\ CorrectionValid(input.path, "a")
         /\ DriveOfDevice(input.path, <<"C", "D">>, Devices)
    [] input.of = "paths" -> NamesKept(input.left, input.right, input.sep)
    [] input.of = "cased" -> EqualPathsAgree(input.left, input.right, LowerA)
    [] input.of = "block" -> PatternFound(input.block, input.behind, input.pattern)
    [] input.of = "scan" ->
         ScanCovers(input.regions, {"p"}, input.memory, <<1, 1>>, input.pattern, Modules, input.name)
    [] input.of = "chain" -> ChainComposes(input.pointers, input.address, input.offsets)
    [] input.of = "names" ->
         input.processes[1].pid # input.processes[2].pid => NamesAgree(input.processes, input.room, Lower)
    [] input.of = "threads" -> \A pid \in {7, 8} : ThreadsAgree(input.processes, input.threads, pid)
    [] input.of = "pieces" -> PiecesPartition(input.items, input.pieces, 65536)
    [] input.of = "base64" -> Base64SizesFit(input.n, 1024)
    [] OTHER -> TRUE
====
