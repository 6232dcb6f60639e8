---- MODULE ProcessQueries ----
(* What vu asks of other processes, on snapshots of them: pattern search in a     *)
(* block and through the regions of a process, pointer chains, and the lists of   *)
(* processes, threads and modules. Memory maps addresses to bytes; a snapshot is  *)
(* a sequence of records.                                                         *)
EXTENDS Strings

AnyByte == -1        \* a token of a pattern that is not two hexadecimal digits
Failed == -1     \* (ulong)-1, a read that fails
NoModule == [base |-> 0, size |-> 0]

\* to_pattern and find_pattern, from a place of the block on: the bytes behind the block
\* are compared too, those a wildcard stands for are not looked at.
MatchesAt(block, behind, pattern, i) ==
  \A j \in DOMAIN pattern : pattern[j] # AnyByte => (block \o behind)[i + j - 1] = pattern[j]
FindPatternNext(block, behind, pattern, first_match_only) ==
  LET all == Picked([i \in DOMAIN block |-> i], {i \in DOMAIN block : i > 1 /\ MatchesAt(block, behind, pattern, i)})
  IN IF first_match_only /\ all # <<>> THEN <<all[1]>> ELSE all
FindPattern(block, behind, pattern, first_match_only) ==
  LET all == Picked([i \in DOMAIN block |-> i], {i \in DOMAIN block : MatchesAt(block, behind, pattern, i)})
  IN IF first_match_only /\ all # <<>> THEN <<all[1]>> ELSE all

\* get_memories: the regions whose state, type and protection were asked for.
GetMemories(regions, asked) ==
  Picked(regions, {i \in DOMAIN regions : regions[i].base # 0 /\ regions[i].kind \in asked})

\* process_scan_memory: a region counts when its base lies in the module, or just behind
\* it; one that cannot be read is passed over; `behind` is what follows a copied block.
InModule(r, module) == module = NoModule \/ r.base \in module.base..module.base + module.size
BytesOf(r, memory) == [i \in 1..r.size |-> memory[r.base + i - 1]]
ScanRegion(r, memory, behind, pattern, first_match_only) ==
  LET places == FindPattern(BytesOf(r, memory), behind, pattern, first_match_only)
  IN [i \in DOMAIN places |-> r.base + places[i] - 1]
ProcessScanMemory(regions, asked, memory, behind, pattern, module, first_match_only) ==
  LET listed == GetMemories(regions, asked)
      scanned == Picked(listed, {i \in DOMAIN listed : InModule(listed[i], module) /\ listed[i].readable})
      hits == [k \in DOMAIN scanned |-> ScanRegion(scanned[k], memory, behind, pattern, first_match_only)]
      found == {k \in DOMAIN hits : hits[k] # <<>>}
  IN IF pattern = <<>> \/ found = {} THEN <<>>
     ELSE IF first_match_only THEN hits[Min(found)] ELSE FlattenSeq(hits)

\* scan_memory of ProcessA and W: a module that is not loaded is no restriction.
ModuleNamed(modules, name) ==
  LET at == {i \in DOMAIN modules : modules[i].name = name}
  IN IF at = {} THEN NoModule ELSE [base |-> modules[Min(at)].base, size |-> modules[Min(at)].size]
ScanMemory(regions, asked, memory, behind, pattern, modules, name, first_match_only) ==
  ProcessScanMemory(regions, asked, memory, behind, pattern, ModuleNamed(modules, name), first_match_only)

\* read_memory_ex and write_memory_ex: the place the last access is made at, or Failed
\* when a pointer on the way cannot be read. pointers maps the readable ones.
ChainPlace(pointers, address, offsets) ==
  LET Step(ptr, k) == IF ptr \in DOMAIN pointers THEN pointers[ptr] + offsets[k] ELSE Failed
      place[k \in 0..Len(offsets)] == IF k = 0 THEN address ELSE Step(place[k - 1], k)
  IN place[Len(offsets)]

\* The entries of a snapshot that belong to a process; the first of them answers.
Entries(snapshot, field, pid) == {i \in DOMAIN snapshot : snapshot[i][field] = pid}
FirstOf(snapshot, at, field) == IF at = {} THEN Failed ELSE snapshot[Min(at)][field]
GetParentPid(processes, child) == FirstOf(processes, Entries(processes, "pid", child), "parent")
GetMainThreadId(threads, pid) == FirstOf(threads, Entries(threads, "owner", pid), "tid")
GetThreads(threads, pid) == Picked(threads, Entries(threads, "owner", pid))

\* pid_to_name: empty for a process that cannot be opened or no longer runs.
PidToName(processes, pid) ==
  LET at == {i \in DOMAIN processes : processes[i].pid = pid /\ processes[i].opens}
  IN IF at = {} THEN <<>> ELSE processes[Min(at)].name
\* name_to_pid: the processes listed, as many as the list has room for, by name.
NameToPid(processes, listed, room, name, Lower) ==
  LET pids == SubSeq(listed, 1, IF Len(listed) <= room THEN Len(listed) ELSE room)
  IN Picked(pids, {i \in DOMAIN pids :
                     LowerString(PidToName(processes, pids[i]), Lower) = LowerString(name, Lower)})

\* A search reports every place where the pattern lies in the block, in order; beyond
\* them only places at its end, where the pattern reaches over it; and asked for the
\* first match alone it gives the first of them.
PatternFound(block, behind, pattern) ==
  LET inside == {i \in 1..Len(block) - Len(pattern) + 1 :
                   \A j \in DOMAIN pattern : pattern[j] \in {AnyByte, block[i + j - 1]}}
      all == FindPattern(block, behind, pattern, FALSE)
  IN /\ inside \subseteq ToSet(all)
     /\ \A i \in ToSet(all) \ inside : i + Len(pattern) - 1 > Len(block)
     /\ \A k \in 2..Len(all) : all[k - 1] < all[k]
     /\ FindPattern(block, behind, pattern, TRUE) = SubSeq(all, 1, IF all = <<>> THEN 0 ELSE 1)

\* A scan of a module reports each match that lies within one of its readable regions,
\* and nothing from the rest of the process but what reaches over a region's end or lies
\* in the region that begins where the module ends. A module that is not loaded makes it
\* a scan of the whole process.
ScanCovers(regions, asked, memory, behind, pattern, modules, name) ==
  LET module == ModuleNamed(modules, name)
      found == ToSet(ScanMemory(regions, asked, memory, behind, pattern, modules, name, FALSE))
      scanned(r) == r.kind \in asked /\ r.readable /\ r.base # 0
                    /\ (module = NoModule \/ r.base \in module.base..module.base + module.size - 1)
      matches(a, r) == a \in r.base..r.base + r.size - Len(pattern)
                       /\ \A j \in DOMAIN pattern : pattern[j] \in {AnyByte, memory[a + j - 1]}
  IN /\ \A r \in ToSet(regions) : scanned(r) =>
          {a \in DOMAIN memory : matches(a, r)} \subseteq found
     /\ \A a \in found : \E r \in ToSet(regions) :
          /\ a \in r.base..r.base + r.size - 1 /\ r.kind \in asked /\ r.readable
          /\ scanned(r) \/ r.base = module.base + module.size
          /\ matches(a, r) \/ a + Len(pattern) > r.base + r.size
     /\ LET first == ScanMemory(regions, asked, memory, behind, pattern, modules, name, TRUE)
        IN Len(first) = (IF found = {} THEN 0 ELSE 1) /\ ToSet(first) \subseteq found

\* A chain of pointers may be followed in two parts; a null or unreadable pointer anywhere
\* on it is a failure of the whole, and never an access at offsets from nothing.
ChainComposes(pointers, address, offsets) ==
  \A k \in 0..Len(offsets) :
    LET middle == ChainPlace(pointers, address, SubSeq(offsets, 1, k))
    IN /\ ChainPlace(pointers, address, offsets)
            = ChainPlace(pointers, middle, SubSeq(offsets, k + 1, Len(offsets)))
       /\ k < Len(offsets) /\ middle \notin DOMAIN pointers
            => ChainPlace(pointers, address, offsets) = Failed

\* A name is looked up to the processes that pid_to_name gives it, whatever the case of its
\* letters, as far as the list has room; a process that cannot be opened is found by no
\* name but the empty one, which finds all of them.
NamesAgree(processes, room, Lower) ==
  LET listed == [i \in DOMAIN processes |-> processes[i].pid]
  IN \A i \in DOMAIN processes :
       LET p == processes[i] asked == [name |-> p.name, pids |-> ToSet(NameToPid(processes, listed, room, p.name, Lower))]
       IN /\ p.pid \in asked.pids <=> p.opens /\ i <= room
          /\ ~p.opens /\ i <= room => p.pid \in ToSet(NameToPid(processes, listed, room, <<>>, Lower))
          /\ \A pid \in asked.pids : Len(PidToName(processes, pid)) = Len(p.name)

\* The main thread is the first of the threads a process is said to have, and a process
\* has a parent exactly when it is in the snapshot.
ThreadsAgree(processes, threads, pid) ==
  LET own == GetThreads(threads, pid)
  IN /\ GetMainThreadId(threads, pid) = (IF own = <<>> THEN Failed ELSE own[1].tid)
     /\ GetParentPid(processes, pid) # Failed <=> pid \in {processes[i].pid : i \in DOMAIN processes}
====
