---------------------------- MODULE MCHashRebuild ----------------------------
(* Instances of HashRebuild for TLC: three keys, two of them in one bucket; a     *)
(* small and a large value, so that records are overwritten, moved and reused.    *)
EXTENDS HashRebuild, TLC

CONSTANTS small, large, t1, t2

MCKeys == 1 .. 3
MCValues == {small, large}
MCBuckets == {1, 2}
HashOf == << (1 :> 1) @@ (2 :> 1) @@ (3 :> 2) @@ (None :> 2),
             (1 :> 2) @@ (2 :> 1) @@ (3 :> 2) @@ (None :> 1) >>
SizeOf == (small :> 1) @@ (large :> 2) @@ (None :> 1)
TwoThreads == {t1, t2}
Symmetry == Permutations(Threads)

\* The mode the database is made in, the restore mode, the keys and requests,
\* whether threads take turns, the updates, crashes, syncs and switches of the
\* mode, and whether the process may die inside Close.
Limited(mode, restore, keys, inputs, lone, ops, crashes, syncs, switches, closing) ==
  [mode |-> mode, restore |-> restore, keys |-> keys, inputs |-> inputs,
   lone |-> lone, ops |-> ops, crashes |-> crashes, syncs |-> syncs,
   switches |-> switches, closing |-> closing]
Plain == Values \cup {RemoveReq}
Scene(mode, keys, lone, ops, crashes, syncs) ==
  Limited(mode, "DEFAULT", keys, Plain, lone, ops, crashes, syncs, 0, FALSE)
More(fill, rebuilds, fails, scans, calls, clears, targets) ==
  [fill |-> fill, rebuilds |-> rebuilds, fails |-> fails, scans |-> scans,
   calls |-> calls, clears |-> clears, targets |-> targets]

Two == << <<1, small>>, <<2, small>> >>
Three == << <<1, small>>, <<2, small>>, <<3, small>> >>
Both == {"IN_PLACE", "APPENDING"}

\* Rebuilds beside two threads; with a crash; that fail, with Clear; beside an
\* iterator; an iterator beside two threads; and scans.
MCExtras ==
  (Scene("IN_PLACE", {1, 3}, FALSE, 3, 0, 0) :> {More(Two, 1, 0, 0, 0, 0, {"IN_PLACE"})})
  @@ (Scene("APPENDING", {1, 3}, TRUE, 2, 1, 0) :> {More(Two, 1, 0, 0, 0, 0, Both)})
  @@ (Scene("IN_PLACE", {1, 2}, TRUE, 2, 0, 0) :> {More(Two, 2, 1, 0, 0, 1, Both)})
  @@ (Scene("APPENDING", {1}, TRUE, 1, 0, 0) :> {More(Three, 1, 0, 0, 5, 0, {"APPENDING"})})
  @@ (Limited("IN_PLACE", "DEFAULT", {1, 3}, {large, RemoveReq}, FALSE, 2, 0, 0, 0, FALSE)
        :> {More(Three, 0, 0, 0, 5, 0, {}), More(Two, 0, 0, 1, 0, 0, {})})
  @@ (Scene("APPENDING", {1, 2}, TRUE, 2, 0, 0) :> {More(Two, 1, 0, 1, 0, 0, Both)})

\* One thread and crashes in both modes; two threads and a switch of the mode;
\* two threads, crashes and the restore mode RESTORE_SYNC; two threads that move
\* and remove more records than the pool has room for.
PlainExtras ==
  (Limited("IN_PLACE", "DEFAULT", {1, 2}, Plain, TRUE, 3, 1, 1, 0, FALSE) :> <<Head(Two)>>)
  @@ (Limited("IN_PLACE", "DEFAULT", {1, 2}, Plain, TRUE, 3, 2, 0, 0, FALSE) :> <<>>)
  @@ (Limited("APPENDING", "DEFAULT", {1, 2}, Plain, TRUE, 3, 2, 1, 0, TRUE) :> <<>>)
  @@ (Limited("IN_PLACE", "DEFAULT", {1, 3}, Plain, FALSE, 3, 0, 0, 1, FALSE) :> <<>>)
  @@ (Limited("APPENDING", "SYNC", {1, 3}, Plain, FALSE, 3, 2, 1, 0, TRUE) :> <<>>)
  @@ (Limited("IN_PLACE", "DEFAULT", {1, 2, 3}, {large, RemoveReq}, FALSE, 4, 0, 0, 0, FALSE)
        :> Three)

AllExtras ==
  MCExtras @@ [l \in DOMAIN PlainExtras |-> {More(PlainExtras[l], 0, 0, 0, 0, 0, {})}]
MCLimits == DOMAIN AllExtras
=============================================================================
