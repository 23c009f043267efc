------------------------------ MODULE PageCopy ------------------------------
(***************************************************************************)
(* One page while it is migrated (src/src/arms.c, src/src/pebs.c): its     *)
(* words are copied to another frame and the frame is mapped over the      *)
(* page's address while application threads load and store.  The page is   *)
(* write-protected through userfaultfd first; a store to it faults, and    *)
(* the fault thread spins until page->migrating is false before it wakes   *)
(* the stopped threads.  Which page and which frame is PageTiering's       *)
(* matter; here the page moves between the two frames "dram" and "nvm".    *)
(*                                                                         *)
(* Two aspects are the kernel's: a store and UFFDIO_WRITEPROTECT are       *)
(* atomic (the ioctl flushes the TLBs), and a new mapping of the address   *)
(* is not write-protected.                                                 *)
(***************************************************************************)
EXTENDS Integers

CONSTANTS Threads, Words, Values,
          Nothing,        \* no store begun, nothing loaded yet
          MaxMigrations   \* bound on the migrations of a behaviour

MigrationsAssumption == MaxMigrations \in Nat

VARIABLES data,        \* contents of the two frames
          mapped,      \* the frame the address maps
          protected,   \* the address is write-protected
          migrating,   \* page->migrating
          migrator,    \* "idle", "protect", "copy", "done"
          copied,      \* the words the DMA engine or memcpy has copied
          migrations,  \* how many migrations have begun
          blocked,     \* threads stopped in a write-protection fault
          handler,     \* the fault thread: "poll", "spin", "wake"
          want, got    \* see AtomicPage

migratorVars == <<migrating, migrator, copied, migrations>>
appVars == <<want, got>>
vars == <<data, mapped, protected, migratorVars, blocked, handler, appVars>>

Frames == {"dram", "nvm"}
Other(f) == IF f = "dram" THEN "nvm" ELSE "dram"
\* After the first touch: the frame is zeroed, the other one holds anything.
Init == /\ \E zero \in Values, junk \in Values :
              data = [f \in Frames |-> [i \in Words |-> IF f = "dram" THEN zero ELSE junk]]
        /\ mapped = "dram" /\ protected = FALSE
        /\ migrating = FALSE /\ migrator = "idle" /\ copied = {} /\ migrations = 0
        /\ blocked = {} /\ handler = "poll"
        /\ want = [t \in Threads |-> Nothing]
        /\ got = [t \in Threads |-> Nothing]

-----------------------------------------------------------------------------
(* An application thread.                                                  *)

BeginStore(t) ==
    /\ want[t] = Nothing
    /\ \E i \in Words, x \in Values : want' = [want EXCEPT ![t] = [word |-> i, value |-> x]]
    /\ got' = [got EXCEPT ![t] = Nothing]
    /\ UNCHANGED <<data, mapped, protected, migratorVars, blocked, handler>>

\* The store reaches memory if the page is not protected ...
Store(t) ==
    /\ want[t] # Nothing /\ t \notin blocked
    /\ ~protected
    /\ data' = [data EXCEPT ![mapped][want[t].word] = want[t].value]
    /\ want' = [want EXCEPT ![t] = Nothing]
    /\ UNCHANGED <<mapped, protected, migratorVars, blocked, handler, got>>

\* ... and stops the thread if it is.
WpFault(t) ==
    /\ want[t] # Nothing /\ t \notin blocked
    /\ protected
    /\ blocked' = blocked \cup {t}
    /\ UNCHANGED <<data, mapped, protected, migratorVars, handler, appVars>>

Load(t) ==
    /\ want[t] = Nothing
    /\ \E i \in Words : got' = [got EXCEPT ![t] = [word |-> i, value |-> data[mapped][i]]]
    /\ UNCHANGED <<data, mapped, protected, migratorVars, blocked, handler, want>>

-----------------------------------------------------------------------------
(* The fault thread: handle_fault and handle_wp_fault.                     *)

ReadMessage ==
    /\ handler = "poll"
    /\ blocked # {}
    /\ handler' = "spin"
    /\ UNCHANGED <<data, mapped, protected, migratorVars, blocked, appVars>>

\* while (page->migrating); the field is volatile.
handle_wp_fault ==
    /\ handler = "spin"
    /\ ~migrating
    /\ handler' = "wake"
    /\ UNCHANGED <<data, mapped, protected, migratorVars, blocked, appVars>>

\* UFFDIO_WAKE on the range of the page wakes every thread stopped there, also
\* one whose message was not read yet; they execute the store again.
Wake ==
    /\ handler = "wake"
    /\ blocked' = {}
    /\ handler' = "poll"
    /\ UNCHANGED <<data, mapped, protected, migratorVars, appVars>>

-----------------------------------------------------------------------------
(* A migration thread: pebs_migrate_up and pebs_migrate_down.              *)

BeginMigration ==
    /\ migrator = "idle"
    /\ migrations < MaxMigrations
    /\ migrations' = migrations + 1
    /\ migrating' = TRUE
    /\ migrator' = "protect"
    /\ UNCHANGED <<data, mapped, protected, copied, blocked, handler, appVars>>

arms_wp_page ==
    /\ migrator = "protect"
    /\ protected' = TRUE
    /\ migrator' = "copy"
    /\ UNCHANGED <<data, mapped, migrating, copied, migrations, blocked,
                   handler, appVars>>

\* One word of the copy; the DMA engine, or the chunks of the copy threads,
\* come in any order.
CopyWord(i) ==
    /\ migrator = "copy"
    /\ i \notin copied
    /\ data' = [data EXCEPT ![Other(mapped)][i] = data[mapped][i]]
    /\ copied' = copied \cup {i}
    /\ UNCHANGED <<mapped, protected, migrating, migrator, migrations, blocked,
                   handler, appVars>>

\* A bug to catch: the new frame is mapped before the copy is complete.
remap_early ==
    /\ migrator = "copy"
    /\ copied # {}
    /\ mapped' = Other(mapped)
    /\ protected' = FALSE
    /\ copied' = {}
    /\ migrator' = "done"
    /\ UNCHANGED <<data, migrating, migrations, blocked, handler, appVars>>

\* The copy is complete: mmap(MAP_FIXED) replaces the frame and with it the
\* protection, then the range is registered with userfaultfd again and the
\* struct gets the new frame.
arms_migrate ==
    /\ migrator = "copy"
    /\ copied = Words
    /\ mapped' = Other(mapped)
    /\ protected' = FALSE
    /\ copied' = {}
    /\ migrator' = "done"
    /\ UNCHANGED <<data, migrating, migrations, blocked, handler, appVars>>

\* page->migrating = false.
EndMigration ==
    /\ migrator = "done"
    /\ migrating' = FALSE
    /\ migrator' = "idle"
    /\ UNCHANGED <<data, mapped, protected, copied, migrations, blocked,
                   handler, appVars>>

-----------------------------------------------------------------------------
AppNext(t) == BeginStore(t) \/ Store(t) \/ WpFault(t) \/ Load(t)
GetThrough(t) == Store(t) \/ WpFault(t)
HandlerNext == ReadMessage \/ handle_wp_fault \/ Wake
GoOn == \/ arms_wp_page \/ arms_migrate \/ EndMigration
        \/ \E i \in Words : CopyWord(i)
Next == (\E t \in Threads : AppNext(t)) \/ HandlerNext \/ BeginMigration \/ GoOn

\* The OS runs every thread; a migration that has begun goes on, a new one
\* need not begin.
Spec == /\ Init /\ [][Next]_vars
        /\ \A t \in Threads : WF_vars(GetThrough(t))
        /\ WF_vars(HandlerNext)
        /\ WF_vars(GoOn)

-----------------------------------------------------------------------------
\* While words are being copied no store reaches the page: what was copied
\* is what is still there.
CopyFaithful ==
    migrator = "copy" => \A i \in copied : data[Other(mapped)][i] = data[mapped][i]

\* Migration is invisible: loads and stores behave as on atomic words, no
\* store is lost or undone by the copy, and every store that has begun gets
\* through, however often the page moves.
Atomic == INSTANCE AtomicPage WITH mem <- data[mapped]
Invisible == Atomic!Spec
=============================================================================
