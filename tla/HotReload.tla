------------------------------ MODULE HotReload ------------------------------
(***************************************************************************)
(* The watcher of main.cpp and the module it publishes.  The versions of a *)
(* project that its author saves, one after another, are a story; a file   *)
(* and its mtime are the number of the version.  The watcher reads the     *)
(* file, then its mtime, and only then compiles what it has read.          *)
(***************************************************************************)
EXTENDS Naturals, Sequences

CONSTANTS Stories,      \* story |-> its versions, names of projects; the first compiles
          Compiled      \* project |-> its Module, what compile() makes of it

\* The server does not start with a project that does not compile.
ASSUME StoriesAssumption ==
  \A s \in DOMAIN Stories :
    /\ Stories[s] \in Seq(DOMAIN Compiled) /\ Stories[s] # <<>>
    /\ Compiled[Stories[s][1]].ok

VARIABLES story,        \* the one this behaviour tells
          saved,        \* the version on the disk
          live,         \* the version of g_module
          stamp,        \* its stamps
          watcher       \* [at, read, seen]: where watch_loop() is, the
                        \* version compile() has read, the mtime it took

hotVars == <<story, saved, live, stamp, watcher>>

ModuleOf(version) == Compiled[Stories[story][version]]
Latest == Len(Stories[story])

\* The first version is compiled and published before the loops run.
HotInit ==
  /\ story \in DOMAIN Stories
  /\ saved = 1 /\ live = 1 /\ stamp = 1
  /\ watcher = [at |-> "asleep", read |-> 1, seen |-> 1]

\* The author writes the file.
Save ==
  /\ saved < Latest
  /\ saved' = saved + 1
  /\ UNCHANGED <<story, live, stamp, watcher>>

\* Every 300 ms: has the file changed since it was compiled?
Look ==
  /\ watcher.at = "asleep" /\ stamp # saved
  /\ watcher' = [watcher EXCEPT !.at = "changed"]
  /\ UNCHANGED <<story, saved, live, stamp>>

Read ==
  /\ watcher.at = "changed"
  /\ watcher' = [watcher EXCEPT !.at = "read", !.read = saved]
  /\ UNCHANGED <<story, saved, live, stamp>>

Stamp ==
  /\ watcher.at = "read"
  /\ watcher' = [watcher EXCEPT !.at = "compiling", !.seen = saved]
  /\ UNCHANGED <<story, saved, live, stamp>>

\* Mutant: a version that does not compile ends the watcher.
GiveUp ==
  /\ watcher.at = "compiling"
  /\ IF ModuleOf(watcher.read).ok
     THEN live' = watcher.read /\ stamp' = watcher.seen /\ watcher' = [watcher EXCEPT !.at = "asleep"]
     ELSE stamp' = saved /\ watcher' = [watcher EXCEPT !.at = "gone"] /\ UNCHANGED live
  /\ UNCHANGED <<story, saved>>

\* publish_module(), or the stamps of the live module are refreshed, with
\* the mtime of now, not to try the same version again.
PublishModule ==
  /\ watcher.at = "compiling"
  /\ IF ModuleOf(watcher.read).ok
     THEN live' = watcher.read /\ stamp' = watcher.seen
     ELSE stamp' = saved /\ UNCHANGED live
  /\ watcher' = [watcher EXCEPT !.at = "asleep"]
  /\ UNCHANGED <<story, saved>>

Watch == Look \/ Read \/ Stamp \/ PublishModule

\* The author saved again while a version was being read or refused: its
\* mtime stands for a text that nobody has read.
Overtaken == watcher.at = "asleep" /\ stamp # watcher.read

\* "Guardas el fichero y se recarga" (README.md:54), whatever was broken in
\* between: the last version saved is served in the end if it compiles,
\* unless it overtook the watcher.
EditsAreServed == (saved = Latest /\ ModuleOf(Latest).ok) ~> (live = Latest \/ Overtaken)
=============================================================================
