----------------------------- MODULE MCFileSys -----------------------------
(* Model-checking instances of FileSys.  Threads and names are model       *)
(* values; each thread runs one routine, as the threads fs_test_sync.cc     *)
(* forks do (FileReadSync opens and closes, FileRemoveSync removes, ...).   *)
EXTENDS FileSys, TLC

CONSTANTS t1, t2, t3, f1, f2, f3, d1

\* Every thread is a key of threadUPS, so a last closer can reach the remover.
EveryThread == Threads

\* Files created at boot (TestSync creates the file before forking).
OneFileAtBoot == <<f1>>
TwoFilesAtBoot == <<f1, f2>>

\* The routines of the threads.
OneWriter == t1 :> {"Open", "Write"}
OneWriterRemover == t1 :> {"Open", "Write", "Read", "Remove", "RemoveAbs", "Create",
                           "CreateAbs", "CreateDir", "ChangeDir", "RemoveDirArg",
                           "Ls"}
OneWriterReader == t1 :> {"Open", "Write", "Read"}
OneOpenerOneRemover == (t1 :> {"Open"}) @@ (t2 :> {"Remove"})
OneOpenerTwoRemovers == (t1 :> {"Open"}) @@ (t2 :> {"Remove"}) @@ (t3 :> {"RemoveAbs"})
TwoOpeners == [t \in {t1, t2} |-> {"Open"}]
CreatorChanger == (t1 :> {"Create"}) @@ (t2 :> {"CreateDir", "ChangeDir"})
AbsCreatorChanger == (t1 :> {"CreateAbs"}) @@ (t2 :> {"CreateDir", "ChangeDir"})
WriterCreator == (t1 :> {"Open", "Write"}) @@ (t2 :> {"Create"})
=============================================================================
