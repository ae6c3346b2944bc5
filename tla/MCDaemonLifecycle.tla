------------------------- MODULE MCDaemonLifecycle -------------------------
(* Two terminals and two daemon processes: one daemon may be closing, or    *)
(* still launching, while the other one starts or serves.                   *)
(* MCDaemonLifecycle.cfg: a disposable session, three commands of any kind  *)
(* and one process killed.  MCDaemonFindable.cfg and MCDaemonErase.cfg: a   *)
(* persistent session in which nothing is killed.                           *)
(* The names, the listing and the retention of what sessions leave are      *)
(* checked on their own, for directories of up to four entries.             *)
EXTENDS DaemonLifecycle, Sequences

LOCAL INSTANCE SequencesExt

Data == INSTANCE RetainedData
  WITH SessionNames <- {"a", "b"}, OtherStems <- {"?"},
       MaxClassified <- 3, MaxListed <- 2, MaxReportedBytes <- 5

FileNames == [stem : {"a", "b", "?"}, kind : {"endpoint", "profile", "none"}]
Directories ==
  {d \in UNION {[1..n -> FileNames] : n \in 0..4} : \A i, j \in DOMAIN d : i # j => d[i] # d[j]}
Configurations == {[stem |-> "a", kind |-> "endpoint"], [stem |-> "?", kind |-> "none"]}

(* A list that is not marked as truncated is complete.                      *)
ASSUME ListsAreHonest ==
  \A d \in Directories, config \in Configurations : Data!ListIsHonest(d, config)
(* A deleted session is gone from the list, and only that session.          *)
ASSUME DeletesMatchLists ==
  \A d \in Directories, config \in Configurations, session \in {"a", "b"} :
    LET after == SelectSeq(d, LAMBDA name : name \notin Data!PathsForSession(session))
    IN  /\ Data!DeleteMatchesList(d, after, config, session)
        /\ Data!DeleteMatchesList(d, Reverse(after), config, session)
(* What the privacy summary promises of a managed or an attached session;   *)
(* only of a disposable session that is attached it is wrong about the log. *)
ASSUME RetentionsAreKept ==
  /\ \A mode \in {"persistent", "disposable"} : Data!RetentionIsKept(mode, FALSE)
  /\ Data!RetentionIsKept("persistent", TRUE)
  /\ ~Data!RetentionIsKept("disposable", TRUE)
(* Sizes are those of files and no larger than the limit.                   *)
ASSUME SizesAreReported ==
  \A node \in [type : {"file", "directory", "symlink"}, bytes : 0..7] :
    LET m == Data!Metadata(node)
    IN  /\ m.fileBytes <= 5
        /\ m.clipped = (node.type = "file" /\ m.fileBytes # node.bytes)
=============================================================================
