------------------------------- MODULE FileDB -------------------------------
(***************************************************************************)
(* The file store of server_demo/filedb/filedb.cpp as the server uses it:  *)
(* one JSON file per player under ./data, named after the player ID, and   *)
(* one saved game per player under ./data/save.                            *)
(*                                                                         *)
(* A player file carries the ID, money and score it stores and how long    *)
(* its texts are: load() refuses a file that is longer than its caller's   *)
(* buffer. The password is the concern of the login action, and name and   *)
(* items influence nothing else that is modelled.                          *)
(***************************************************************************)
EXTENDS Integers, FiniteSets, Identities

CONSTANTS
  NoFile,       \* the file does not exist
  EmptyFile,    \* the file holds no byte: load returns 0
  TornFile,     \* the file holds the beginning of its JSON text
  LongTornFile, \* the same, and is longer than the buffer of a login
  NoSave,       \* there is no saved game
  LevelIDs,     \* the level IDs that occur in requests
  LevelStates,  \* the game states clients upload
  Faults        \* which failures of save occur, of "open" and "short"

VARIABLES
  playerFile,   \* ./data/<player ID>
  saveFile      \* ./data/save/<player ID>

fileVars == <<playerFile, saveFile>>

\* The JSON text of a player; text is the length of all of it but the digits
\* of his money and score, the only parts that change after his registration.
PlayerRecord == [pid: PlayerIDs, money: Int, score: Int, text: Nat]

\* ServerSaveFile; spend is SpendTime and time is SaveTime.
SaveRecord == [level: LevelIDs, state: LevelStates, spend: Int, time: Int]

\* What stands for a file that holds no whole JSON text.
NoRecords == {NoFile, EmptyFile, TornFile, LongTornFile}

ASSUME FileDBAssumption ==
  /\ NoRecords \cap PlayerRecord = {}
  /\ NoSave \notin SaveRecord
  /\ Faults \subseteq {"open", "short"}

FileTypeOK ==
  /\ playerFile \in [PlayerIDs -> PlayerRecord \cup NoRecords]
  /\ saveFile \in [PlayerIDs -> SaveRecord \cup {NoSave}]

-----------------------------------------------------------------------------
(* Reading.                                                                *)

\* FILE_READ_LEN_MAX of player.cpp and BUF_SIZE of RankMgr.cpp.
LoginBuffer == 1024
RankBuffer  == 5120

\* The characters "%d" prints for an int.
Digits(n) ==
  LET abs == IF n < 0 THEN -n ELSE n
  IN  (IF n < 0 THEN 2 ELSE 1) + Cardinality({k \in 1 .. 9 : abs >= 10 ^ k})

\* The length of the text cJSON_Print makes of a player.
Length(record) == record.text + Digits(record.money) + Digits(record.score)

\* load() into a buffer of this size returns a text that parses. It returns
\* -1 when there is no file, 0 when it is empty, -2 when it is too long.
Readable(file, size) == file \notin NoRecords /\ Length(file) <= size

-----------------------------------------------------------------------------
(* Writing.                                                                *)

\* What save() may return and leave in the file. It truncates the file when
\* it opens it, so a short write loses the former content.
Writes(old, content, prefixes) ==
  {[result |-> 0, file |-> content]}
    \cup {[result |-> -1, file |-> old] : fault \in Faults \cap {"open"}}
    \cup {[result |-> -2, file |-> prefix] :
             prefix \in {f \in prefixes : "short" \in Faults}}

\* The proper prefixes of a player's JSON text, of which none parses.
TornTexts(record) ==
  {EmptyFile, TornFile}
    \cup (IF Length(record) > LoginBuffer + 1 THEN {LongTornFile} ELSE {})

\* save() of a player's JSON text.
PlayerWrites(p, record) == Writes(playerFile[p], record, TornTexts(record))

\* save() of a serialised ServerSaveFile: SaveTime is its last field, so every
\* proper prefix reads as a save made at time 0.
SaveWrites(p, record) ==
  Writes(saveFile[p], record, {[record EXCEPT !.time = 0]})

=============================================================================
