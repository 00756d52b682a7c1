------------------------------ MODULE Whisparr ------------------------------
(***************************************************************************)
(* Sending a scene of Expand to Whisparr: src/core/whisparr.go.            *)
(* Every request is a process of its own.  A call to Whisparr may fail     *)
(* before or after Whisparr has done what it was asked, and the process    *)
(* may die between two calls.                                              *)
(***************************************************************************)
EXTENDS FiniteSets

CONSTANTS
  Film,     \* the scenes sent
  Client,   \* concurrent requests
  SearchImmediately  \* whisparrSearchImmediately

ASSUME WhisparrAssumption == SearchImmediately \in BOOLEAN

VARIABLES
  movies,   \* Whisparr: the scenes it has; it refuses a second one of the same id
  searched, \* Whisparr: the scenes it has been told to search for
  sent,     \* external_whisparr_sent
  call,     \* sendWhisparrScene of a client
  dropped   \* history: scenes added by a request that ended before its search

whisparrVars == <<movies, searched, sent, call, dropped>>

NoCall == [pc |-> "no call"]

InitWhisparr ==
  /\ movies = {} /\ searched = {} /\ sent = {} /\ dropped = {}
  /\ call = [c \in Client |-> NoCall]

(* GET /movie; what it lists is not added again. *)
FindMovie(c, f, search) ==
  /\ call[c] = NoCall
  /\ call' = [call EXCEPT ![c] = [pc |-> IF f \in movies THEN "record" ELSE "add",
                                  film |-> f, search |-> search]]
  /\ UNCHANGED <<movies, searched, sent, dropped>>

(* POST /movie; whisparrRejection is the answer to a scene another request  *)
(* has added meanwhile.                                                     *)
AddMovie(c) ==
  /\ call[c].pc = "add" /\ call[c].film \notin movies
  /\ movies' = movies \cup {call[c].film}
  /\ call' = [call EXCEPT ![c].pc = IF call[c].search THEN "search" ELSE "record"]
  /\ UNCHANGED <<searched, sent, dropped>>

(* POST /command *)
MoviesSearch(c) ==
  /\ call[c].pc = "search"
  /\ searched' = searched \cup {call[c].film}
  /\ call' = [call EXCEPT ![c].pc = "record"]
  /\ UNCHANGED <<movies, sent, dropped>>

(* INSERT OR IGNORE, after Whisparr has answered. *)
RecordSent(c) ==
  /\ call[c].pc = "record"
  /\ sent' = sent \cup {call[c].film}
  /\ call' = [call EXCEPT ![c] = NoCall]
  /\ UNCHANGED <<movies, searched, dropped>>

(* Whisparr refuses, does not answer in 30 seconds, or the process dies. *)
SendFails(c) ==
  /\ call[c] # NoCall
  /\ dropped' = IF call[c].pc = "search" THEN dropped \cup {call[c].film} ELSE dropped
  /\ call' = [call EXCEPT ![c] = NoCall]
  /\ UNCHANGED <<movies, searched, sent>>

(* The reply to an add is lost. *)
AddAnswerLost(c) ==
  /\ call[c].pc = "add" /\ call[c].film \notin movies
  /\ movies' = movies \cup {call[c].film}
  /\ dropped' = IF call[c].search THEN dropped \cup {call[c].film} ELSE dropped
  /\ call' = [call EXCEPT ![c] = NoCall]
  /\ UNCHANGED <<searched, sent>>

NextWhisparr ==
  \E c \in Client :
    \/ \E f \in Film : FindMovie(c, f, SearchImmediately)
    \/ AddMovie(c) \/ MoviesSearch(c) \/ RecordSent(c) \/ SendFails(c) \/ AddAnswerLost(c)

SpecWhisparr == InitWhisparr /\ [][NextWhisparr]_whisparrVars

(* A scene marked as sent is in Whisparr, and it was searched for as the    *)
(* settings ask, or some request is about to, unless a request ended        *)
(* between its add and its search: the retry finds the scene and is content.*)
SentScenesAreThere ==
  \A f \in sent :
    /\ f \in movies
    /\ SearchImmediately => \/ f \in searched \cup dropped
                            \/ \E c \in Client : call[c].pc = "search" /\ call[c].film = f
=============================================================================
