------------------------------- MODULE Handle -------------------------------
(***************************************************************************)
(* handle (handle.cpp): what the wrapper keeps for libcurl, namely the      *)
(* lists and functions that libcurl only points to, and the flags that      *)
(* mirror options.  An operation holds m_mtx from start to end, so each is  *)
(* one action; reset() and the destructor first take the handle out of its  *)
(* executor without it, which nothing here depends on, and nobody uses a    *)
(* handle that is being destroyed.  Pausing is in TcpClient.tla.            *)
(***************************************************************************)
CONSTANTS
  SlistOptions,    (* options of type slist                                 *)
  SlistIds,        (* memory for lists                                      *)
  NoSlist

ASSUME HandleAssumption == NoSlist \notin SlistIds

VARIABLES
  handle_exists,
  attached,            (* m_executor or m_multi is set                      *)
  slists,              (* lists that exist                                  *)
  m_owned_slists,
  curl_slists,         (* the lists libcurl points to                       *)
  functions,           (* the std::function members that are set            *)
  curl_functions,      (* the functions libcurl was told to call            *)
  m_flags, curl_flags  (* connect_only and verbose, and libcurl's options   *)

handleVars == <<handle_exists, attached, slists, m_owned_slists, curl_slists,
                functions, curl_functions, m_flags, curl_flags>>

CurlFunctions == {"header", "progress", "read", "write"}
Flags == {"connect_only", "verbose"}
None == [o \in SlistOptions |-> NoSlist]

HandleInit ==
  /\ handle_exists = TRUE /\ attached = FALSE
  /\ slists = {} /\ m_owned_slists = None /\ curl_slists = None
  /\ functions = {} /\ curl_functions = {}
  /\ m_flags = {} /\ curl_flags = {}

(* What a list option holds is replaced: the list it held is freed.         *)
Owns(o, l) ==
  /\ m_owned_slists' = [m_owned_slists EXCEPT ![o] = l]
  /\ slists' = (slists \cup {l}) \ {m_owned_slists[o]}

(* set_option_slist, given a list; libcurl may refuse it, and the exception *)
(* that follows frees it.                                                   *)
SetSlistFails == UNCHANGED <<slists, m_owned_slists, curl_slists>>

(* Mutant of SetSlist: the list is stored before libcurl has taken it.      *)
SetSlistEarly(o, l, taken) ==
  /\ handle_exists /\ l \notin slists
  /\ Owns(o, l)
  /\ curl_slists' = IF taken THEN [curl_slists EXCEPT ![o] = l] ELSE curl_slists
  /\ UNCHANGED <<handle_exists, attached, functions, curl_functions, m_flags, curl_flags>>

SetSlist(o, l, taken) ==
  /\ handle_exists /\ l \notin slists
  /\ IF taken THEN Owns(o, l) /\ curl_slists' = [curl_slists EXCEPT ![o] = l] ELSE SetSlistFails
  /\ UNCHANGED <<handle_exists, attached, functions, curl_functions, m_flags, curl_flags>>

(* set_option_long, for the two options that have a flag.                   *)
SetFlag(f, on, taken) ==
  /\ handle_exists
  /\ IF taken
       THEN /\ m_flags' = IF on THEN m_flags \cup {f} ELSE m_flags \ {f}
            /\ curl_flags' = IF on THEN curl_flags \cup {f} ELSE curl_flags \ {f}
       ELSE UNCHANGED <<m_flags, curl_flags>>
  /\ UNCHANGED <<handle_exists, attached, slists, m_owned_slists, curl_slists, functions,
                 curl_functions>>

(* set_writefunction and the like; set_donefunction tells libcurl nothing.  *)
SetFunction(f) ==
  /\ handle_exists
  /\ functions' = functions \cup {f}
  /\ curl_functions' = curl_functions \cup ({f} \cap CurlFunctions)
  /\ UNCHANGED <<handle_exists, attached, slists, m_owned_slists, curl_slists, m_flags, curl_flags>>

(* add_handle of an executor or a multi; remove_handle.                     *)
Attach ==
  /\ handle_exists /\ ~attached /\ attached' = TRUE
  /\ UNCHANGED <<handle_exists, slists, m_owned_slists, curl_slists, functions, curl_functions,
                 m_flags, curl_flags>>

Detach ==
  /\ attached /\ attached' = FALSE
  /\ UNCHANGED <<handle_exists, slists, m_owned_slists, curl_slists, functions, curl_functions,
                 m_flags, curl_flags>>

(* The done callback of a transfer, which is taken when it is called.       *)
TakeDone ==
  /\ attached /\ functions' = functions \ {"done"}
  /\ UNCHANGED <<handle_exists, attached, slists, m_owned_slists, curl_slists, curl_functions,
                 m_flags, curl_flags>>

Reset ==
  /\ handle_exists
  /\ attached' = FALSE
  /\ curl_slists' = None /\ curl_functions' = {} /\ curl_flags' = {}
  /\ functions' = {} /\ m_flags' = {}
  /\ m_owned_slists' = None /\ slists' = {}
  /\ UNCHANGED handle_exists

(* ~handle: detached, then cleaned up, then the members go.                 *)
Destroy ==
  /\ handle_exists /\ handle_exists' = FALSE
  /\ attached' = FALSE
  /\ curl_slists' = None /\ curl_functions' = {} /\ curl_flags' = {}
  /\ functions' = {} /\ m_owned_slists' = None /\ slists' = {}
  /\ UNCHANGED m_flags

HandleNext ==
  \/ \E o \in SlistOptions, l \in SlistIds, taken \in BOOLEAN : SetSlist(o, l, taken)
  \/ \E f \in Flags, on \in BOOLEAN, taken \in BOOLEAN : SetFlag(f, on, taken)
  \/ \E f \in CurlFunctions \cup {"done"} : SetFunction(f)
  \/ Attach \/ Detach \/ TakeDone \/ Reset \/ Destroy

HandleSpec == HandleInit /\ [][HandleNext]_handleVars

-------------------------------------------------------------------------------
HandleTypeOK ==
  /\ handle_exists \in BOOLEAN /\ attached \in BOOLEAN
  /\ slists \subseteq SlistIds
  /\ m_owned_slists \in [SlistOptions -> SlistIds \cup {NoSlist}]
  /\ curl_slists \in [SlistOptions -> SlistIds \cup {NoSlist}]
  /\ functions \subseteq CurlFunctions \cup {"done"} /\ curl_functions \subseteq CurlFunctions
  /\ m_flags \subseteq Flags /\ curl_flags \subseteq Flags

(* libcurl points to no list that was freed, calls no function that is not  *)
(* set, and the flags the executor goes by are libcurl's options; a list is *)
(* kept only as long as libcurl has it (handle.cpp:27-43, 86-93, 105-240).  *)
LibcurlAgrees ==
  /\ curl_slists = m_owned_slists
  /\ slists = {m_owned_slists[o] : o \in SlistOptions} \ {NoSlist}
  /\ curl_functions \subseteq functions
  /\ handle_exists => m_flags = curl_flags
  /\ attached => handle_exists

===============================================================================
