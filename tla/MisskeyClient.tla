---- MODULE MisskeyClient ----
(***************************************************************************)
(* misskey/src/misskey_client.c: a client of Misskey's REST API.  A raw    *)
(* call checks its arguments, posts a JSON body through misskey_request    *)
(* and hands the answer to its caller; a reader makes a raw call, parses   *)
(* the answer and hands out a structure or an array.  A call is one step:  *)
(* a client belongs to one thread.  Kept here are the outcome of the last  *)
(* call, what the client remembers of it, and who owns which memory.       *)
(***************************************************************************)
EXTENDS Integers

CONSTANTS OutOfMemory   \* an allocation may fail

\* What an instance has to satisfy.
MisskeyAssumption == OutOfMemory \in BOOLEAN

VARIABLES
    client,     \* none, live or freed
    proxy,      \* none; set; unparsed: a URL that curl_url_set refused
    proxy_enabled,
    code,       \* last_http_code
    detail,     \* last_error_detail: none, or the failure it describes
    last,       \* history: the last call's way, error, result and route
    held,       \* blocks the program has to free
    leaked,     \* blocks nobody can free any more
    stream      \* none, idle or freed

vars == <<client, proxy, proxy_enabled, code, detail, last, held, leaked, stream>>

Raw(endpoint, checks) == [endpoint |-> endpoint, checks |-> checks]

misskey_meta_raw == Raw("meta", {"client", "response_out"})
misskey_users_show_raw == Raw("users/show", {"client", "response_out", "user_id or username"})
misskey_notes_timeline_raw == Raw("notes/timeline", {})
misskey_notes_timeline_full_raw == Raw("notes/timeline", {})
misskey_notes_local_timeline_full_raw == Raw("notes/local-timeline", {})
misskey_notes_local_timeline_raw == misskey_notes_local_timeline_full_raw
misskey_notes_global_timeline_full_raw == Raw("notes/global-timeline", {})
misskey_notes_global_timeline_raw == misskey_notes_global_timeline_full_raw
misskey_notes_raw == Raw("notes", {})
misskey_notes_show_raw == Raw("notes/show", {"note_id"})
misskey_notes_delete_raw == Raw("notes/delete", {"note_id"})
misskey_notes_create_full_raw == Raw("notes/create", {"text, renote_id or file_ids"})
misskey_notes_create_raw == misskey_notes_create_full_raw
misskey_i_notifications_raw == Raw("i/notifications", {})
misskey_drive_raw == Raw("drive", {})
misskey_drive_files_raw == Raw("drive/files", {})
misskey_drive_files_delete_raw == Raw("drive/files/delete", {"file_id"})
misskey_drive_files_update_raw == Raw("drive/files/update", {"file_id"})
misskey_drive_files_find_raw == Raw("drive/files/find", {"hash"})
misskey_drive_files_show_raw == Raw("drive/files/show", {"file_id or url"})
misskey_drive_files_upload_from_url_raw == Raw("drive/files/upload-from-url", {"url"})
misskey_drive_folders_raw == Raw("drive/folders", {})
misskey_drive_folders_create_raw == Raw("drive/folders/create", {"name"})
misskey_drive_folders_delete_raw == Raw("drive/folders/delete", {"folder_id"})
misskey_drive_folders_update_raw == Raw("drive/folders/update", {"folder_id"})
misskey_translate_raw == Raw("notes/translate", {"note_id", "target_lang"})
misskey_clips_list_raw == Raw("clips/list", {})
misskey_clips_show_raw == Raw("clips/show", {"clip_id"})
misskey_clips_create_raw == Raw("clips/create", {"name"})
misskey_clips_update_raw == Raw("clips/update", {"clip_id"})
misskey_clips_delete_raw == Raw("clips/delete", {"clip_id"})
misskey_clips_add_note_raw == Raw("clips/add-note", {"clip_id", "note_id"})
misskey_clips_remove_note_raw == Raw("clips/remove-note", {"clip_id", "note_id"})
misskey_clips_notes_raw == Raw("clips/notes", {"clip_id"})
misskey_notes_reactions_create_raw ==
    Raw("notes/reactions/create", {"client", "note_id", "reaction", "response_out"})
misskey_notes_reactions_delete_raw ==
    Raw("notes/reactions/delete", {"client", "note_id", "response_out"})
misskey_notes_reactions_raw == Raw("notes/reactions", {"client", "note_id", "response_out"})

Raws == {
    misskey_meta_raw, misskey_users_show_raw, misskey_notes_timeline_raw,
    misskey_notes_timeline_full_raw, misskey_notes_local_timeline_raw,
    misskey_notes_global_timeline_raw, misskey_notes_raw, misskey_notes_show_raw,
    misskey_notes_delete_raw, misskey_notes_create_raw, misskey_i_notifications_raw,
    misskey_drive_raw, misskey_drive_files_raw, misskey_drive_files_delete_raw,
    misskey_drive_files_update_raw, misskey_drive_files_find_raw, misskey_drive_files_show_raw,
    misskey_drive_files_upload_from_url_raw, misskey_drive_folders_raw,
    misskey_drive_folders_create_raw, misskey_drive_folders_delete_raw,
    misskey_drive_folders_update_raw, misskey_translate_raw, misskey_clips_list_raw,
    misskey_clips_show_raw, misskey_clips_create_raw, misskey_clips_update_raw,
    misskey_clips_delete_raw, misskey_clips_add_note_raw, misskey_clips_remove_note_raw,
    misskey_clips_notes_raw, misskey_notes_reactions_create_raw,
    misskey_notes_reactions_delete_raw, misskey_notes_reactions_raw}

\* How a reader takes the answer: ack ignores it; strict wants JSON; lenient
\* takes anything; list wants an array and, given other JSON, forgets the tree
\* it has parsed; tidy wants an array and forgets nothing.
Reader(raw, checks, takes) ==
    [raw |-> raw, checks |-> checks \cup raw.checks, takes |-> takes]

Many == {"client", "array_out", "count_out"}
One == {"client", "out"}

misskey_users_show == Reader(misskey_users_show_raw, One, "strict")
misskey_meta == Reader(misskey_meta_raw, One, "strict")
misskey_notes_timeline == Reader(misskey_notes_timeline_raw, Many, "list")
misskey_notes_local_timeline == Reader(misskey_notes_local_timeline_raw, Many, "list")
misskey_notes_local_timeline_full == Reader(misskey_notes_local_timeline_full_raw, Many, "list")
misskey_notes_global_timeline == Reader(misskey_notes_global_timeline_raw, Many, "list")
misskey_notes_global_timeline_full == Reader(misskey_notes_global_timeline_full_raw, Many, "list")
misskey_notes_create == Reader(misskey_notes_create_raw, One, "strict")
misskey_notes_create_full == Reader(misskey_notes_create_full_raw, One, "strict")
misskey_notes_show == Reader(misskey_notes_show_raw, One, "strict")
misskey_notes_delete == Reader(misskey_notes_delete_raw, One, "ack")
misskey_notes == Reader(misskey_notes_raw, Many, "list")
misskey_i_notifications == Reader(misskey_i_notifications_raw, Many, "list")
misskey_drive == Reader(misskey_drive_raw, One, "strict")
parse_drive_files(raw) == Reader(raw, Many, "list")
misskey_drive_files == parse_drive_files(misskey_drive_files_raw)
misskey_drive_files_find == parse_drive_files(misskey_drive_files_find_raw)
misskey_drive_files_delete == Reader(misskey_drive_files_delete_raw, One, "ack")
misskey_drive_files_update == Reader(misskey_drive_files_update_raw, One, "lenient")
misskey_drive_files_show == Reader(misskey_drive_files_show_raw, One, "lenient")
misskey_drive_files_upload_from_url == Reader(misskey_drive_files_upload_from_url_raw, One, "lenient")
misskey_drive_folders == Reader(misskey_drive_folders_raw, Many, "list")
misskey_drive_folders_create == Reader(misskey_drive_folders_create_raw, One, "lenient")
misskey_drive_folders_delete == Reader(misskey_drive_folders_delete_raw, One, "ack")
misskey_drive_folders_update == Reader(misskey_drive_folders_update_raw, One, "lenient")
misskey_translate == Reader(misskey_translate_raw, One, "strict")
misskey_clips_list == Reader(misskey_clips_list_raw, Many, "list")
misskey_clips_show == Reader(misskey_clips_show_raw, One, "lenient")
misskey_clips_create == Reader(misskey_clips_create_raw, One, "lenient")
misskey_clips_update == Reader(misskey_clips_update_raw, One, "lenient")
misskey_clips_delete == Reader(misskey_clips_delete_raw, One, "ack")
misskey_clips_add_note == Reader(misskey_clips_add_note_raw, {"client"}, "ack")
misskey_clips_remove_note == Reader(misskey_clips_remove_note_raw, {"client"}, "ack")
misskey_clips_notes == Reader(misskey_clips_notes_raw, Many, "list")
misskey_notes_reactions_create == Reader(misskey_notes_reactions_create_raw, {"client"}, "ack")
misskey_notes_reactions_delete == Reader(misskey_notes_reactions_delete_raw, {"client"}, "ack")
misskey_notes_reactions == Reader(misskey_notes_reactions_raw, Many, "tidy")

Readers == {
    misskey_users_show, misskey_meta, misskey_notes_timeline, misskey_notes_local_timeline,
    misskey_notes_local_timeline_full, misskey_notes_global_timeline,
    misskey_notes_global_timeline_full, misskey_notes_create, misskey_notes_create_full,
    misskey_notes_show, misskey_notes_delete, misskey_notes, misskey_i_notifications,
    misskey_drive, misskey_drive_files, misskey_drive_files_find, misskey_drive_files_delete,
    misskey_drive_files_update, misskey_drive_files_show, misskey_drive_files_upload_from_url,
    misskey_drive_folders, misskey_drive_folders_create, misskey_drive_folders_delete,
    misskey_drive_folders_update, misskey_translate, misskey_clips_list, misskey_clips_show,
    misskey_clips_create, misskey_clips_update, misskey_clips_delete, misskey_clips_add_note,
    misskey_clips_remove_note, misskey_clips_notes, misskey_notes_reactions_create,
    misskey_notes_reactions_delete, misskey_notes_reactions}

---------------------------------------------------------------------------
\* What a server may answer: an error, no JSON, an object, an empty or a
\* filled array; or the transfer fails, or the request cannot be built.
Answers == {"network", "http", "garbage", "object", "empty", "items"}
Replies == Answers \cup IF OutOfMemory THEN {"memory"} ELSE {}
Transport(reply) ==
    CASE reply = "network" -> "NETWORK" [] reply = "http" -> "HTTP"
      [] reply = "memory" -> "ALLOC" [] OTHER -> "OK"

NoCall == [way |-> "none", err |-> "OK", out |-> "none", via |-> "none", reply |-> "none"]

Init ==
    /\ client = "none" /\ proxy = "none" /\ proxy_enabled = FALSE
    /\ code = 0 /\ detail = "none"
    /\ last = NoCall
    /\ held = {} /\ leaked = {} /\ stream = "none"

client_new_internal ==
    /\ client # "live"
    /\ client' = "live" /\ proxy' = "none" /\ proxy_enabled' = FALSE
    /\ code' = 0 /\ detail' = "none" /\ last' = NoCall
    /\ UNCHANGED <<held, leaked, stream>>

misskey_client_free ==
    /\ client = "live"
    /\ client' = "freed" /\ detail' = "none"
    /\ UNCHANGED <<proxy, proxy_enabled, code, last, held, leaked, stream>>

\* A URL that cannot be parsed leaves an empty proxy behind.
parse_proxy_url(good) == IF good THEN "set" ELSE "unparsed"

misskey_client_set_proxy_url(good) ==
    /\ client = "live"
    /\ proxy' = parse_proxy_url(good) /\ proxy_enabled' = TRUE
    /\ UNCHANGED <<client, code, detail, last, held, leaked, stream>>

misskey_client_set_proxy ==
    /\ client = "live"
    /\ proxy' = "set" /\ proxy_enabled' = TRUE
    /\ UNCHANGED <<client, code, detail, last, held, leaked, stream>>

misskey_client_clear_proxy ==
    /\ client = "live"
    /\ proxy' = "none" /\ proxy_enabled' = FALSE
    /\ UNCHANGED <<client, code, detail, last, held, leaked, stream>>

\* Nothing is set on the handle for a proxy without a host.
apply_proxy_to_curl == IF proxy_enabled /\ proxy = "set" THEN "proxy" ELSE "direct"

\* A missing argument, or an upload whose file does not open.
InvalidParam ==
    /\ last' = [way |-> "none", err |-> "INVALID_PARAM", out |-> "none", via |-> "none", reply |-> "none"]
    /\ UNCHANGED <<client, proxy, proxy_enabled, code, detail, held, leaked, stream>>

NullArgument ==
    /\ client = "live" /\ \E e \in Raws \cup Readers : e.checks # {}
    /\ InvalidParam

Code(reply) == CASE reply \in {"network", "memory"} -> 0 [] reply = "http" -> 500 [] OTHER -> 200

\* A detail is a copy, which there may be no memory for.
Details(reply) ==
    IF reply \notin {"network", "http"} THEN {"none"}
    ELSE {reply} \cup IF OutOfMemory THEN {"none"} ELSE {}

\* The second header is appended to the list and the result assigned to the
\* list: when there is no memory for it, the list so far is lost.
Headers(reply) == IF reply = "memory" THEN {{}, {"headers"}} ELSE {{}}

Remember_failure_only(reply, dropped) ==
    /\ code' = Code(reply)
    /\ detail' \in IF Details(reply) = {"none"} THEN {detail} ELSE Details(reply)
    /\ \E list \in Headers(reply) : leaked' = leaked \cup list \cup dropped

\* The client forgets the call before and remembers this one's failure;
\* dropped is what the caller loses of the answer.
misskey_request(reply, dropped) ==
    /\ code' = Code(reply)
    /\ detail' \in Details(reply)
    /\ \E list \in Headers(reply) : leaked' = leaked \cup list \cup dropped

\* A raw call: the answer is the caller's to free.
RawCall(reply) ==
    /\ client = "live" /\ "resp" \notin held
    /\ misskey_request(reply, {})
    /\ held' = IF Transport(reply) = "OK" THEN held \cup {"resp"} ELSE held
    /\ last' = [way |-> "request", err |-> Transport(reply), out |-> "none",
                via |-> apply_proxy_to_curl, reply |-> reply]
    /\ UNCHANGED <<client, proxy, proxy_enabled, stream>>

\* What a reader returns for the answer it got.
Verdict(takes, reply) ==
    CASE Transport(reply) # "OK" -> {Transport(reply)}
      [] takes \in {"strict", "list", "tidy"} /\ reply = "garbage" -> {"JSON"}
      [] takes \in {"list", "tidy"} /\ reply = "object" -> {"JSON"}
      [] takes = "list" /\ reply = "items" /\ OutOfMemory -> {"OK", "ALLOC"}
      [] takes = "tidy" /\ reply \in {"empty", "items"} /\ OutOfMemory -> {"OK", "ALLOC"}
      [] OTHER -> {"OK"}

\* A structure is blanked first; only an object has anything to fill it with.
misskey_note_init == "blank"
parse_note(reply) == IF reply = "object" THEN "filled" ELSE misskey_note_init

Output(takes, reply, err) ==
    CASE err # "OK" \/ takes = "ack" -> "none"
      [] takes \in {"list", "tidy"} -> IF reply = "items" \/ takes = "tidy" THEN "array" ELSE "none"
      [] OTHER -> parse_note(reply)

Dropped_resp(takes, reply) ==
    IF takes = "list" /\ reply \in {"garbage", "object"} THEN {"resp"} ELSE {}

\* The tree of an answer that is JSON but no array.
Dropped(takes, reply) == IF takes = "list" /\ reply = "object" THEN {"tree"} ELSE {}

ReadCall(takes, reply) ==
    /\ client = "live" /\ "array" \notin held
    /\ misskey_request(reply, Dropped(takes, reply))
    /\ \E err \in Verdict(takes, reply) :
         /\ last' = [way |-> "request", err |-> err, out |-> Output(takes, reply, err),
                     via |-> apply_proxy_to_curl, reply |-> reply]
         /\ held' = IF Output(takes, reply, err) = "array" THEN held \cup {"array"} ELSE held
    /\ UNCHANGED <<client, proxy, proxy_enabled, stream>>

\* The upload fills a form on the client's handle itself: neither the proxy
\* nor the memory of the last call is touched.
misskey_drive_files_create_raw(reply) ==
    /\ client = "live" /\ "resp" \notin held
    /\ held' = IF Transport(reply) = "OK" THEN held \cup {"resp"} ELSE held
    /\ last' = [way |-> "upload", err |-> Transport(reply), out |-> "none", via |-> "direct", reply |-> reply]
    /\ UNCHANGED <<client, proxy, proxy_enabled, code, detail, leaked, stream>>

misskey_drive_files_create(reply) ==
    /\ client = "live"
    /\ last' = [way |-> "upload", err |-> Transport(reply), via |-> "direct", reply |-> reply,
                out |-> IF Transport(reply) # "OK" THEN "none"
                        ELSE parse_note(reply)]
    /\ UNCHANGED <<client, proxy, proxy_enabled, code, detail, held, leaked, stream>>

\* A download of a known URL runs on a handle of its own; its file may not open.
Download ==
    \E reply \in Answers, opened \in BOOLEAN :
        last' = [way |-> "download", err |-> IF opened THEN Transport(reply) ELSE "INVALID_PARAM",
                 out |-> "none", via |-> apply_proxy_to_curl, reply |-> reply]

\* What the lookup says when it ends the download; an object without a URL does.
LookupErrors(reply) ==
    CASE Transport(reply) # "OK" -> {Transport(reply)}
      [] reply = "garbage" -> {"JSON"}
      [] OTHER -> {"INVALID_PARAM"}

\* Without a URL the file is looked up first.
misskey_drive_files_download(reply) ==
    /\ client = "live"
    /\ \/ Download /\ UNCHANGED <<code, detail, leaked>>
       \/ misskey_request(reply, {}) /\ reply = "object" /\ Download
       \/ /\ misskey_request(reply, {})
          /\ \E err \in LookupErrors(reply) :
               last' = [way |-> "lookup", err |-> err, out |-> "none",
                        via |-> apply_proxy_to_curl, reply |-> reply]
    /\ UNCHANGED <<client, proxy, proxy_enabled, held, stream>>

\* misskey_free_string and the free functions of the arrays.
misskey_free(block) ==
    /\ block \in held
    /\ held' = held \ {block}
    /\ UNCHANGED <<client, proxy, proxy_enabled, code, detail, last, leaked, stream>>

---------------------------------------------------------------------------
\* The WebSocket stream: the URL and CURLOPT_CONNECT_ONLY are set, but the
\* transfer that would connect is never performed.
misskey_stream_new_with_proxy ==
    /\ stream # "idle"
    /\ stream' = "idle"
    /\ UNCHANGED <<client, proxy, proxy_enabled, code, detail, last, held, leaked>>

misskey_stream_free ==
    /\ stream = "idle"
    /\ stream' = "freed"
    /\ UNCHANGED <<client, proxy, proxy_enabled, code, detail, last, held, leaked>>

\* Every message goes out through curl_ws_send.
curl_ws_send ==
    /\ stream = "idle"
    /\ last' = [way |-> "stream", err |-> "NETWORK", out |-> "none", via |-> "none", reply |-> "none"]
    /\ UNCHANGED <<client, proxy, proxy_enabled, code, detail, held, leaked, stream>>

misskey_stream_connect == curl_ws_send
misskey_stream_disconnect == curl_ws_send
misskey_stream_send == curl_ws_send
misskey_stream_subscribe_note == curl_ws_send
misskey_stream_unsubscribe_note == curl_ws_send

\* With no socket nothing arrives, and that is no error.
misskey_stream_poll ==
    /\ stream = "idle"
    /\ last' = [way |-> "stream", err |-> "OK", out |-> "none", via |-> "none", reply |-> "none"]
    /\ UNCHANGED <<client, proxy, proxy_enabled, code, detail, held, leaked, stream>>

Stream ==
    \/ misskey_stream_new_with_proxy \/ misskey_stream_free \/ misskey_stream_connect
    \/ misskey_stream_disconnect \/ misskey_stream_send \/ misskey_stream_subscribe_note
    \/ misskey_stream_unsubscribe_note \/ misskey_stream_poll

Next ==
    \/ client_new_internal \/ misskey_client_free
    \/ \E good \in BOOLEAN : misskey_client_set_proxy_url(good)
    \/ misskey_client_set_proxy \/ misskey_client_clear_proxy
    \/ NullArgument
    \/ \E reply \in Replies : RawCall(reply)
    \/ \E takes \in {e.takes : e \in Readers}, reply \in Replies : ReadCall(takes, reply)
    \/ \E reply \in Replies :
         \/ misskey_drive_files_create_raw(reply) \/ misskey_drive_files_create(reply)
         \/ misskey_drive_files_download(reply)
    \/ \E block \in {"resp", "array"} : misskey_free(block)
    \/ Stream

Spec == Init /\ [][Next]_vars

---------------------------------------------------------------------------
misskey_error_str(err) == err

\* What a program is told about its last call.
misskey_error_str_detail(err) ==
    IF code > 0 THEN IF detail # "none" THEN detail ELSE "http"
    ELSE IF detail # "none" THEN detail ELSE misskey_error_str(err)

Ways == {"none", "request", "upload", "download", "lookup", "stream"}

\* Every variable has its type.
TypeOK ==
    /\ client \in {"none", "live", "freed"} /\ stream \in {"none", "idle", "freed"}
    /\ proxy \in {"none", "set", "unparsed"} /\ proxy_enabled \in BOOLEAN
    /\ code \in {0, 200, 500} /\ detail \in {"none", "network", "http"}
    /\ last.way \in Ways /\ last.out \in {"none", "blank", "filled", "array"}
    /\ last.err \in {"OK", "INVALID_PARAM", "NETWORK", "HTTP", "JSON", "ALLOC"}
    /\ held \subseteq {"resp", "array"} /\ leaked \subseteq {"resp", "array", "tree", "headers"}

\* What misskey_error_str_detail says of a failed request is about that
\* request and not about one before it, and a success leaves no detail.
DetailIsOfThisRequest ==
    last.way = "request" /\ client = "live" =>
        /\ last.err = "NETWORK" => misskey_error_str_detail(last.err) \in {"network", "NETWORK"}
        /\ last.err = "HTTP" => misskey_error_str_detail(last.err) = "http"
        /\ last.err \in {"OK", "JSON", "ALLOC"} => detail = "none"

\* A tree is lost only when a list was asked for and other JSON came, the
\* headers only when memory ran out while a request was built: the answer
\* itself, the arrays and every other tree find their owner.
OnlyTreesAndHeadersLeak ==
    /\ leaked \subseteq {"tree", "headers"}
    /\ "tree" \in leaked' \ leaked => last'.reply = "object"
    /\ "headers" \in leaked' \ leaked => last'.reply = "memory"
NothingElseLeaks == [][OnlyTreesAndHeadersLeak]_vars

\* Once a proxy is set, requests go through it.
ProxyUsed == last.via = "direct" => ~proxy_enabled
====
