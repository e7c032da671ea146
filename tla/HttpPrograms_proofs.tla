---- MODULE HttpPrograms_proofs ----
(***************************************************************************)
(* What the three clients of libcurl keep, for any requests, threads and   *)
(* limits of the queue, any bodies and pages of github, and with or        *)
(* without memory: each library's invariant, and then the programs that    *)
(* use one of them.  The queue's own is proved in CurlQueue_proofs.        *)
(***************************************************************************)
EXTENDS HttpPrograms, SequenceTheorems, TLAPS

(***************************************************************************)
(* github: what the shared handle inherits always has a cause among the    *)
(* endpoints called before.                                                *)
(***************************************************************************)

Methods == {"POST", "PATCH", "PUT", "DELETE"}
Forms == {"none", "glued", "first", "appended", "unpaged", "whole"}

\* Every row of the table: an endpoint that sets a method of its own means it,
\* one that takes a body and sets none means POST, any other one reads.
Row(e) ==
    /\ e.list \in Forms
    /\ e.sized => e.means = "PATCH" /\ e.body
    /\ \/ e.custom \in {"PATCH", "PUT", "DELETE"} /\ e.means = e.custom
       \/ e.custom = None /\ e.means = "POST" /\ e.body
       \/ e.custom = None /\ e.means = "GET" /\ ~e.body

\* What each kind of row comes to.
LEMMA PostRow ==
    ASSUME NEW name, NEW checks, NEW follows, "data" \in checks \cup follows
    PROVE  Row(Github!Post(name, checks, follows)) /\ Github!Post(name, checks, follows).means = "POST"
BY DEF Row, Forms, Github!Post, Github!Endpoint

LEMMA PatchRow ==
    ASSUME NEW name, NEW checks, NEW follows
    PROVE  Row(Github!Patch(name, checks, follows)) /\ Github!Patch(name, checks, follows).means = "PATCH"
BY DEF Row, Forms, Github!Patch, Github!Endpoint

LEMMA AssetUpdateRow ==
    /\ Row(Github!gh_client_repo_release_asset_update)
    /\ Github!gh_client_repo_release_asset_update.means = "PATCH"
BY DEF Row, Forms, Github!gh_client_repo_release_asset_update, Github!Patch, Github!Endpoint

LEMMA PutRow ==
    ASSUME NEW name, NEW checks, NEW follows
    PROVE  Row(Github!Put(name, checks, follows)) /\ Github!Put(name, checks, follows).means = "PUT"
BY DEF Row, Forms, Github!Put, Github!Endpoint

LEMMA DeleteRow ==
    ASSUME NEW name, NEW checks
    PROVE  Row(Github!Delete(name, checks)) /\ Github!Delete(name, checks).means = "DELETE"
BY DEF Row, Forms, Github!Delete, Github!Endpoint

\* A row that sets nothing.
Quiet(e) == Row(e) /\ e.custom = None /\ e.means = "GET" /\ ~e.body

LEMMA ReadRow ==
    ASSUME NEW name, NEW checks, NEW follows, "data" \notin checks \cup follows
    PROVE  Quiet(Github!Read(name, checks, follows))
BY DEF Quiet, Row, Forms, Github!Read, Github!Endpoint

LEMMA ListRow ==
    ASSUME NEW name, NEW checks, NEW follows, NEW form \in Forms, "data" \notin checks \cup follows
    PROVE  Quiet(Github!List(name, checks, follows, form))
BY DEF Quiet, Row, Github!List, Github!Endpoint

LEMMA SetterRow ==
    ASSUME NEW e \in Github!Setters
    PROVE  Row(e) /\ e.means \in Methods
<1>1. \/ \E name, checks, follows : e = Github!Post(name, checks, follows) /\ "data" \in checks \cup follows
      \/ \E name, checks, follows : e = Github!Patch(name, checks, follows)
      \/ \E name, checks, follows : e = Github!Put(name, checks, follows)
      \/ \E name, checks : e = Github!Delete(name, checks)
      \/ e = Github!gh_client_repo_release_asset_update
  BY DEF Github!Setters, Github!Repo,
     Github!gh_client_repo_release_asset_delete, Github!gh_client_repo_create,
     Github!gh_client_repo_update, Github!gh_client_repo_delete, Github!gh_client_repo_release_create,
     Github!gh_client_repo_release_update, Github!gh_client_repo_release_delete,
     Github!gh_client_repo_release_gen_notes, Github!gh_client_repo_branch_rename,
     Github!gh_client_repo_branch_sync_upstream, Github!gh_client_repo_branch_merge,
     Github!gh_client_user_block_by_id, Github!gh_client_user_unblock_by_id,
     Github!gh_client_issue_create, Github!gh_client_issue_update, Github!gh_client_issue_lock,
     Github!gh_client_issue_unlock
<1>2. QED
  BY <1>1, PostRow, PatchRow, PutRow, DeleteRow, AssetUpdateRow DEF Methods

LEMMA ListingRow == ASSUME NEW e \in Github!Listings PROVE Quiet(e)
<1>1. \E name, checks, follows : \E form \in Forms :
        e = Github!List(name, checks, follows, form) /\ "data" \notin checks \cup follows
  BY DEF Forms, Github!Listings, Github!Repo,
     Github!gh_client_repo_list_by_org_name, Github!gh_client_repo_get,
     Github!gh_client_repo_languages_list, Github!gh_client_repo_releases_list,
     Github!gh_client_repo_release_assets_list, Github!gh_client_repo_stargasers_list,
     Github!gh_client_repo_commits_list, Github!gh_client_repo_pr_commits_list,
     Github!gh_client_repo_branches_list, Github!gh_client_repo_pull_request_list,
     Github!gh_client_user_blocked_list, Github!gh_client_user_followers_list,
     Github!gh_client_user_stars_list, Github!gh_client_user_repositories_list,
     Github!gh_client_issues_for_user_list, Github!gh_client_issues_by_repo_list,
     Github!gh_client_events_by_org_list, Github!gh_client_events_by_user_list
<1>2. QED
  BY <1>1, ListRow

LEMMA ReaderRow == ASSUME NEW e \in Github!Readers PROVE Quiet(e)
<1>1. \E name, checks, follows :
        e = Github!Read(name, checks, follows) /\ "data" \notin checks \cup follows
  BY DEF Github!Readers, Github!Repo,
     Github!gh_client_octocat_says, Github!gh_client_repo_releases_latest,
     Github!gh_client_repo_release_by_tag, Github!gh_client_repo_release_by_id,
     Github!gh_client_repo_release_asset_get, Github!gh_client_repo_commit_get,
     Github!gh_client_repo_commits_compare, Github!gh_client_repo_branch_get,
     Github!gh_client_repo_pull_request_get, Github!gh_client_user_logged_in_get,
     Github!gh_client_user_by_id_get, Github!gh_client_user_by_id_hovercard_get,
     Github!gh_client_user_blocked_by_id, Github!gh_client_user_rate_limit_info,
     Github!gh_client_issue_get, Github!gh_client_actions_billing_by_org,
     Github!gh_client_metrics_community_profile, Github!gh_client_metrics_repository_clones,
     Github!gh_client_metrics_top_referral_paths, Github!gh_client_metrics_top_referral_sources,
     Github!gh_client_metrics_page_views, Github!gh_client_codes_of_conduct_list,
     Github!gh_client_code_of_conduct_get_by_key
<1>2. QED
  BY <1>1, ReadRow

\* An endpoint that is no setter sets neither a method nor a body.
LEMMA EndpointRow ==
    ASSUME NEW e \in Github!Endpoints
    PROVE  /\ Row(e)
           /\ e \in Github!Setters => e.means \in Methods
           /\ e \notin Github!Setters => Quiet(e)
BY SetterRow, ListingRow, ReaderRow DEF Github!Endpoints, Quiet

\* What the handle carries over, and the page a program that follows a listing is on.
Caused ==
    /\ sticky.custom # None => sticky.custom \in setters
    /\ sticky.custom = None /\ sticky.fields # None => "POST" \in setters
    /\ sticky.size # None => "PATCH" \in setters

Walks == [on : {"idle", "on", "done", "failed"}, form : Forms, big : BOOLEAN,
          page : 0..Pages, seen : Seq(0..Pages), next : 0..Pages]

GithubInv ==
    /\ Github!TypeOK /\ walk \in Walks
    /\ Caused
    /\ Github!DriftHasCause /\ Github!BodyIsOwn

LEMMA GithubInitKeeps == ASSUME Github!GithubAssumption, Github!Init PROVE GithubInv
<1>1. Github!TypeOK /\ Github!DriftHasCause /\ Github!BodyIsOwn
  BY DEF Github!Init, Github!GithubAssumption, Github!Fresh, Github!NoCall, Github!NoWalk, Github!TypeOK,
     Github!DriftHasCause, Github!BodyIsOwn
<1>2. walk \in Walks /\ Caused
  BY DEF Github!Init, Github!GithubAssumption, Github!Fresh, Github!NoWalk, Walks, Forms, Caused
<1>3. QED
  BY <1>1, <1>2 DEF GithubInv

\* A step that asks for nothing: the handle is made anew or left alone.
LEMMA UnaskedKeeps ==
    ASSUME Github!GithubAssumption, GithubInv,
           curl' \in {"none", "live", "freed"}, walk' \in Walks, asked'.sent = None, asked'.chars = 0,
           UNCHANGED <<sticky, setters>> \/ (sticky' = Github!Fresh /\ setters' = {})
    PROVE  GithubInv'
<1>1. /\ Caused'
      /\ sticky' \in [custom : {None, "PATCH", "PUT", "DELETE"}, fields : Bodies \cup {None},
                     size : Nat \cup {None}]
      /\ setters' \subseteq Methods
  <2>1. CASE UNCHANGED <<sticky, setters>>
    BY <2>1 DEF GithubInv, Caused, Github!TypeOK, Methods
  <2>2. CASE sticky' = Github!Fresh /\ setters' = {}
    BY <2>2 DEF Caused, Github!Fresh
  <2>3. QED
    BY <2>1, <2>2
<1>2. Github!DriftHasCause' /\ Github!BodyIsOwn'
  BY DEF Github!DriftHasCause, Github!BodyIsOwn
<1>3. QED
  BY <1>1, <1>2 DEF GithubInv, Github!TypeOK, Walks, Methods

\* A request is what its endpoint sets and what the handle inherits.
LEMMA PerformKeeps ==
    ASSUME Github!GithubAssumption, GithubInv, walk' \in Walks,
           NEW e \in Github!Endpoints, NEW b \in Bodies \cup {None}, NEW o, Github!perform(e, b, o)
    PROVE  GithubInv'
<1>. DEFINE opt == Github!Setopts(e, b)
<1>1. /\ sticky \in [custom : {None, "PATCH", "PUT", "DELETE"}, fields : Bodies \cup {None},
                     size : Nat \cup {None}]
      /\ setters \subseteq Methods /\ Caused
  BY DEF GithubInv, Github!TypeOK, Methods
<1>2. /\ Row(e)
      /\ e \in Github!Setters => e.means \in Methods
      /\ e \notin Github!Setters => Quiet(e)
  BY EndpointRow
<1>3. /\ sticky' = opt
      /\ setters' = IF e \in Github!Setters THEN setters \cup {e.means} ELSE setters
      /\ asked' = Github!Sent(e, opt, b, o)
      /\ e.body <=> b # None
      /\ curl' = curl
  BY DEF Github!perform
<1>4. /\ opt.custom = IF e.custom = None THEN sticky.custom ELSE e.custom
      /\ opt.fields = IF e.body THEN b ELSE sticky.fields
      /\ opt.size = IF e.sized THEN Length[b] ELSE sticky.size
  BY DEF Github!Setopts
<1>5. opt \in [custom : {None, "PATCH", "PUT", "DELETE"}, fields : Bodies \cup {None},
               size : Nat \cup {None}]
  BY <1>1, <1>2, <1>3, <1>4 DEF Row, Github!Setopts, Github!GithubAssumption
<1>6. setters' \subseteq Methods /\ setters \subseteq setters'
  BY <1>1, <1>2, <1>3
<1>7. Caused'
  <2>1. opt.custom # None => opt.custom \in setters'
    BY <1>1, <1>2, <1>3, <1>4 DEF Caused, Row, Quiet, Github!GithubAssumption
  <2>2. opt.custom = None /\ opt.fields # None => "POST" \in setters'
    BY <1>1, <1>2, <1>3, <1>4 DEF Caused, Row, Quiet, Github!GithubAssumption
  <2>3. opt.size # None => "PATCH" \in setters'
    BY <1>1, <1>2, <1>3, <1>4 DEF Caused, Row, Quiet, Github!GithubAssumption
  <2>4. QED
    BY <1>3, <2>1, <2>2, <2>3 DEF Caused
<1>8. /\ asked'.means = e.means /\ asked'.own = b /\ asked'.fields = opt.fields
      /\ asked'.sent = Github!Method(opt) /\ asked'.chars = Github!Chars(opt)
  BY <1>3 DEF Github!Sent
<1>9. Github!Method(opt) \in {"GET", "POST", "PATCH", "PUT", "DELETE"}
  BY <1>5 DEF Github!Method
<1>10. Github!Chars(opt) \in Nat
  BY <1>5 DEF Github!Chars, Github!GithubAssumption
<1>11. Github!DriftHasCause'
  BY <1>1, <1>2, <1>3, <1>4, <1>8 DEF Github!DriftHasCause, Github!Method, Caused, Row, Quiet, Github!GithubAssumption
<1>12. Github!BodyIsOwn'
  BY <1>1, <1>2, <1>3, <1>4, <1>6, <1>8 DEF Github!BodyIsOwn, Github!Chars, Caused, Row, Quiet, Github!GithubAssumption
<1>13. Github!TypeOK'
  BY <1>3, <1>5, <1>6, <1>8, <1>9, <1>10 DEF GithubInv, Github!TypeOK, Walks, Methods
<1>14. QED
  BY <1>7, <1>11, <1>12, <1>13 DEF GithubInv

\* A Link header names pages of the listing only.
LEMMA NextPage ==
    ASSUME NEW page \in 0..Pages, Github!GithubAssumption PROVE Github!header_cb(page) \in 0..Pages
<1>1. CASE \E l \in Github!parse_link_header(page) : l[1] = "next"
  <2>. DEFINE l == CHOOSE l \in Github!parse_link_header(page) : l[1] = "next"
  <2>1. l \in Github!parse_link_header(page) /\ l[1] = "next"
    BY <1>1
  <2>2. Github!header_cb(page) = l[2]
    BY <1>1 DEF Github!header_cb
  <2>. HIDE DEF l
  <2>3. l[2] = page + 1 /\ page \in 1..(Pages - 1)
    BY <2>1 DEF Github!parse_link_header
  <2>4. QED
    BY <2>2, <2>3 DEF Github!GithubAssumption
<1>2. CASE ~ \E l \in Github!parse_link_header(page) : l[1] = "next"
  BY <1>2 DEF Github!header_cb, Github!GithubAssumption
<1>3. QED
  BY <1>1, <1>2

LEMMA WalkStepWalks ==
    ASSUME Github!GithubAssumption, walk \in Walks, NEW e, NEW o, Github!WalkStep(e, o)
    PROVE  walk' \in Walks
<1>1. PICK page \in Github!Wanted(walk.form, walk.big, walk.next) :
        walk' = [walk EXCEPT
                   !.page = page, !.next = Github!header_cb(page),
                   !.seen = IF Len(@) <= Pages THEN Append(@, page) ELSE @,
                   !.on = IF o # "answered" THEN "failed"
                          ELSE IF Github!header_cb(page) = 0 THEN "done" ELSE "on"]
  BY DEF Github!WalkStep
<1>2. page \in 0..Pages
  BY DEF Github!Wanted, Walks, Github!GithubAssumption
<1>3. Github!header_cb(page) \in 0..Pages
  BY <1>2, NextPage
<1>4. Append(walk.seen, page) \in Seq(0..Pages)
  BY <1>2, AppendProperties DEF Walks
<1>5. QED
  BY <1>1, <1>2, <1>3, <1>4 DEF Walks

LEMMA GithubStep == ASSUME Github!GithubAssumption, GithubInv, [Github!Next]_Github!vars PROVE GithubInv'
<1>1. CASE Github!gh_client_init
  BY <1>1, UnaskedKeeps DEF Github!gh_client_init, Github!NoCall, GithubInv
<1>2. CASE Github!gh_client_free
  BY <1>2 DEF Github!gh_client_free, GithubInv, Github!TypeOK, Caused, Github!DriftHasCause, Github!BodyIsOwn
<1>3. ASSUME NEW e, Github!NullArgument(e) PROVE GithubInv'
  BY <1>3, UnaskedKeeps DEF Github!NullArgument, Github!NoCall, GithubInv, Github!TypeOK
<1>4. ASSUME NEW e \in Github!Endpoints, NEW b \in Bodies \cup {None}, NEW o, Github!Call(e, b, o)
      PROVE  GithubInv'
  BY <1>4, PerformKeeps DEF Github!Call, GithubInv
<1>5. ASSUME NEW b \in Bodies, NEW o, Github!gh_client_repo_release_asset_upload(b, o) PROVE GithubInv'
  BY <1>5 DEF Github!gh_client_repo_release_asset_upload, GithubInv, Github!TypeOK, Caused,
     Github!DriftHasCause, Github!BodyIsOwn, Github!GithubAssumption
<1>6. ASSUME NEW e \in Github!Listings, NEW big \in BOOLEAN, Github!WalkStart(e, big) PROVE GithubInv'
  <2>1. e.list \in Forms
    BY ListingRow DEF Quiet, Row
  <2>2. walk' \in Walks
    BY <1>6, <2>1 DEF Github!WalkStart, Walks, Github!GithubAssumption
  <2>3. QED
    BY <1>6, <2>2, UnaskedKeeps DEF Github!WalkStart, Github!NoCall, GithubInv, Github!TypeOK
<1>7. ASSUME NEW e \in Github!Listings, NEW o, Github!WalkStep(e, o) PROVE GithubInv'
  <2>1. walk' \in Walks
    BY <1>7, WalkStepWalks DEF GithubInv
  <2>2. e \in Github!Endpoints
    BY DEF Github!Endpoints
  <2>3. QED
    BY <1>7, <2>1, <2>2, PerformKeeps DEF Github!WalkStep
<1>8. CASE UNCHANGED Github!vars
  BY <1>8 DEF Github!vars, GithubInv, Github!TypeOK, Caused, Github!DriftHasCause, Github!BodyIsOwn
<1>9. QED
  BY <1>1, <1>2, <1>3, <1>4, <1>5, <1>6, <1>7, <1>8 DEF Github!Next

(***************************************************************************)
(* misskey: what a client remembers of its last request, and what memory   *)
(* it loses, for every sequence of calls and answers.                      *)
(***************************************************************************)

\* The code and the detail agree with the outcome a request had.
Remembered ==
    last.way = "request" /\ client = "live" =>
        /\ last.err = "NETWORK" => code = 0 /\ detail \in {"none", "network"}
        /\ last.err = "HTTP" => code = 500 /\ detail \in {"none", "http"}
        /\ last.err \notin {"NETWORK", "HTTP"} => detail = "none"

MisskeyInv == Remembered /\ leaked \subseteq {"tree", "headers"}

\* Each block that is lost is lost by the answer that explains it.
Explained ==
    /\ "tree" \in leaked' \ leaked => last'.reply = "object"
    /\ "headers" \in leaked' \ leaked => last'.reply = "memory"

\* A reader's verdict names the failure of its transfer, and no other of these.
LEMMA VerdictOfTransfer ==
    ASSUME NEW takes, NEW reply \in Misskey!Replies, NEW err \in Misskey!Verdict(takes, reply)
    PROVE  /\ err = "NETWORK" => reply = "network"
           /\ err = "HTTP" => reply = "http"
           /\ err \notin {"NETWORK", "HTTP"} => reply \notin {"network", "http"}
BY DEF Misskey!Verdict, Misskey!Transport, Misskey!Replies, Misskey!Answers

\* What misskey_request leaves behind, by the answer it got.
LEMMA RequestRemembers ==
    ASSUME NEW reply \in Misskey!Replies, NEW dropped, Misskey!misskey_request(reply, dropped)
    PROVE  /\ reply = "network" => code' = 0 /\ detail' \in {"none", "network"}
           /\ reply = "http" => code' = 500 /\ detail' \in {"none", "http"}
           /\ reply \notin {"network", "http"} => detail' = "none"
BY DEF Misskey!misskey_request, Misskey!Code, Misskey!Details, Misskey!Replies, Misskey!Answers

\* What is lost with a request: what its caller drops, and the headers only
\* when there was no memory.
LEMMA RequestLoses ==
    ASSUME NEW reply, NEW dropped, Misskey!misskey_request(reply, dropped)
    PROVE  \A block \in leaked' : block \in leaked \/ block \in dropped \/ (block = "headers" /\ reply = "memory")
<1>1. PICK list \in Misskey!Headers(reply) : leaked' = leaked \cup list \cup dropped
  BY DEF Misskey!misskey_request
<1>2. \A block \in list : block = "headers" /\ reply = "memory"
  BY DEF Misskey!Headers
<1>3. \A block \in leaked' : block \in leaked \/ block \in list \/ block \in dropped
  BY <1>1
<1>4. QED
  BY <1>2, <1>3

LEMMA RawCallKeeps ==
    ASSUME MisskeyInv, NEW reply \in Misskey!Replies, Misskey!RawCall(reply)
    PROVE  MisskeyInv' /\ Explained
<1>1. last'.err = Misskey!Transport(reply) /\ last'.reply = reply /\ Misskey!misskey_request(reply, {})
  BY DEF Misskey!RawCall
<1>2. /\ Misskey!Transport(reply) = "NETWORK" => reply = "network"
      /\ Misskey!Transport(reply) = "HTTP" => reply = "http"
      /\ Misskey!Transport(reply) \notin {"NETWORK", "HTTP"} => reply \notin {"network", "http"}
  BY DEF Misskey!Transport, Misskey!Replies, Misskey!Answers
<1>3. Remembered'
  BY <1>1, <1>2, RequestRemembers DEF Remembered
<1>4. \A block \in leaked' : block \in leaked \/ (block = "headers" /\ reply = "memory")
  BY <1>1, RequestLoses
<1>5. QED
  BY <1>1, <1>3, <1>4 DEF MisskeyInv, Explained

\* A reader loses the tree of JSON that is no array, and nothing else.
LEMMA ReadCallKeeps ==
    ASSUME MisskeyInv, NEW takes, NEW reply \in Misskey!Replies, Misskey!ReadCall(takes, reply)
    PROVE  MisskeyInv' /\ Explained
<1>1. PICK err \in Misskey!Verdict(takes, reply) : last'.err = err /\ last'.reply = reply
  BY DEF Misskey!ReadCall
<1>2. Misskey!misskey_request(reply, Misskey!Dropped(takes, reply))
  BY DEF Misskey!ReadCall
<1>3. /\ Misskey!Dropped(takes, reply) \subseteq {"tree"}
      /\ Misskey!Dropped(takes, reply) # {} => reply = "object"
  BY DEF Misskey!Dropped
<1>4. Remembered'
  BY <1>1, <1>2, VerdictOfTransfer, RequestRemembers DEF Remembered
<1>5. \A block \in leaked' : \/ block \in leaked \/ block \in Misskey!Dropped(takes, reply)
                             \/ block = "headers" /\ reply = "memory"
  BY <1>2, RequestLoses
<1>6. \A block \in leaked' : \/ block \in leaked
                             \/ block = "tree" /\ reply = "object"
                             \/ block = "headers" /\ reply = "memory"
  BY <1>3, <1>5
<1>7. QED
  BY <1>1, <1>4, <1>6 DEF MisskeyInv, Explained

LEMMA DownloadKeeps ==
    ASSUME MisskeyInv, NEW reply \in Misskey!Replies, Misskey!misskey_drive_files_download(reply)
    PROVE  MisskeyInv' /\ Explained
<1>1. leaked' = leaked \/ (Misskey!misskey_request(reply, {}) /\ (reply = "memory" => last'.reply = "memory"))
  BY DEF Misskey!misskey_drive_files_download
<1>2. last'.way \in {"download", "lookup"}
  BY DEF Misskey!misskey_drive_files_download, Misskey!Download
<1>3. \A block \in leaked' : block \in leaked \/ (block = "headers" /\ last'.reply = "memory")
  <2>1. CASE leaked' = leaked
    BY <2>1
  <2>2. CASE Misskey!misskey_request(reply, {}) /\ (reply = "memory" => last'.reply = "memory")
    <3>1. \A block \in leaked' : block \in leaked \/ (block = "headers" /\ reply = "memory")
      BY <2>2, RequestLoses
    <3>2. QED
      BY <2>2, <3>1
  <2>3. QED
    BY <1>1, <2>1, <2>2
<1>4. QED
  BY <1>2, <1>3 DEF MisskeyInv, Remembered, Explained

\* A step that loses nothing keeps the invariant when it leaves the memory of
\* the last request alone, ends the client, or is no request.
Apart ==
    /\ leaked' = leaked
    /\ \/ UNCHANGED <<client, code, detail, last>>
       \/ client' # "live"
       \/ last'.way # "request"

LEMMA ApartKeeps == ASSUME MisskeyInv, Apart PROVE MisskeyInv' /\ Explained
BY DEF Apart, MisskeyInv, Remembered, Explained

LEMMA LifeApart == Misskey!client_new_internal \/ Misskey!misskey_client_free => Apart
<1>1. ASSUME Misskey!client_new_internal PROVE Apart
  <2>1. last'.way = "none"
    BY <1>1 DEF Misskey!client_new_internal, Misskey!NoCall
  <2>2. QED
    BY <1>1, <2>1 DEF Misskey!client_new_internal, Apart
<1>2. ASSUME Misskey!misskey_client_free PROVE Apart
  BY <1>2 DEF Misskey!misskey_client_free, Apart
<1>3. QED
  BY <1>1, <1>2

LEMMA UploadApart ==
    ASSUME NEW reply, Misskey!misskey_drive_files_create_raw(reply) \/ Misskey!misskey_drive_files_create(reply)
    PROVE  Apart
<1>1. CASE Misskey!misskey_drive_files_create_raw(reply)
  <2>1. last'.way = "upload"
    BY <1>1 DEF Misskey!misskey_drive_files_create_raw
  <2>2. QED
    BY <1>1, <2>1 DEF Misskey!misskey_drive_files_create_raw, Apart
<1>2. CASE Misskey!misskey_drive_files_create(reply)
  <2>1. last'.way = "upload"
    BY <1>2 DEF Misskey!misskey_drive_files_create
  <2>2. QED
    BY <1>2, <2>1 DEF Misskey!misskey_drive_files_create, Apart
<1>3. QED
  BY <1>1, <1>2

LEMMA StreamApart == Misskey!Stream => Apart
<1>1. ASSUME Misskey!misskey_stream_new_with_proxy \/ Misskey!misskey_stream_free PROVE Apart
  BY <1>1 DEF Misskey!misskey_stream_new_with_proxy, Misskey!misskey_stream_free, Apart
<1>2. ASSUME Misskey!curl_ws_send PROVE Apart
  <2>1. last'.way = "stream"
    BY <1>2 DEF Misskey!curl_ws_send
  <2>2. QED
    BY <1>2, <2>1 DEF Misskey!curl_ws_send, Apart
<1>3. ASSUME Misskey!misskey_stream_poll PROVE Apart
  <2>1. last'.way = "stream"
    BY <1>3 DEF Misskey!misskey_stream_poll
  <2>2. QED
    BY <1>3, <2>1 DEF Misskey!misskey_stream_poll, Apart
<1>4. QED
  BY <1>1, <1>2, <1>3 DEF Misskey!Stream, Misskey!misskey_stream_connect, Misskey!misskey_stream_disconnect,
     Misskey!misskey_stream_send, Misskey!misskey_stream_subscribe_note, Misskey!misskey_stream_unsubscribe_note

\* Every other call stands apart from the memory of the last request.
LEMMA OthersApart ==
    ASSUME \/ Misskey!client_new_internal \/ Misskey!misskey_client_free
           \/ \E good \in BOOLEAN : Misskey!misskey_client_set_proxy_url(good)
           \/ Misskey!misskey_client_set_proxy \/ Misskey!misskey_client_clear_proxy
           \/ Misskey!NullArgument
           \/ \E reply \in Misskey!Replies :
                Misskey!misskey_drive_files_create_raw(reply) \/ Misskey!misskey_drive_files_create(reply)
           \/ \E block \in {"resp", "array"} : Misskey!misskey_free(block)
           \/ Misskey!Stream
           \/ UNCHANGED Misskey!vars
    PROVE  Apart
<1>1. ASSUME NEW good \in BOOLEAN, Misskey!misskey_client_set_proxy_url(good) PROVE Apart
  BY <1>1 DEF Misskey!misskey_client_set_proxy_url, Apart
<1>2. ASSUME Misskey!misskey_client_set_proxy \/ Misskey!misskey_client_clear_proxy PROVE Apart
  BY <1>2 DEF Misskey!misskey_client_set_proxy, Misskey!misskey_client_clear_proxy, Apart
<1>3. ASSUME Misskey!NullArgument PROVE Apart
  <2>1. last'.way = "none"
    BY <1>3 DEF Misskey!NullArgument, Misskey!InvalidParam
  <2>2. QED
    BY <1>3, <2>1 DEF Misskey!NullArgument, Misskey!InvalidParam, Apart
<1>4. ASSUME NEW block, Misskey!misskey_free(block) PROVE Apart
  BY <1>4 DEF Misskey!misskey_free, Apart
<1>5. ASSUME UNCHANGED Misskey!vars PROVE Apart
  BY <1>5 DEF Misskey!vars, Apart
<1>6. QED
  BY <1>1, <1>2, <1>3, <1>4, <1>5, LifeApart, UploadApart, StreamApart

LEMMA MisskeyStep == ASSUME MisskeyInv, [Misskey!Next]_Misskey!vars PROVE MisskeyInv' /\ Explained
BY RawCallKeeps, ReadCallKeeps, DownloadKeeps, OthersApart, ApartKeeps DEF Misskey!Next

(* The types of a client's variables *)

Errors == {"OK", "INVALID_PARAM", "NETWORK", "HTTP", "JSON", "ALLOC"}

LEMMA RequestType ==
    ASSUME NEW reply \in Misskey!Replies, NEW dropped, Misskey!misskey_request(reply, dropped)
    PROVE  code' \in {0, 200, 500} /\ detail' \in {"none", "network", "http"}
BY DEF Misskey!misskey_request, Misskey!Code, Misskey!Details, Misskey!Replies, Misskey!Answers

LEMMA TransportType == ASSUME NEW reply PROVE Misskey!Transport(reply) \in Errors
BY DEF Misskey!Transport, Errors

\* A call that says what came of it and leaves the client's settings alone.
LEMMA TypedCall ==
    ASSUME Misskey!TypeOK, UNCHANGED <<client, proxy, proxy_enabled, stream>>,
           code' \in {0, 200, 500}, detail' \in {"none", "network", "http"},
           last'.way \in Misskey!Ways, last'.out \in {"none", "blank", "filled", "array"},
           last'.err \in Errors,
           held' \subseteq {"resp", "array"}, leaked' \subseteq {"resp", "array", "tree", "headers"}
    PROVE  Misskey!TypeOK'
BY DEF Misskey!TypeOK, Errors

LEMMA CallType ==
    ASSUME Misskey!TypeOK, NEW reply \in Misskey!Replies,
           \/ Misskey!RawCall(reply)
           \/ \E takes \in {e.takes : e \in Misskey!Readers} : Misskey!ReadCall(takes, reply)
    PROVE  Misskey!TypeOK'
<1>1. CASE Misskey!RawCall(reply)
  <2>1. Misskey!misskey_request(reply, {}) /\ held' \subseteq {"resp", "array"}
    BY <1>1 DEF Misskey!RawCall, Misskey!TypeOK
  <2>2. \A block \in leaked' : block \in leaked \/ block = "headers"
    BY <2>1, RequestLoses
  <2>3. leaked' \subseteq {"resp", "array", "tree", "headers"}
    BY <2>2 DEF Misskey!TypeOK
  <2>4. last'.way = "request" /\ last'.out = "none" /\ last'.err \in Errors
    BY <1>1, TransportType DEF Misskey!RawCall
  <2>5. UNCHANGED <<client, proxy, proxy_enabled, stream>>
    BY <1>1 DEF Misskey!RawCall
  <2>6. QED
    BY <2>1, <2>3, <2>4, <2>5, RequestType, TypedCall DEF Misskey!Ways
<1>2. ASSUME NEW takes, Misskey!ReadCall(takes, reply) PROVE Misskey!TypeOK'
  <2>1. PICK err \in Misskey!Verdict(takes, reply) :
          /\ last' = [way |-> "request", err |-> err, out |-> Misskey!Output(takes, reply, err),
                      via |-> Misskey!apply_proxy_to_curl, reply |-> reply]
          /\ held' = IF Misskey!Output(takes, reply, err) = "array" THEN held \cup {"array"} ELSE held
    BY <1>2 DEF Misskey!ReadCall
  <2>2. err \in Errors
    BY TransportType DEF Misskey!Verdict, Errors
  <2>3. Misskey!Output(takes, reply, err) \in {"none", "blank", "filled", "array"}
    BY DEF Misskey!Output, Misskey!parse_note, Misskey!misskey_note_init
  <2>4. Misskey!Dropped(takes, reply) \subseteq {"tree"}
    BY DEF Misskey!Dropped
  <2>5. /\ last'.way = "request" /\ last'.err = err /\ last'.out = Misskey!Output(takes, reply, err)
        /\ held' \subseteq {"resp", "array"}
    BY <2>1 DEF Misskey!TypeOK
  <2>6. /\ UNCHANGED <<client, proxy, proxy_enabled, stream>>
        /\ Misskey!misskey_request(reply, Misskey!Dropped(takes, reply))
    BY <1>2 DEF Misskey!ReadCall
  <2>7. leaked' \subseteq {"resp", "array", "tree", "headers"}
    <3>1. \A block \in leaked' : block \in leaked \/ block = "tree" \/ block = "headers"
      BY <2>4, <2>6, RequestLoses
    <3>2. QED
      BY <3>1 DEF Misskey!TypeOK
  <2>8. QED
    BY <2>2, <2>3, <2>5, <2>6, <2>7, RequestType, TypedCall DEF Misskey!Ways
<1>3. QED
  BY <1>1, <1>2

LEMMA UploadType ==
    ASSUME Misskey!TypeOK, NEW reply \in Misskey!Replies,
           Misskey!misskey_drive_files_create_raw(reply) \/ Misskey!misskey_drive_files_create(reply)
    PROVE  Misskey!TypeOK'
<1>1. CASE Misskey!misskey_drive_files_create_raw(reply)
  BY <1>1, TransportType DEF Misskey!misskey_drive_files_create_raw, Misskey!TypeOK, Misskey!Ways, Errors
<1>2. CASE Misskey!misskey_drive_files_create(reply)
  <2>1. last'.way = "upload" /\ last'.err = Misskey!Transport(reply) /\ last'.out \in {"none", "blank", "filled"}
    BY <1>2 DEF Misskey!misskey_drive_files_create, Misskey!parse_note, Misskey!misskey_note_init
  <2>2. QED
    BY <1>2, <2>1, TransportType, TypedCall DEF Misskey!misskey_drive_files_create, Misskey!TypeOK, Misskey!Ways
<1>3. QED
  BY <1>1, <1>2

LEMMA DownloadType ==
    ASSUME Misskey!TypeOK, NEW reply \in Misskey!Replies, Misskey!misskey_drive_files_download(reply)
    PROVE  Misskey!TypeOK'
<1>1. last'.way \in Misskey!Ways /\ last'.out = "none" /\ last'.err \in Errors
  <2>1. CASE Misskey!Download
    BY <2>1, TransportType DEF Misskey!Download, Misskey!Ways, Errors
  <2>2. ASSUME NEW err \in Misskey!LookupErrors(reply),
               last' = [way |-> "lookup", err |-> err, out |-> "none",
                        via |-> Misskey!apply_proxy_to_curl, reply |-> reply]
        PROVE  last'.way \in Misskey!Ways /\ last'.out = "none" /\ last'.err \in Errors
    BY <2>2, TransportType DEF Misskey!LookupErrors, Misskey!Ways, Errors
  <2>3. QED
    BY <2>1, <2>2 DEF Misskey!misskey_drive_files_download
<1>2. code' \in {0, 200, 500} /\ detail' \in {"none", "network", "http"}
  BY RequestType DEF Misskey!misskey_drive_files_download, Misskey!TypeOK
<1>3. UNCHANGED <<client, proxy, proxy_enabled, held, stream>>
  BY DEF Misskey!misskey_drive_files_download
<1>4. leaked' \subseteq {"resp", "array", "tree", "headers"}
  <2>1. leaked' = leaked \/ Misskey!misskey_request(reply, {})
    BY DEF Misskey!misskey_drive_files_download
  <2>2. \A block \in leaked' : block \in leaked \/ block = "headers"
    BY <2>1, RequestLoses
  <2>3. QED
    BY <2>2 DEF Misskey!TypeOK
<1>5. QED
  BY <1>1, <1>2, <1>3, <1>4 DEF Misskey!TypeOK, Errors

LEMMA SettingType ==
    ASSUME Misskey!TypeOK,
           \/ Misskey!client_new_internal \/ Misskey!misskey_client_free
           \/ \E good \in BOOLEAN : Misskey!misskey_client_set_proxy_url(good)
           \/ Misskey!misskey_client_set_proxy \/ Misskey!misskey_client_clear_proxy
           \/ \E block \in {"resp", "array"} : Misskey!misskey_free(block)
           \/ UNCHANGED Misskey!vars
    PROVE  Misskey!TypeOK'
<1>1. CASE Misskey!client_new_internal
  BY <1>1 DEF Misskey!client_new_internal, Misskey!NoCall, Misskey!TypeOK, Misskey!Ways
<1>2. CASE Misskey!misskey_client_free
  BY <1>2 DEF Misskey!misskey_client_free, Misskey!TypeOK
<1>3. CASE \E good \in BOOLEAN : Misskey!misskey_client_set_proxy_url(good)
  BY <1>3 DEF Misskey!misskey_client_set_proxy_url, Misskey!parse_proxy_url, Misskey!TypeOK
<1>4. CASE Misskey!misskey_client_set_proxy
  BY <1>4 DEF Misskey!misskey_client_set_proxy, Misskey!TypeOK
<1>5. CASE Misskey!misskey_client_clear_proxy
  <2>1. proxy' \in {"none", "set", "unparsed"} /\ proxy_enabled' \in BOOLEAN
    BY <1>5 DEF Misskey!misskey_client_clear_proxy
  <2>2. UNCHANGED <<client, code, detail, last, held, leaked, stream>>
    BY <1>5 DEF Misskey!misskey_client_clear_proxy
  <2>3. QED
    BY <2>1, <2>2 DEF Misskey!TypeOK
<1>6. CASE \E block \in {"resp", "array"} : Misskey!misskey_free(block)
  <2>1. held' \subseteq {"resp", "array"}
    BY <1>6 DEF Misskey!misskey_free, Misskey!TypeOK
  <2>2. UNCHANGED <<client, proxy, proxy_enabled, code, detail, last, leaked, stream>>
    BY <1>6 DEF Misskey!misskey_free
  <2>3. QED
    BY <2>1, <2>2 DEF Misskey!TypeOK
<1>7. CASE UNCHANGED Misskey!vars
  BY <1>7 DEF Misskey!vars, Misskey!TypeOK
<1>8. QED
  BY <1>1, <1>2, <1>3, <1>4, <1>5, <1>6, <1>7

LEMMA StreamType == ASSUME Misskey!TypeOK, Misskey!NullArgument \/ Misskey!Stream PROVE Misskey!TypeOK'
<1>1. CASE Misskey!NullArgument
  <2>1. last'.way = "none" /\ last'.err = "INVALID_PARAM" /\ last'.out = "none"
    BY <1>1 DEF Misskey!NullArgument, Misskey!InvalidParam
  <2>2. UNCHANGED <<client, proxy, proxy_enabled, code, detail, held, leaked, stream>>
    BY <1>1 DEF Misskey!NullArgument, Misskey!InvalidParam
  <2>3. QED
    BY <2>1, <2>2, TypedCall DEF Misskey!TypeOK, Misskey!Ways, Errors
<1>2. CASE Misskey!misskey_stream_new_with_proxy
  BY <1>2 DEF Misskey!misskey_stream_new_with_proxy, Misskey!TypeOK
<1>3. CASE Misskey!misskey_stream_free
  BY <1>3 DEF Misskey!misskey_stream_free, Misskey!TypeOK
<1>4. CASE Misskey!curl_ws_send
  <2>1. last'.way = "stream" /\ last'.err = "NETWORK" /\ last'.out = "none"
    BY <1>4 DEF Misskey!curl_ws_send
  <2>2. QED
    BY <1>4, <2>1, TypedCall DEF Misskey!curl_ws_send, Misskey!TypeOK, Misskey!Ways, Errors
<1>5. CASE Misskey!misskey_stream_poll
  <2>1. last'.way = "stream" /\ last'.err = "OK" /\ last'.out = "none"
    BY <1>5 DEF Misskey!misskey_stream_poll
  <2>2. QED
    BY <1>5, <2>1, TypedCall DEF Misskey!misskey_stream_poll, Misskey!TypeOK, Misskey!Ways, Errors
<1>6. QED
  BY <1>1, <1>2, <1>3, <1>4, <1>5 DEF Misskey!Stream, Misskey!misskey_stream_connect, Misskey!misskey_stream_disconnect,
     Misskey!misskey_stream_send, Misskey!misskey_stream_subscribe_note,
     Misskey!misskey_stream_unsubscribe_note

LEMMA MisskeyTypeStep == ASSUME Misskey!TypeOK, [Misskey!Next]_Misskey!vars PROVE Misskey!TypeOK'
BY CallType, UploadType, DownloadType, SettingType, StreamType DEF Misskey!Next

LEMMA MisskeyInitKeeps == ASSUME Misskey!Init PROVE Misskey!TypeOK /\ MisskeyInv
BY DEF Misskey!Init, Misskey!NoCall, Misskey!TypeOK, Misskey!Ways, MisskeyInv, Remembered

---------------------------------------------------------------------------
(***************************************************************************)
(* The programs: a step is one of the library in use, and leaves the       *)
(* others' variables alone.                                                *)
(***************************************************************************)

Inv ==
    /\ Curlrq!IInv /\ (~LateAdd => Curlrq!CleanupLosesNothing)
    /\ GithubInv
    /\ Misskey!TypeOK /\ MisskeyInv

LEMMA InvInit == ASSUME Init PROVE Inv
<1>1. Curlrq!IInv
  BY HttpAssumption, Curlrq!InitKeeps DEF Init
<1>2. Curlrq!CleanupLosesNothing
  BY DEF Init, Curlrq!Init, Curlrq!CleanupLosesNothing
<1>3. GithubInv /\ Misskey!TypeOK /\ MisskeyInv
  BY HttpAssumption, GithubInitKeeps, MisskeyInitKeeps DEF Init
<1>4. QED
  BY <1>1, <1>2, <1>3 DEF Inv

\* One step of the whole is a step, or none, of each library.
LEMMA EachSteps ==
    ASSUME [Next]_vars
    PROVE  /\ [Curlrq!Next]_Curlrq!vars
           /\ [Github!Next]_Github!vars
           /\ [Misskey!Next]_Misskey!vars
<1>1. UNCHANGED curlrq => UNCHANGED Curlrq!vars
  BY DEF curlrq, Curlrq!vars, Curlrq!flags, Curlrq!config, Curlrq!lists, Curlrq!worker, Curlrq!requests
<1>2. UNCHANGED github => UNCHANGED Github!vars
  BY DEF github, Github!vars
<1>3. UNCHANGED misskey => UNCHANGED Misskey!vars
  BY DEF misskey, Misskey!vars
<1>4. QED
  BY <1>1, <1>2, <1>3 DEF Next, Uses, vars

LEMMA InvStep == ASSUME Inv, [Next]_vars PROVE Inv'
<1>1. Curlrq!IInv'
  BY HttpAssumption, EachSteps, Curlrq!StepKeeps DEF Inv
<1>2. ~LateAdd => Curlrq!CleanupLosesNothing'
  BY <1>1, HttpAssumption, EachSteps, Curlrq!CleanupStep DEF Inv
<1>3. GithubInv'
  BY HttpAssumption, EachSteps, GithubStep DEF Inv
<1>4. Misskey!TypeOK' /\ MisskeyInv'
  BY EachSteps, MisskeyTypeStep, MisskeyStep DEF Inv
<1>5. QED
  BY <1>1, <1>2, <1>3, <1>4 DEF Inv

\* Whichever library a program uses, each of them keeps its own invariant; the
\* other two stand still meanwhile.
THEOREM Invariance == Spec => []Inv
<1>1. Init => Inv
  BY InvInit
<1>2. Inv /\ [Next]_vars => Inv'
  BY InvStep
<1>3. QED
  BY <1>1, <1>2, PTL DEF Spec

\* The variables of the three libraries have their types.
THEOREM TypeCorrect == Spec => []TypeOK
<1>1. Inv => TypeOK
  BY DEF Inv, Curlrq!IInv, GithubInv, TypeOK
<1>2. QED
  BY <1>1, Invariance, PTL

\* curlrq: a request due is in one place and called back once, a cleanup that
\* no late curlrq_add races loses none, and work that waits has a worker, which
\* drives no more transfers than asked for.
THEOREM RequestsKeptAlways == ASSUME ~LateAdd PROVE Spec => []RequestsKept
<1>1. Inv => RequestsKept
  BY HttpAssumption, Curlrq!WorkHasWorker DEF Inv, Curlrq!IInv, RequestsKept
<1>2. QED
  BY <1>1, Invariance, PTL

\* github: a method an endpoint did not mean was left by one called before,
\* and a body sent is the endpoint's own, whole unless an update fixed its size.
THEOREM RequestsAsMeantAlways == Spec => []RequestsAsMeant
<1>1. Inv => RequestsAsMeant
  BY DEF Inv, GithubInv, RequestsAsMeant
<1>2. QED
  BY <1>1, Invariance, PTL

\* misskey_error_str_detail speaks of the last request and of none before it,
\* whatever calls came in between and whether or not memory lasted.
THEOREM DetailIsOfThisRequestAlways == Spec => []DetailIsOfThisRequest
<1>1. Inv => DetailIsOfThisRequest
  BY DEF Inv, MisskeyInv, Remembered, DetailIsOfThisRequest, Misskey!DetailIsOfThisRequest,
     Misskey!misskey_error_str_detail, Misskey!misskey_error_str
<1>2. QED
  BY <1>1, Invariance, PTL

\* misskey: only the trees of answers that are JSON but no array are lost, and
\* the headers of requests there was no memory for.
THEOREM NothingElseLeaksEver == Spec => NothingElseLeaks
<1>1. Inv /\ [Next]_vars => Inv' /\ [Misskey!OnlyTreesAndHeadersLeak]_Misskey!vars
  BY InvStep, EachSteps, MisskeyStep DEF Inv, MisskeyInv, Explained, Misskey!OnlyTreesAndHeadersLeak
<1>2. QED
  BY <1>1, InvInit, PTL DEF Spec, NothingElseLeaks, Misskey!NothingElseLeaks
====
