---- MODULE GithubClient ----
(***************************************************************************)
(* github/github.c: the client of GitHub's REST API.  Every endpoint sets  *)
(* its options on one curl handle that the whole library shares and that   *)
(* nothing ever resets, so what one endpoint sets the next one inherits.   *)
(*                                                                         *)
(* An endpoint is a row: the arguments it checks for NULL, those it        *)
(* follows unchecked, the method its name and comment promise, the options *)
(* it sets and how it builds the URL of a page.                            *)
(***************************************************************************)
EXTENDS Integers, Sequences

CONSTANTS Bodies,    \* request bodies of the program
          Length,    \* their lengths: a function on Bodies
          Pages,     \* pages a listing has
          None

\* What an instance has to satisfy.
GithubAssumption ==
    /\ None \notin Bodies \cup {"GET", "POST", "PATCH", "PUT", "DELETE"}
    /\ Length \in [Bodies -> Nat]
    /\ Pages \in Nat \ {0}

VARIABLES
    curl,     \* the static handle: none, live or freed
    sticky,   \* its options that outlive a call: custom request, post fields, field size
    setters,  \* history: endpoints called since gh_client_init that set a method
    last,     \* history: the last call, what was sent and what came back
    walk      \* a program that follows next_link through one listing

vars == <<curl, sticky, setters, last, walk>>

Endpoint(name, checks, follows, means, custom, list) ==
    [name |-> name, checks |-> checks, follows |-> follows, means |-> means,
     custom |-> custom, body |-> "data" \in checks \cup follows, sized |-> FALSE, list |-> list]

Read(name, checks, follows) == Endpoint(name, checks, follows, "GET", None, "none")
List(name, checks, follows, form) == Endpoint(name, checks, follows, "GET", None, form)
Post(name, checks, follows) == Endpoint(name, checks, follows, "POST", None, "none")
Patch(name, checks, follows) == Endpoint(name, checks, follows, "PATCH", "PATCH", "none")
Put(name, checks, follows) == Endpoint(name, checks, follows, "PUT", "PUT", "none")
Delete(name, checks) == Endpoint(name, checks, {}, "DELETE", "DELETE", "none")

Repo == {"owner", "repo"}

gh_client_octocat_says == Read("octocat_says", {}, {})
gh_client_repo_list_by_org_name == List("repo_list_by_org_name", {"owner"}, {}, "glued")
gh_client_repo_get == List("repo_get", Repo, {}, "glued")
gh_client_repo_release_asset_update ==
    [Patch("repo_release_asset_update", Repo, {"data"}) EXCEPT !.sized = TRUE]
gh_client_repo_release_asset_delete == Delete("repo_release_asset_delete", Repo)
gh_client_repo_create == Post("repo_create", Repo \cup {"data"}, {})
gh_client_repo_update == Patch("repo_update", Repo \cup {"data"}, {})
gh_client_repo_languages_list == List("repo_languages_list", Repo, {}, "glued")
repo_delete_as_read == Endpoint("repo_delete", Repo, {}, "DELETE", None, "none")
gh_client_repo_delete == Delete("repo_delete", Repo)
gh_client_repo_releases_list == List("repo_releases_list", Repo, {}, "first")
gh_client_repo_releases_latest == Read("repo_releases_latest", Repo, {})
gh_client_repo_release_by_tag == Read("repo_release_by_tag", Repo, {"tag"})
gh_client_repo_release_by_id == Read("repo_release_by_id", Repo, {})
gh_client_repo_release_create == Post("repo_release_create", Repo \cup {"data"}, {})
gh_client_repo_release_update == Patch("repo_release_update", Repo \cup {"data"}, {})
gh_client_repo_release_delete == Delete("repo_release_delete", Repo)
gh_client_repo_release_gen_notes == Post("repo_release_gen_notes", Repo \cup {"data"}, {})
gh_client_repo_release_assets_list == List("repo_release_assets_list", Repo, {}, "appended")
gh_client_repo_release_asset_get == Read("repo_release_asset_get", Repo, {})
gh_client_repo_stargasers_list == List("repo_stargasers_list", Repo, {}, "appended")
gh_client_repo_commits_list == List("repo_commits_list", Repo, {}, "whole")
gh_client_repo_pr_commits_list == List("repo_pr_commits_list", Repo, {"sha"}, "appended")
gh_client_repo_commit_get == Read("repo_commit_get", Repo, {"sha"})
gh_client_repo_commits_compare == Read("repo_commits_compare", Repo, {"base", "head"})
gh_client_repo_branches_list == List("repo_branches_list", Repo, {}, "appended")
gh_client_repo_branch_get == Read("repo_branch_get", Repo, {"branch"})
gh_client_repo_branch_rename == Post("repo_branch_rename", Repo \cup {"data"}, {"branch"})
gh_client_repo_branch_sync_upstream ==
    Post("repo_branch_sync_upstream", Repo \cup {"data"}, {"branch"})
gh_client_repo_branch_merge == Post("repo_branch_merge", Repo \cup {"data"}, {})
gh_client_repo_pull_request_list == List("repo_pull_request_list", Repo, {}, "whole")
gh_client_repo_pull_request_get == Read("repo_pull_request_get", Repo, {})
gh_client_user_logged_in_get == Read("user_logged_in_get", {}, {})
gh_client_user_by_id_get == Read("user_by_id_get", {"username"}, {})
gh_client_user_by_id_hovercard_get == Read("user_by_id_hovercard_get", {"username"}, {})
gh_client_user_blocked_list == List("user_blocked_list", {}, {}, "appended")
gh_client_user_blocked_by_id == Read("user_blocked_by_id", {"username"}, {})
gh_client_user_block_by_id == Put("user_block_by_id", {"username"}, {})
gh_client_user_unblock_by_id == Delete("user_unblock_by_id", {"username"})
gh_client_user_followers_list == List("user_followers_list", {}, {}, "unpaged")
gh_client_user_rate_limit_info == Read("user_rate_limit_info", {}, {})
gh_client_user_stars_list == List("user_stars_list", {"user"}, {}, "glued")
gh_client_user_repositories_list == List("user_repositories_list", {"user"}, {}, "glued")
gh_client_issues_for_user_list == List("issues_for_user_list", {}, {}, "whole")
gh_client_issues_by_repo_list == List("issues_by_repo_list", Repo, {}, "whole")
gh_client_issue_create == Post("issue_create", Repo \cup {"data"}, {})
gh_client_issue_get == Read("issue_get", Repo, {})
gh_client_issue_update == Patch("issue_update", Repo \cup {"data"}, {})
gh_client_issue_lock == Put("issue_lock", Repo \cup {"data"}, {})
gh_client_issue_unlock == Delete("issue_unlock", Repo)
gh_client_events_by_org_list == List("events_by_org_list", {"owner"}, {}, "first")
gh_client_events_by_user_list == List("events_by_user_list", {"user"}, {}, "first")
gh_client_actions_billing_by_org == Read("actions_billing_by_org", {"org"}, {})
gh_client_metrics_community_profile == Read("metrics_community_profile", Repo, {})
gh_client_metrics_repository_clones == Read("metrics_repository_clones", Repo, {"interval"})
gh_client_metrics_top_referral_paths == Read("metrics_top_referral_paths", Repo, {})
gh_client_metrics_top_referral_sources == Read("metrics_top_referral_sources", Repo, {})
gh_client_metrics_page_views == Read("metrics_page_views", Repo, {"interval"})
gh_client_codes_of_conduct_list == Read("codes_of_conduct_list", {}, {})
gh_client_code_of_conduct_get_by_key == Read("code_of_conduct_get_by_key", {"key"}, {})

Setters == {
    gh_client_repo_release_asset_update, gh_client_repo_release_asset_delete, gh_client_repo_create,
    gh_client_repo_update, gh_client_repo_delete, gh_client_repo_release_create,
    gh_client_repo_release_update, gh_client_repo_release_delete, gh_client_repo_release_gen_notes,
    gh_client_repo_branch_rename, gh_client_repo_branch_sync_upstream, gh_client_repo_branch_merge,
    gh_client_user_block_by_id, gh_client_user_unblock_by_id, gh_client_issue_create,
    gh_client_issue_update, gh_client_issue_lock, gh_client_issue_unlock}

Listings == {
    gh_client_repo_list_by_org_name, gh_client_repo_get, gh_client_repo_languages_list,
    gh_client_repo_releases_list, gh_client_repo_release_assets_list, gh_client_repo_stargasers_list,
    gh_client_repo_commits_list, gh_client_repo_pr_commits_list, gh_client_repo_branches_list,
    gh_client_repo_pull_request_list, gh_client_user_blocked_list, gh_client_user_followers_list,
    gh_client_user_stars_list, gh_client_user_repositories_list, gh_client_issues_for_user_list,
    gh_client_issues_by_repo_list, gh_client_events_by_org_list, gh_client_events_by_user_list}

Readers == {
    gh_client_octocat_says, gh_client_repo_releases_latest, gh_client_repo_release_by_tag,
    gh_client_repo_release_by_id, gh_client_repo_release_asset_get, gh_client_repo_commit_get,
    gh_client_repo_commits_compare, gh_client_repo_branch_get, gh_client_repo_pull_request_get,
    gh_client_user_logged_in_get, gh_client_user_by_id_get, gh_client_user_by_id_hovercard_get,
    gh_client_user_blocked_by_id, gh_client_user_rate_limit_info, gh_client_issue_get,
    gh_client_actions_billing_by_org, gh_client_metrics_community_profile,
    gh_client_metrics_repository_clones, gh_client_metrics_top_referral_paths,
    gh_client_metrics_top_referral_sources, gh_client_metrics_page_views,
    gh_client_codes_of_conduct_list, gh_client_code_of_conduct_get_by_key}

Endpoints == Setters \cup Listings \cup Readers

---------------------------------------------------------------------------
Fresh == [custom |-> None, fields |-> None, size |-> None]
NoCall == [means |-> None, sent |-> None, fields |-> None, chars |-> 0, own |-> None,
           outcome |-> "none"]
NoWalk == [on |-> "idle", form |-> "none", big |-> FALSE, page |-> 0, seen |-> <<>>, next |-> 0]

Init ==
    /\ curl = "none" /\ sticky = Fresh
    /\ setters = {} /\ last = NoCall /\ walk = NoWalk

gh_client_init ==
    /\ curl # "live"
    /\ curl' = "live" /\ sticky' = Fresh
    /\ setters' = {} /\ last' = NoCall
    /\ UNCHANGED walk

gh_client_free ==
    /\ curl = "live" /\ walk.on = "idle"
    /\ curl' = "freed"
    /\ UNCHANGED <<sticky, setters, last, walk>>

\* A NULL argument is answered before the handle is touched.
NullArgument(e) ==
    /\ e.checks # {} /\ walk.on = "idle"
    /\ last' = [NoCall EXCEPT !.means = e.means, !.outcome = "refused"]
    /\ UNCHANGED <<curl, sticky, setters, walk>>

Setopts_stale(e, b) ==
    [custom |-> IF e.custom = None THEN sticky.custom ELSE e.custom,
     fields |-> IF sticky.fields = None THEN b ELSE sticky.fields,
     size |-> IF e.sized THEN Length[b] ELSE sticky.size]

\* SET_BASIC_CURL_CONFIG touches none of these, an endpoint's own setopts some.
\* CURLOPT_POSTFIELDS makes the request a POST; nothing ever unsets it.
Setopts(e, b) ==
    [custom |-> IF e.custom = None THEN sticky.custom ELSE e.custom,
     fields |-> IF e.body THEN b ELSE sticky.fields,
     size |-> IF e.sized THEN Length[b] ELSE sticky.size]

Method(o) == IF o.custom # None THEN o.custom ELSE IF o.fields # None THEN "POST" ELSE "GET"

\* With no field size libcurl measures the string it is given.
Chars(o) == IF o.fields = None THEN 0 ELSE IF o.size = None THEN Length[o.fields] ELSE o.size

Sent(e, o, b, outcome) ==
    [means |-> e.means, sent |-> Method(o), fields |-> o.fields, chars |-> Chars(o), own |-> b,
     outcome |-> outcome]

\* A call answers or fails; CURL_CALL_ERROR_CHECK keeps the part of the body
\* that cb has already written when the transfer is cut.
perform(e, b, outcome) ==
    /\ curl = "live"
    /\ e.body <=> b # None
    /\ sticky' = Setopts(e, b)
    /\ setters' = IF e \in Setters THEN setters \cup {e.means} ELSE setters
    /\ last' = Sent(e, Setopts(e, b), b, outcome)
    /\ UNCHANGED curl

Call(e, b, outcome) == walk.on = "idle" /\ perform(e, b, outcome) /\ UNCHANGED walk

\* repo_release_asset_upload works on a handle of its own, with its file's size.
gh_client_repo_release_asset_upload(b, outcome) ==
    /\ walk.on = "idle"
    /\ last' = [means |-> "POST", sent |-> "POST", fields |-> b,
                chars |-> Length[b], own |-> b, outcome |-> outcome]
    /\ UNCHANGED <<curl, sticky, setters, walk>>

---------------------------------------------------------------------------
\* A program pages through a listing, with a page size above 30 or the default.
WalkStart(e, big) ==
    /\ curl = "live" /\ setters = {} /\ walk.on = "idle"
    /\ walk' = [on |-> "on", form |-> e.list, big |-> big, page |-> 0, seen |-> <<>>, next |-> 0]
    /\ last' = NoCall
    /\ UNCHANGED <<curl, sticky, setters>>

\* The page a list function asks for, given next_link as page_url (0: none
\* yet).  glued: the size is written onto the path, another resource; first:
\* a size hides page_url; appended: a size is added behind page_url's own
\* query, whose last parameter it spoils; whole: page_url is all there is.
Wanted(form, big, next) ==
    CASE form \in {"glued", "first"} /\ big -> IF form = "glued" THEN {0} ELSE {1}
      [] form = "unpaged" -> {1}
      [] form = "appended" /\ big /\ next # 0 -> {1, next}
      [] OTHER -> {IF next = 0 THEN 1 ELSE next}

\* What the Link header of a page names, one pair for each relation.
parse_link_header(page) ==
    (IF page \in 2..Pages THEN {<<"first", 1>>, <<"prev", page - 1>>} ELSE {})
      \cup (IF page \in 1..(Pages - 1) THEN {<<"next", page + 1>>, <<"last", Pages>>} ELSE {})

\* header_cb fills next_link; 0: it stays empty.
header_cb_prev(page) ==
    IF \E l \in parse_link_header(page) : l[1] = "prev"
    THEN (CHOOSE l \in parse_link_header(page) : l[1] = "prev")[2] ELSE 0
header_cb(page) ==
    IF \E l \in parse_link_header(page) : l[1] = "next"
    THEN (CHOOSE l \in parse_link_header(page) : l[1] = "next")[2] ELSE 0

WalkStep(e, outcome) ==
    /\ walk.on = "on" /\ e.list = walk.form
    /\ perform(e, None, outcome)
    /\ \E page \in Wanted(walk.form, walk.big, walk.next) :
         walk' = [walk EXCEPT
                    !.page = page, !.next = header_cb(page),
                    !.seen = IF Len(@) <= Pages THEN Append(@, page) ELSE @,
                    !.on = IF outcome # "answered" THEN "failed"
                           ELSE IF header_cb(page) = 0 THEN "done" ELSE "on"]

Outcomes == {"answered", "cut", "refused"}

Next ==
    \/ gh_client_init \/ gh_client_free
    \/ \E e \in Endpoints : NullArgument(e)
    \/ \E e \in Endpoints, b \in Bodies \cup {None}, o \in Outcomes : Call(e, b, o)
    \/ \E b \in Bodies, o \in {"answered", "refused"} : gh_client_repo_release_asset_upload(b, o)
    \/ \E e \in Listings, big \in BOOLEAN : WalkStart(e, big)
    \/ \E e \in Listings, o \in Outcomes : WalkStep(e, o)

\* A program that pages goes on until it has no next link.
Fairness == WF_vars(\E e \in Listings, o \in Outcomes : WalkStep(e, o))

Spec == Init /\ [][Next]_vars /\ Fairness

---------------------------------------------------------------------------
\* Every variable has its type.
TypeOK ==
    /\ curl \in {"none", "live", "freed"}
    /\ sticky \in [custom : {None, "PATCH", "PUT", "DELETE"}, fields : Bodies \cup {None},
                   size : Nat \cup {None}]
    /\ setters \subseteq {"POST", "PATCH", "PUT", "DELETE"}
    /\ last.sent \in {None, "GET", "POST", "PATCH", "PUT", "DELETE"} /\ last.chars \in Nat
    /\ walk.on \in {"idle", "on", "done", "failed"}
    /\ walk.page \in 0..Pages /\ walk.next \in 0..Pages /\ walk.seen \in Seq(0..Pages)

\* A request goes out with another method than its endpoint's only if some
\* endpoint called before has left that method on the shared handle.
DriftHasCause ==
    last.sent # None /\ last.sent # last.means => last.sent \in setters

\* An endpoint that takes a body sends that body from its first character on,
\* and all of it unless an asset update has fixed the length for good.
BodyIsOwn ==
    last.own # None /\ last.sent # None =>
        /\ last.fields = last.own
        /\ last.chars = Length[last.own] \/ "PATCH" \in setters

\* Following next_link with the default page size ends, with every page seen
\* once and in order, unless a request fails.
WalkEnds ==
    (walk.on = "on" /\ walk.form # "unpaged" /\ (walk.big => walk.form = "whole"))
        ~> (walk.on = "failed" \/ (walk.on = "done" /\ walk.seen = [i \in 1..Pages |-> i]))

\* An endpoint that retrieves or lists reads: it sends a GET.
ReadsOnlyRead == last.sent # None /\ last.means = "GET" => last.sent = "GET"
====
