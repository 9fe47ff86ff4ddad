---------------------------- MODULE BlogService -----------------------------
(***************************************************************************)
(* Blog posts: BlogService, and deleteBlog of AdminController.  Every       *)
(* handler reads the post, then writes it by its id, whatever has become of *)
(* it in between; writing a post that is gone throws.  Nothing publishes a  *)
(* SCHEDULED post when its time has come.                                   *)
(***************************************************************************)
EXTENDS Handlers

CONSTANTS
  Authors,    \* users that may write posts
  Admins,     \* those that may edit the posts of others
  MaxPosts,   \* bound: BlogPost rows, numbered as they are created
  Slugs,      \* slugs, each unique
  Tags,       \* BlogTag rows
  MaxViews,   \* bound: viewCount
  NoPost      \* the row does not exist, or no longer

ASSUME BlogAssumption ==
  /\ MaxPosts \in Nat /\ MaxViews \in Nat /\ Admins \subseteq Authors
  /\ NoPost \notin Slugs

VARIABLES
  post,      \* the BlogPost rows: one per number
  used,      \* numbers given out so far
  tagged     \* the BlogPostTag rows

blogVars == <<post, used, tagged, call>>

Posts == 1..MaxPosts
BlogRow == [slug : Slugs \cup {NoPost}, author : Authors \cup {NoPost},
            status : {"DRAFT", "PUBLISHED", "SCHEDULED"},
            published : BOOLEAN, scheduled : BOOLEAN, views : 0..MaxViews]
NoRow == [slug |-> NoPost, author |-> NoPost, status |-> "DRAFT",
          published |-> FALSE, scheduled |-> FALSE, views |-> 0]
Alive(i) == post[i] # NoRow

BlogSteps == {"edit", "publish", "schedule", "unpublish", "untag", "remove", "view"}
BlogCalls ==
  {idle} \cup [step : {"insert"}, slug : Slugs, author : Authors, tags : SUBSET Tags]
         \cup [step : BlogSteps, post : Posts, tags : SUBSET Tags]

BlogTypeOK ==
  /\ post \in [Posts -> BlogRow] /\ used \in 0..MaxPosts
  /\ tagged \in SUBSET (Posts \X Tags)
  /\ call \in [Requests -> BlogCalls]

BlogInit ==
  /\ post = [i \in Posts |-> NoRow] /\ used = 0
  /\ tagged = {}
  /\ call = [r \in Requests |-> idle]
-----------------------------------------------------------------------------
BySlug(slug) == {i \in Posts : Alive(i) /\ post[i].slug = slug}
TagsOf(i) == {t \in Tags : <<i, t>> \in tagged}
Retag(i, tags) == {p \in tagged : p[1] # i} \cup ({i} \X tags)

(* createPost: the slug is free, then the row and its tags, as a DRAFT.     *)
CreatePost(r, u, slug, tags) ==
  /\ BySlug(slug) = {}
  /\ Start(r, [step |-> "insert", slug |-> slug, author |-> u, tags |-> tags])
  /\ UNCHANGED <<post, used, tagged>>

InsertPost(r) ==
  LET i == used + 1 IN
  /\ At(r, "insert") /\ i \in Posts
  /\ BySlug(call[r].slug) = {}
  /\ post' = [post EXCEPT ![i] = [NoRow EXCEPT !.slug = call[r].slug,
                                               !.author = call[r].author]]
  /\ used' = i
  /\ tagged' = Retag(i, call[r].tags)
  /\ Finish(r)

(* The read that every other handler starts with.                           *)
FindPost(r, i, step, tags) ==
  /\ Alive(i)
  /\ Start(r, [step |-> step, post |-> i, tags |-> tags])
  /\ UNCHANGED <<post, used, tagged>>

(* updatePost: by the author or an administrator; the tags are replaced in  *)
(* a transaction, with the rows of the post locked.                         *)
EditPost(r, i, u, tags) ==
  /\ u \in Admins \/ post[i].author = u
  /\ FindPost(r, i, "edit", tags)

ReplaceTags(r) ==
  LET i == call[r].post IN
  /\ At(r, "edit") /\ Alive(i)
  /\ tagged' = Retag(i, call[r].tags)
  /\ Finish(r)
  /\ UNCHANGED <<post, used>>

(* publishPost, now or later, and unpublishPost.                            *)
PublishPost(r, i) == FindPost(r, i, "publish", {})
SchedulePost(r, i) == FindPost(r, i, "schedule", {})
UnpublishPost(r, i) == FindPost(r, i, "unpublish", {})

Write(r, row) ==
  /\ Alive(call[r].post)
  /\ post' = [post EXCEPT ![call[r].post] = row]
  /\ Finish(r)
  /\ UNCHANGED <<used, tagged>>

WritePublished(r) ==
  /\ At(r, "publish")
  /\ Write(r, [post[call[r].post] EXCEPT !.status = "PUBLISHED", !.published = TRUE,
                                         !.scheduled = FALSE])
WriteScheduled(r) ==
  /\ At(r, "schedule")
  /\ Write(r, [post[call[r].post] EXCEPT !.status = "SCHEDULED", !.scheduled = TRUE])

\* Mutant: the date of publication stays.
WriteDraft_KeepsDate(r) ==
  /\ At(r, "unpublish")
  /\ Write(r, [post[call[r].post] EXCEPT !.status = "DRAFT", !.scheduled = FALSE])

WriteDraft(r) ==
  /\ At(r, "unpublish")
  /\ Write(r, [post[call[r].post] EXCEPT !.status = "DRAFT", !.published = FALSE,
                                         !.scheduled = FALSE])

(* deletePost: the tags, then the row, without a transaction.               *)
DeletePost(r, i) == FindPost(r, i, "untag", {})
DeleteTags(r) ==
  LET i == call[r].post IN
  /\ At(r, "untag")
  /\ tagged' = Retag(i, {})
  /\ GoTo(r, "remove")
  /\ UNCHANGED <<post, used>>

Remove(i) ==
  /\ Alive(i)
  /\ post' = [post EXCEPT ![i] = NoRow]
  /\ tagged' = Retag(i, {})
  /\ UNCHANGED used
RemovePost(r) == At(r, "remove") /\ Remove(call[r].post) /\ Finish(r)

(* deleteBlog: the row alone; the database deletes its tags with it.        *)
DeleteBlog(i) == Remove(i) /\ UNCHANGED call

(* getPost: a post of any status, by its slug; then the count.              *)
GetPost(r, i) == FindPost(r, i, "view", {})
CountView(r) ==
  /\ At(r, "view") /\ post[call[r].post].views < MaxViews
  /\ Write(r, [post[call[r].post] EXCEPT !.views = @ + 1])

BlogFails(r) ==
  /\ ~ At(r, "idle")
  /\ Finish(r)
  /\ UNCHANGED <<post, used, tagged>>

BlogNext ==
  \/ \E r \in Requests :
       \/ \E u \in Authors, slug \in Slugs, tags \in SUBSET Tags : CreatePost(r, u, slug, tags)
       \/ \E i \in Posts, u \in Authors, tags \in SUBSET Tags : EditPost(r, i, u, tags)
       \/ \E i \in Posts : PublishPost(r, i) \/ SchedulePost(r, i) \/ UnpublishPost(r, i)
                             \/ DeletePost(r, i) \/ GetPost(r, i)
       \/ InsertPost(r) \/ ReplaceTags(r) \/ WritePublished(r) \/ WriteScheduled(r)
       \/ WriteDraft(r) \/ DeleteTags(r) \/ RemovePost(r) \/ CountView(r) \/ BlogFails(r)
  \/ \E i \in Posts : DeleteBlog(i)

BlogSpec == BlogInit /\ [][BlogNext]_blogVars
-----------------------------------------------------------------------------
(* However edits, publications and deletions of a post overlap: its dates   *)
(* say what its status says, its slug is its own, and a post that is gone   *)
(* has left no tags behind.                                                 *)
PostsAreWhole ==
  /\ \A i \in Posts :
       /\ post[i].status = "DRAFT"     => ~ post[i].published /\ ~ post[i].scheduled
       /\ post[i].status = "PUBLISHED" => post[i].published /\ ~ post[i].scheduled
       /\ post[i].status = "SCHEDULED" => post[i].scheduled
       /\ ~ Alive(i) => TagsOf(i) = {}
  /\ \A i, j \in Posts : i # j /\ Alive(i) /\ Alive(j) => post[i].slug # post[j].slug
=============================================================================
