------------------------------ MODULE NewsFeed ------------------------------
(***************************************************************************)
(* The news screen.  NewsTableViewController.viewDidLoad sends a request;   *)
(* its reply is turned into a list of News objects by NewsFeedBiulder, and *)
(* downloadMedia starts two threads that put downloaded avatars and photos *)
(* into these objects, without a lock, while the main thread draws them.   *)
(* Each thread leaves one block on the main queue that reloads the table.  *)
(* Cells are reused, and keep what they showed where the next post has     *)
(* nothing to show.  The like button changes the News object on the main   *)
(* thread.                                                                 *)
(*                                                                         *)
(* The table shows one post at a time.  An optional value is a set with at *)
(* most one element; an image is the URL it came from.  External: the      *)
(* service, and UIKit's pool of cells (one of each kind, handed out again  *)
(* for every post).  A News object that is read while a thread stores into *)
(* it is a data race: the read gives the old value or ends the process;    *)
(* the new value is read after the store.                                  *)
(***************************************************************************)
EXTENDS Integers, SequencesExt

CONSTANTS Shapes,    \* the posts the service can send
          Profiles,  \* PostResponse.profiles: sequence of [id, photo_50]
          Groups,    \* PostResponse.groups: sequence of [id, photo_50]
          MaxPosts   \* bound: length of the feed

ASSUME MaxPostsAssumption == MaxPosts \in Nat

(* Optional values; the service counts the user's own like. *)
ASSUME ShapesAssumption ==
  \A p \in Shapes :
    /\ p.source_id \subseteq Int
    /\ \A n \in p.likes : n \in Nat /\ p.likes = {n}
    /\ p.user_likes \in {{}, {0}, {1}}
    /\ p.user_likes = {1} => 0 \notin p.likes
    /\ p.attachments \in Seq(Range(p.attachments))

ASSUME AuthorsAssumption ==
  \A a \in Range(Profiles) \cup Range(Groups) :
    a.id \in Int /\ \A u \in a.photo_50 : a.photo_50 = {u}

Threads == {"avatars", "photos"}

camera == "camera"   \* the image in the storyboard's header cell
blank  == -1         \* a like counter that was never written

VARIABLES
  request,    \* sent, failed or shown
  posts,      \* the reply's items
  newsFeed,   \* the News objects
  todo,       \* each thread's downloads still to do: post, place and URL
  storing,    \* the thread is storing its download into a News object
  mainQueue,  \* the threads whose reload is waiting on the main queue
  reloaded,   \* the threads whose reload has run
  visible,    \* the post on the screen, 0 for none
  header,     \* the avatar in the header cell
  footer,     \* the like counter in the footer cell
  media,      \* imagesArray of the media cell
  crashed     \* why the process ended

cells == <<visible, header, footer, media>>
threads == <<todo, storing, mainQueue, reloaded>>
vars == <<request, posts, newsFeed, threads, cells, crashed>>

URLs == {a.photo_50 : a \in Range(Profiles) \cup Range(Groups)}
Photos == UNION {Range(p.attachments) : p \in Shapes}
Images == UNION URLs

(* Values of the feed, of the threads' downloads and of the cells. *)
TypeOK ==
  /\ request \in {"sent", "failed", "shown"}
  /\ \A i \in DOMAIN posts : posts[i] \in Shapes
  /\ Len(newsFeed) \in 0 .. MaxPosts
  /\ \A i \in DOMAIN newsFeed :
       /\ newsFeed[i].avatar \in {{}} \cup {{u} : u \in Images}
       /\ Range(newsFeed[i].photos) \subseteq Photos \ {""}
       /\ \A c \in newsFeed[i].likeCount : c \in Nat
       /\ newsFeed[i].liked \in {{}, {0}, {1}}
  /\ \A t \in Threads : \A job \in todo[t] : job.post \in 1 .. Len(newsFeed)
  /\ storing \in [Threads -> BOOLEAN]
  /\ Range(mainQueue) \cup reloaded \subseteq Threads
  /\ visible \in 0 .. Len(newsFeed)
  /\ header \in Images \cup {camera}
  /\ footer \in Nat \cup {blank}
  /\ Range(media) \subseteq Photos
  /\ crashed \in {"no", "nil source_id", "nil likeCount", "race"}

(* viewDidLoad has sent the request. *)
Init ==
  /\ request = "sent"
  /\ posts = <<>> /\ newsFeed = <<>>
  /\ todo = [t \in Threads |-> {}]
  /\ storing = [t \in Threads |-> FALSE]
  /\ mainQueue = <<>> /\ reloaded = {}
  /\ visible = 0
  /\ header = camera /\ footer = blank
  /\ media = <<>>
  /\ crashed = "no"

alive == crashed = "no"

-----------------------------------------------------------------------------
(* Building the feed. *)

(* The first author with this number. *)
first(authors, id) ==
  {n \in DOMAIN authors : authors[n].id = id /\ \A m \in 1 .. n - 1 : authors[m].id # id}

(* The avatar URL of the author: a negative id is a group's. *)
matchPostAuthor(id) ==
  IF id < 0 THEN UNION {Groups[n].photo_50 : n \in first(Groups, -id)}
            ELSE UNION {Profiles[n].photo_50 : n \in first(Profiles, id)}

(* One URL per attachment; one without a photo gives "". *)
fillAttachedPhotosURL(post) == post.attachments

News(post) ==
  [avatar    |-> {},
   avatarURL |-> UNION {matchPostAuthor(id) : id \in post.source_id},
   photos    |-> <<>>,
   photosURL |-> fillAttachedPhotosURL(post),
   likeCount |-> post.likes,
   liked     |-> post.user_likes]

buildNewsFeed(items) == [i \in DOMAIN items |-> News(items[i])]

(* The downloads of the two threads of downloadMedia. *)
downloadMedia(feed) ==
  [t \in Threads |->
     IF t = "avatars"
     THEN UNION {{[post |-> i, place |-> 1, url |-> u] : u \in feed[i].avatarURL} : i \in DOMAIN feed}
     ELSE UNION {{[post |-> i, place |-> k, url |-> feed[i].photosURL[k]] :
                    k \in DOMAIN feed[i].photosURL} : i \in DOMAIN feed}]

(* The download that the loops of thread t have got to: posts in the order  *)
(* of the feed, photos in that of their URLs.                               *)
current(t, job) ==
  /\ job \in todo[t]
  /\ \A other \in todo[t] \ {job} :
       \/ job.post < other.post
       \/ job.post = other.post /\ job.place < other.place

-----------------------------------------------------------------------------
(* Drawing. *)

(* A thread is storing into post i of the feed. *)
racing(i) ==
  \E t \in Threads : storing[t] /\ \E job \in todo[t] : current(t, job) /\ job.post = i

(* Mutant: a header cell keeps an avatar that it already has. *)
configureHeader_Keeps(news) ==
  IF news.avatar = {} \/ header # camera THEN UNCHANGED header ELSE header' \in news.avatar

(* configureCell of the header and of the footer: what the post does not    *)
(* have stays as the cell had it.                                           *)
configureHeader(news) ==
  IF news.avatar = {} THEN UNCHANGED header ELSE header' \in news.avatar

configureFooter(news) ==
  IF news.likeCount = {} THEN UNCHANGED footer ELSE footer' \in news.likeCount

(* cellForRowAt for the rows of post i, in reused cells. *)
cellForRowAt(i, feed) ==
  /\ visible' = i
  /\ configureHeader(feed[i])
  /\ configureFooter(feed[i])
  /\ media' = feed[i].photos

(* The rows of post i are drawn from the feed; a read of an object that a   *)
(* thread is storing into may end the process.                              *)
Draw(i, feed) ==
  \/ cellForRowAt(i, feed) /\ UNCHANGED crashed
  \/ racing(i) /\ crashed' = "race" /\ UNCHANGED cells

(* reloadData: all rows on the screen are drawn again. *)
reloadData(feed) ==
  IF visible = 0 THEN UNCHANGED <<cells, crashed>> ELSE Draw(visible, feed)

-----------------------------------------------------------------------------
(* completion(nil), or a response without items: nothing happens. *)
newsfeedGetFails ==
  /\ alive
  /\ request = "sent"
  /\ request' = "failed"
  /\ UNCHANGED <<posts, newsFeed, threads, cells, crashed>>

(* downloadNews and biuldNewsFeed: source_id is unwrapped, the feed is      *)
(* built, the table reloaded, and downloadMedia starts its threads.         *)
biuldNewsFeed(items) ==
  /\ alive
  /\ request = "sent"
  /\ request' = "shown"
  /\ posts' = items
  /\ \/ /\ \A i \in DOMAIN items : items[i].source_id # {}
        /\ newsFeed' = buildNewsFeed(items)
        /\ IF items = <<>> THEN UNCHANGED cells ELSE cellForRowAt(1, newsFeed')
        /\ todo' = downloadMedia(newsFeed')
        /\ UNCHANGED <<storing, mainQueue, reloaded, crashed>>
     \/ /\ \E i \in DOMAIN items : items[i].source_id = {}
        /\ crashed' = "nil source_id"
        /\ UNCHANGED <<newsFeed, threads, cells>>

(* A thread's next download: Data(contentsOf:) fails, or the URL is not one, *)
(* and the thread goes on ...                                               *)
skip(t) ==
  /\ alive
  /\ ~storing[t]
  /\ \E job \in todo[t] : current(t, job) /\ todo' = [todo EXCEPT ![t] = @ \ {job}]
  /\ UNCHANGED <<request, posts, newsFeed, storing, mainQueue, reloaded, cells,
                 crashed>>

(* ... or it got the image and begins to store it. *)
downloaded(t) ==
  /\ alive
  /\ ~storing[t]
  /\ \E job \in todo[t] : current(t, job) /\ job.url # ""
  /\ storing' = [storing EXCEPT ![t] = TRUE]
  /\ UNCHANGED <<request, posts, newsFeed, todo, mainQueue, reloaded, cells,
                 crashed>>

(* Mutant: photos go to the first post of the feed. *)
put_First(t, job) ==
  IF t = "avatars" THEN [newsFeed EXCEPT ![job.post].avatar = {job.url}]
                   ELSE [newsFeed EXCEPT ![1].photos = Append(@, job.url)]

(* news.avatar = data, or news.photos?.append(data). *)
put(t, job) ==
  IF t = "avatars" THEN [newsFeed EXCEPT ![job.post].avatar = {job.url}]
                   ELSE [newsFeed EXCEPT ![job.post].photos = Append(@, job.url)]

(* The store is done. *)
store(t) ==
  /\ alive
  /\ storing[t]
  /\ storing' = [storing EXCEPT ![t] = FALSE]
  /\ \E job \in todo[t] : /\ current(t, job)
                          /\ todo' = [todo EXCEPT ![t] = @ \ {job}]
                          /\ newsFeed' = put(t, job)
  /\ UNCHANGED <<request, posts, mainQueue, reloaded, cells, crashed>>

(* The thread is through, and queues its reload. *)
threadEnds(t) ==
  /\ alive
  /\ request = "shown" /\ todo[t] = {}
  /\ t \notin Range(mainQueue) \cup reloaded
  /\ mainQueue' = Append(mainQueue, t)
  /\ UNCHANGED <<request, posts, newsFeed, todo, storing, reloaded, cells, crashed>>

(* Mutant: the block of the photos' thread reloads nothing. *)
reload_AvatarsOnly ==
  /\ alive
  /\ mainQueue # <<>>
  /\ mainQueue' = Tail(mainQueue)
  /\ reloaded' = reloaded \cup {Head(mainQueue)}
  /\ IF Head(mainQueue) = "avatars" THEN reloadData(newsFeed)
                                     ELSE UNCHANGED <<cells, crashed>>
  /\ UNCHANGED <<request, posts, newsFeed, todo, storing>>

(* The block on the main queue. *)
reload ==
  /\ alive
  /\ mainQueue # <<>>
  /\ mainQueue' = Tail(mainQueue)
  /\ reloaded' = reloaded \cup {Head(mainQueue)}
  /\ reloadData(newsFeed)
  /\ UNCHANGED <<request, posts, newsFeed, todo, storing>>

(* The user scrolls to post i. *)
scroll(i) ==
  /\ alive
  /\ visible # 0 /\ i # visible
  /\ Draw(i, newsFeed)
  /\ UNCHANGED <<request, posts, newsFeed, threads>>

(* Mutant: pressing always counts down. *)
pressed_Down(news) ==
  [news EXCEPT !.likeCount = {n - 1 : n \in @}, !.liked = IF @ = {1} THEN {0} ELSE {1}]

(* The new likes of a post, after its button was pressed. *)
pressed(news) ==
  IF news.liked = {1}
  THEN [news EXCEPT !.likeCount = {n - 1 : n \in @}, !.liked = {0}]
  ELSE [news EXCEPT !.likeCount = {n + 1 : n \in @}, !.liked = {1}]

(* Mutant: disliking a post does not count it down. *)
likeButtonPressed_CountsUp ==
  /\ alive
  /\ visible # 0 /\ newsFeed[visible].likeCount # {}
  /\ newsFeed' = [newsFeed EXCEPT ![visible].likeCount = {n + 1 : n \in @},
                                  ![visible].liked = IF @ = {1} THEN {0} ELSE {1}]
  /\ reloadData(newsFeed')
  /\ UNCHANGED <<request, posts, threads>>

(* likeButtonPressed, on the post that the table shows: likeCount is        *)
(* unwrapped; the table is reloaded.                                        *)
likeButtonPressed ==
  /\ alive
  /\ visible # 0
  /\ \/ /\ newsFeed[visible].likeCount # {}
        /\ newsFeed' = [newsFeed EXCEPT ![visible] = pressed(@)]
        /\ reloadData(newsFeed')
     \/ /\ newsFeed[visible].likeCount = {}
        /\ crashed' = "nil likeCount"
        /\ UNCHANGED <<newsFeed, cells>>
  /\ UNCHANGED <<request, posts, threads>>

(* The screen is complete, and the user looks at it. *)
Idle ==
  /\ ~alive \/ request = "failed" \/ reloaded = Threads
  /\ UNCHANGED vars

Feeds == UNION {[1 .. n -> Shapes] : n \in 0 .. MaxPosts}

Next ==
  \/ newsfeedGetFails
  \/ \E items \in Feeds : biuldNewsFeed(items)
  \/ \E t \in Threads : skip(t) \/ downloaded(t) \/ store(t) \/ threadEnds(t)
  \/ reload
  \/ \E i \in DOMAIN newsFeed : scroll(i)
  \/ likeButtonPressed
  \/ Idle

(* The threads run on (Data(contentsOf:) returns by its timeout), and the   *)
(* main queue runs its blocks.  The user is obliged to nothing.             *)
Fairness ==
  /\ \A t \in Threads : WF_vars(skip(t) \/ downloaded(t) \/ store(t) \/ threadEnds(t))
  /\ WF_vars(reload)

Spec == Init /\ [][Next]_vars /\ Fairness

-----------------------------------------------------------------------------
(* The user's own like. *)
Own(liked) == IF liked = {1} THEN 1 ELSE 0

(* However often likeButtonPressed runs, and whatever is scrolled and       *)
(* downloaded meanwhile, the counter is what the service sent, without the  *)
(* user's own like there and with the one here.                             *)
LikesKeepBalance ==
  \A i \in DOMAIN newsFeed : \A n \in newsFeed[i].likeCount, m \in posts[i].likes :
    n - Own(newsFeed[i].liked) = m - Own(posts[i].user_likes)

(* The footer of the post on the screen shows the post's counter, though    *)
(* the cell is reused and keeps an old one if a post has none.              *)
FooterShowsLikes ==
  (alive /\ visible # 0) => \A n \in newsFeed[visible].likeCount : footer = n

(* The avatars of those who have this number, with a group's negated. *)
SignedAuthors(id) ==
  {a.photo_50 : a \in {b \in Range(Profiles) : b.id = id}
                       \cup {b \in Range(Groups) : -b.id = id}}

(* Once the reload after the avatars has run, the header on the screen      *)
(* shows the avatar of an author of its own post, if the post got one.      *)
HeaderShowsAuthor ==
  (alive /\ visible # 0 /\ "avatars" \in reloaded /\ newsFeed[visible].avatar # {})
    => \E id \in posts[visible].source_id : {header} \in SignedAuthors(id)

(* What the header keeps for a post without an avatar is the storyboard's   *)
(* camera, or the avatar of an author of some post of this feed.            *)
HeaderIsFromFeed ==
  \/ header = camera
  \/ \E i \in DOMAIN newsFeed :
       \E id \in posts[i].source_id : {header} \in SignedAuthors(id)

(* Reused cells show what the post on the screen has: its counter, and,     *)
(* after the reload that follows the avatars, the avatar of its author.     *)
(* For a post without a counter nothing is said of the footer; for one      *)
(* without an avatar, or before that reload, the header may show another    *)
(* post's avatar, and keeps it, but always one of this feed.                *)
CellsShowWhatPostHas == FooterShowsLikes /\ HeaderShowsAuthor /\ HeaderIsFromFeed

(* Each photo is one of the attachments, and no two are the same one, in    *)
(* the order of the attachments.                                            *)
InOrderOf(photos, attachments) ==
  \E at \in [DOMAIN photos -> DOMAIN attachments] :
    /\ \A m, n \in DOMAIN photos : m < n => at[m] < at[n]
    /\ \A n \in DOMAIN photos : photos[n] = attachments[at[n]]

(* The photos of a post, and those on the screen, are photos attached to    *)
(* that post, each once and in their order, though a thread is still adding *)
(* to them.                                                                 *)
PhotosAreAttached ==
  /\ \A i \in DOMAIN newsFeed : InOrderOf(newsFeed[i].photos, posts[i].attachments)
  /\ visible # 0 => IsPrefix(media, newsFeed[visible].photos)

(* A feed that was received is shown in the end with all photos that could  *)
(* be downloaded, unless the process ends.                                  *)
MediaIsShown ==
  (request = "shown")
    ~> (~alive \/ visible = 0 \/ (reloaded = Threads /\ media = newsFeed[visible].photos))
=============================================================================
