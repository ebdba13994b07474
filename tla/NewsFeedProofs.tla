-------------------------- MODULE NewsFeedProofs --------------------------
(***************************************************************************)
(* Theorems about the news screen for all feeds, authors and likes.        *)
(***************************************************************************)
EXTENDS NewsFeed, SequenceTheorems, TLAPS

(* A photo whose URL is not empty, and a News object. *)
Photo == Photos \ {""}

NewsType ==
  [avatar : SUBSET Images, avatarURL : SUBSET Images, photos : Seq(Photo),
   photosURL : Seq(Photos), likeCount : SUBSET Nat, liked : {{}, {0}, {1}}]

(* The feed, the downloads and the cells have their types; before the reply *)
(* there is none of them.                                                   *)
FeedInv ==
  /\ request \in {"sent", "failed", "shown"}
  /\ posts \in Seq(Shapes)
  /\ newsFeed \in Seq(NewsType) /\ Len(newsFeed) <= MaxPosts
  /\ DOMAIN newsFeed \subseteq DOMAIN posts
  /\ crashed \in {"no", "nil source_id", "nil likeCount", "race"}
  /\ request = "sent" =>
       /\ newsFeed = <<>> /\ mainQueue = <<>> /\ reloaded = {}
       /\ \A t \in Threads : ~storing[t]

(* What the threads have still to do is in the feed. *)
ThreadsInv ==
  /\ todo \in [Threads -> SUBSET [post : Nat, place : Nat, url : Images \cup Photos]]
  /\ storing \in [Threads -> BOOLEAN]
  /\ mainQueue \in Seq(Threads) /\ reloaded \subseteq Threads
  /\ \A t \in Threads : \A job \in todo[t] : job.post \in DOMAIN newsFeed
  /\ \A t \in Range(mainQueue) \cup reloaded : todo[t] = {}
  /\ \A t \in Threads : storing[t] => \A job \in todo[t] : current(t, job) => job.url # ""

(* u is the avatar of an author of post i. *)
ofAuthor(u, i) == \E id \in posts[i].source_id : {u} \in SignedAuthors(id)

(* Avatars, stored and to be downloaded, are those of the post's author. *)
AvatarsInv ==
  /\ \A job \in todo["avatars"] : job.url \in Images /\ ofAuthor(job.url, job.post)
  /\ \A i \in DOMAIN newsFeed : \A u \in newsFeed[i].avatar :
       newsFeed[i].avatar = {u} /\ ofAuthor(u, i)

(* The photos are attached, in order, and before those to be downloaded. *)
placed(i, photos, jobs) ==
  \E at \in [DOMAIN photos -> DOMAIN posts[i].attachments] :
    /\ \A m, n \in DOMAIN photos : m < n => at[m] < at[n]
    /\ \A n \in DOMAIN photos : photos[n] = posts[i].attachments[at[n]]
    /\ \A job \in jobs : job.post = i => \A n \in DOMAIN photos : at[n] < job.place

PhotosInv ==
  /\ \A job \in todo["photos"] : /\ job.place \in DOMAIN posts[job.post].attachments
                                 /\ job.url = posts[job.post].attachments[job.place]
  /\ \A i \in DOMAIN newsFeed : placed(i, newsFeed[i].photos, todo["photos"])

(* There is one counter at most, and it is balanced. *)
LikesInv ==
  /\ \A i \in DOMAIN newsFeed : \A n \in newsFeed[i].likeCount : newsFeed[i].likeCount = {n}
  /\ \A i \in DOMAIN newsFeed : newsFeed[i].likeCount # {} => posts[i].likes # {}
  /\ LikesKeepBalance

(* The cells show the post on the screen. *)
CellsInv ==
  /\ visible \in Nat /\ (visible # 0 => visible \in DOMAIN newsFeed)
  /\ header \in Images \cup {camera}
  /\ footer \in Nat \cup {blank}
  /\ media \in Seq(Photo)
  /\ FooterShowsLikes
  /\ (alive /\ visible # 0 /\ "avatars" \in reloaded /\ newsFeed[visible].avatar # {})
       => header \in newsFeed[visible].avatar
  /\ visible # 0 =>
       /\ Len(media) <= Len(newsFeed[visible].photos)
       /\ \A n \in DOMAIN media : media[n] = newsFeed[visible].photos[n]

IInv ==
  /\ FeedInv
  /\ ThreadsInv
  /\ AvatarsInv
  /\ PhotosInv
  /\ LikesInv
  /\ CellsInv

-----------------------------------------------------------------------------
(* A list of some elements. *)
LEMMA ListParts ==
  ASSUME NEW S, NEW l \in Seq(S)
  PROVE  /\ Len(l) \in Nat /\ DOMAIN l = 1 .. Len(l)
         /\ \A n \in DOMAIN l : l[n] \in S
         /\ Range(l) \subseteq S
         /\ l = <<>> <=> DOMAIN l = {}
  <1>1. Len(l) \in Nat /\ DOMAIN l = 1 .. Len(l)
    BY LenProperties
  <1>2. \A n \in DOMAIN l : l[n] \in S
    BY <1>1, ElementOfSeq
  <1>3. l = <<>> <=> DOMAIN l = {}
    <2>1. l = <<>> <=> Len(l) = 0
      BY EmptySeq
    <2>2. PICK k \in Nat : k = Len(l) /\ DOMAIN l = 1 .. k
      BY <1>1
    <2>3. 1 .. k = {} <=> k = 0
      OBVIOUS
    <2> QED
      BY <2>1, <2>2, <2>3, Zenon
  <1> QED
    BY <1>1, <1>2, <1>3 DEF Range

(* A list is a prefix of one that has the same elements first. *)
LEMMA Beginning ==
  ASSUME NEW S, NEW l \in Seq(S), NEW more \in Seq(S), Len(l) <= Len(more),
         \A n \in 1 .. Len(l) : l[n] = more[n]
  PROVE  IsPrefix(l, more)
  <1>1. PICK k \in Nat : k = Len(l)
    BY ListParts
  <1>2. Len(more) \in Nat /\ k <= Len(more) /\ DOMAIN more = 1 .. Len(more) /\ DOMAIN l = 1 .. k
    BY <1>1, ListParts
  <1>3. \A n \in 1 .. k : n \in DOMAIN more /\ n \in DOMAIN l
    BY <1>2
  <1>4. \A n \in 1 .. k : more[n] \in S /\ l[n] \in S
    BY <1>3, ListParts
  <1>5. PICK a, b : a = SubSeq(l, 1, k) /\ b = SubSeq(more, 1, k)
    OBVIOUS
  <1>6. /\ a \in Seq(S) /\ b \in Seq(S)
        /\ Len(a) = (IF 1 <= k THEN k - 1 + 1 ELSE 0) /\ Len(b) = (IF 1 <= k THEN k - 1 + 1 ELSE 0)
        /\ \A i \in 1 .. k - 1 + 1 : a[i] = l[1 + i - 1] /\ b[i] = more[1 + i - 1]
    BY <1>4, <1>5, SubSeqProperties
  <1>7. Len(a) = k /\ Len(b) = k /\ \A i \in 1 .. k : a[i] = b[i]
    BY <1>1, <1>6
  <1>8. a = b
    BY <1>6, <1>7, SeqEqual
  <1> QED
    BY <1>1, <1>5, <1>8 DEF IsPrefix

(* The feed with one News object replaced. *)
LEMMA OneChanged ==
  ASSUME NEW S, NEW feed \in Seq(S), NEW p \in DOMAIN feed, NEW e \in S,
         NEW new, new = [feed EXCEPT ![p] = e]
  PROVE  /\ new \in Seq(S) /\ Len(new) = Len(feed) /\ DOMAIN new = DOMAIN feed
         /\ new[p] = e
         /\ \A i \in DOMAIN feed : i # p => new[i] = feed[i]
  <1>1. DOMAIN feed = 1 .. Len(feed) /\ p \in 1 .. Len(feed)
    BY ListParts
  <1>2. new \in Seq(S) /\ Len(new) = Len(feed)
    BY <1>1, ExceptSeq
  <1> QED
    BY <1>1, <1>2

(* The avatar that is found is that of an author of this number, with a     *)
(* group's negated.                                                         *)
LEMMA AuthorFound ==
  ASSUME NEW id \in Int, NEW u \in matchPostAuthor(id)
  PROVE  u \in Images /\ {u} \in SignedAuthors(id)
  <1>1. CASE id < 0
    <2>1. PICK n \in DOMAIN Groups : Groups[n].id = -id /\ u \in Groups[n].photo_50
      BY <1>1 DEF matchPostAuthor, first
    <2>2. Groups[n] \in Range(Groups)
      BY DEF Range
    <2>3. Groups[n].photo_50 = {u} /\ -Groups[n].id = id
      BY <2>1, <2>2, AuthorsAssumption
    <2> QED
      BY <2>1, <2>2, <2>3 DEF Images, URLs, SignedAuthors
  <1>2. CASE ~(id < 0)
    <2>1. PICK n \in DOMAIN Profiles : Profiles[n].id = id /\ u \in Profiles[n].photo_50
      BY <1>2 DEF matchPostAuthor, first
    <2>2. Profiles[n] \in Range(Profiles)
      BY DEF Range
    <2>3. Profiles[n].photo_50 = {u}
      BY <2>1, <2>2, AuthorsAssumption
    <2> QED
      BY <2>1, <2>2, <2>3 DEF Images, URLs, SignedAuthors
  <1> QED
    BY <1>1, <1>2

(* The attachments of a post are photos. *)
LEMMA AttachedPhotos ==
  ASSUME NEW p \in Shapes
  PROVE  p.attachments \in Seq(Photos)
  <1>1. p.attachments \in Seq(Range(p.attachments)) /\ Range(p.attachments) \subseteq Photos
    BY ShapesAssumption DEF Photos
  <1>2. Len(p.attachments) \in Nat /\ DOMAIN p.attachments = 1 .. Len(p.attachments)
        /\ \A n \in DOMAIN p.attachments : p.attachments[n] \in Photos
    BY <1>1, ListParts
  <1>3. p.attachments = [n \in 1 .. Len(p.attachments) |-> p.attachments[n]]
    BY <1>1, SeqDef
  <1>4. p.attachments \in [1 .. Len(p.attachments) -> Photos]
    BY <1>2, <1>3
  <1> QED
    BY <1>2, <1>4, SeqDef

(* What is built from a post. *)
LEMMA NewsOfPost ==
  ASSUME NEW p \in Shapes
  PROVE  /\ News(p) \in NewsType
         /\ News(p).avatar = {} /\ News(p).photos = <<>> /\ News(p).photosURL = p.attachments
         /\ News(p).likeCount = p.likes /\ News(p).liked = p.user_likes
         /\ \A u \in News(p).avatarURL :
              u \in Images /\ \E id \in p.source_id : {u} \in SignedAuthors(id)
  <1>1. /\ News(p).avatar = {} /\ News(p).photos = <<>> /\ News(p).photosURL = p.attachments
        /\ News(p).likeCount = p.likes /\ News(p).liked = p.user_likes
        /\ News(p).avatarURL = UNION {matchPostAuthor(id) : id \in p.source_id}
    BY DEF News, fillAttachedPhotosURL
  <1>2. \A u \in News(p).avatarURL :
          u \in Images /\ \E id \in p.source_id : {u} \in SignedAuthors(id)
    <2> SUFFICES ASSUME NEW u \in News(p).avatarURL
                 PROVE  u \in Images /\ \E id \in p.source_id : {u} \in SignedAuthors(id)
      OBVIOUS
    <2>1. PICK id \in p.source_id : u \in matchPostAuthor(id)
      BY <1>1
    <2>2. id \in Int
      BY ShapesAssumption
    <2> QED
      BY <2>1, <2>2, AuthorFound
  <1>3. News(p).photos \in Seq(Photo) /\ News(p).photosURL \in Seq(Photos)
    BY <1>1, AttachedPhotos
  <1>4. News(p).likeCount \in SUBSET Nat /\ News(p).liked \in {{}, {0}, {1}}
    BY <1>1, ShapesAssumption
  <1>5. News(p).avatarURL \in SUBSET Images /\ News(p).avatar \in SUBSET Images
    BY <1>1, <1>2
  <1>6. News(p) = [avatar |-> News(p).avatar, avatarURL |-> News(p).avatarURL,
                   photos |-> News(p).photos, photosURL |-> News(p).photosURL,
                   likeCount |-> News(p).likeCount, liked |-> News(p).liked]
    BY DEF News
  <1>7. News(p) \in NewsType
    BY <1>3, <1>4, <1>5, <1>6 DEF NewsType
  <1> QED
    BY <1>1, <1>2, <1>7

(* Likes stay balanced when the button is pressed. *)
LEMMA PressedLikes ==
  ASSUME NEW news \in NewsType, NEW p \in Shapes, news.likeCount # {}, p.likes # {},
         \A n \in news.likeCount : news.likeCount = {n},
         \A n \in news.likeCount, m \in p.likes : n - Own(news.liked) = m - Own(p.user_likes)
  PROVE  /\ pressed(news) \in NewsType
         /\ pressed(news).photos = news.photos /\ pressed(news).avatar = news.avatar
         /\ pressed(news).likeCount # {}
         /\ \A n \in pressed(news).likeCount : pressed(news).likeCount = {n}
         /\ \A n \in pressed(news).likeCount, m \in p.likes :
              n - Own(pressed(news).liked) = m - Own(p.user_likes)
  <1>1. PICK n \in Nat : news.likeCount = {n}
    BY DEF NewsType
  <1>2. PICK m \in Nat : p.likes = {m}
    BY ShapesAssumption
  <1>3. n - Own(news.liked) = m - Own(p.user_likes)
    BY <1>1, <1>2
  <1>4. Own(p.user_likes) \in {0, 1} /\ m - Own(p.user_likes) \in Nat
    BY <1>2, ShapesAssumption DEF Own
  <1>5. CASE news.liked = {1}
    <2>1. Own(news.liked) = 1
      BY <1>5 DEF Own
    <2>2. n - 1 \in Nat /\ n - 1 = m - Own(p.user_likes)
      BY <1>3, <1>4, <2>1
    <2>3. {c - 1 : c \in news.likeCount} = {n - 1}
      BY <1>1
    <2>4. /\ pressed(news) \in NewsType
          /\ pressed(news).photos = news.photos /\ pressed(news).avatar = news.avatar
          /\ pressed(news).likeCount = {n - 1} /\ pressed(news).liked = {0}
      <3>1. pressed(news) = [news EXCEPT !.likeCount = {c - 1 : c \in news.likeCount}, !.liked = {0}]
        BY <1>5 DEF pressed
      <3>2. PICK likes \in SUBSET Nat : likes = {c - 1 : c \in news.likeCount} /\ likes = {n - 1}
        BY <2>2, <2>3
      <3>3. pressed(news) = [news EXCEPT !.likeCount = likes, !.liked = {0}]
        BY <3>1, <3>2, Zenon
      <3>4. PICK own \in {{}, {0}, {1}} : own = {0}
        OBVIOUS
      <3>5. pressed(news) = [news EXCEPT !.likeCount = likes, !.liked = own]
        BY <3>3, <3>4, Zenon
      <3>6. /\ pressed(news) \in NewsType
            /\ pressed(news).photos = news.photos /\ pressed(news).avatar = news.avatar
            /\ pressed(news).likeCount = likes /\ pressed(news).liked = own
        BY <3>5 DEF NewsType
      <3> QED
        BY <3>2, <3>4, <3>6
    <2>5. Own({0}) = 0
      BY DEF Own
    <2>6. n - 1 - Own(pressed(news).liked) = m - Own(p.user_likes)
      BY <2>2, <2>4, <2>5
    <2> QED
      BY <1>2, <2>4, <2>6
  <1>6. CASE news.liked # {1}
    <2>1. Own(news.liked) = 0
      BY <1>6 DEF Own
    <2>2. n + 1 \in Nat /\ (n + 1) - 1 = m - Own(p.user_likes)
      BY <1>3, <1>4, <2>1
    <2>3. {c + 1 : c \in news.likeCount} = {n + 1}
      BY <1>1
    <2>4. /\ pressed(news) \in NewsType
          /\ pressed(news).photos = news.photos /\ pressed(news).avatar = news.avatar
          /\ pressed(news).likeCount = {n + 1} /\ pressed(news).liked = {1}
      <3>1. pressed(news) = [news EXCEPT !.likeCount = {c + 1 : c \in news.likeCount}, !.liked = {1}]
        BY <1>6 DEF pressed
      <3>2. PICK likes \in SUBSET Nat : likes = {c + 1 : c \in news.likeCount} /\ likes = {n + 1}
        BY <2>2, <2>3
      <3>3. pressed(news) = [news EXCEPT !.likeCount = likes, !.liked = {1}]
        BY <3>1, <3>2, Zenon
      <3>4. PICK own \in {{}, {0}, {1}} : own = {1}
        OBVIOUS
      <3>5. pressed(news) = [news EXCEPT !.likeCount = likes, !.liked = own]
        BY <3>3, <3>4, Zenon
      <3>6. /\ pressed(news) \in NewsType
            /\ pressed(news).photos = news.photos /\ pressed(news).avatar = news.avatar
            /\ pressed(news).likeCount = likes /\ pressed(news).liked = own
        BY <3>5 DEF NewsType
      <3> QED
        BY <3>2, <3>4, <3>6
    <2>5. Own({1}) = 1
      BY DEF Own
    <2>6. (n + 1) - Own(pressed(news).liked) = m - Own(p.user_likes)
      BY <2>2, <2>4, <2>5
    <2> QED
      BY <1>2, <2>4, <2>6
  <1> QED
    BY <1>5, <1>6

-----------------------------------------------------------------------------
(* The initial state satisfies the invariant. *)
LEMMA InitIInv == Init => IInv
  <1> SUFFICES ASSUME Init PROVE IInv
    OBVIOUS
  <1>1. /\ request = "sent" /\ posts = <<>> /\ newsFeed = <<>> /\ mainQueue = <<>> /\ reloaded = {}
        /\ visible = 0 /\ header = camera /\ footer = blank /\ media = <<>> /\ crashed = "no"
    BY DEF Init
  <1>2. /\ todo \in [Threads -> SUBSET [post : Nat, place : Nat, url : Images \cup Photos]]
        /\ \A t \in Threads : todo[t] = {}
    BY DEF Init
  <1>3. storing \in [Threads -> BOOLEAN] /\ \A t \in Threads : ~storing[t]
    BY DEF Init
  <1>4. DOMAIN <<>> = {} /\ Range(<<>>) = {}
    BY DEF Range
  <1>5. FeedInv
    BY <1>1, <1>3, <1>4, MaxPostsAssumption DEF FeedInv
  <1>6. ThreadsInv
    <2>1. mainQueue \in Seq(Threads) /\ Range(mainQueue) \cup reloaded = {}
      BY <1>1, <1>4
    <2>2. \A t \in Threads : \A job \in todo[t] : job.post \in DOMAIN newsFeed
      BY <1>2
    <2>3. \A t \in Threads : storing[t] => \A job \in todo[t] : current(t, job) => job.url # ""
      BY <1>3
    <2>4. storing \in [Threads -> BOOLEAN]
      BY <1>3
    <2>5. \A t \in Range(mainQueue) \cup reloaded : todo[t] = {}
      BY <2>1
    <2>6. reloaded \subseteq Threads
      BY <1>1
    <2> QED
      BY <1>2, <2>1, <2>2, <2>3, <2>4, <2>5, <2>6, Zenon DEF ThreadsInv
  <1>7. AvatarsInv /\ PhotosInv
    BY <1>1, <1>2, <1>4 DEF AvatarsInv, PhotosInv, Threads
  <1>8. LikesInv
    BY <1>1, <1>4 DEF LikesInv, LikesKeepBalance
  <1>9. CellsInv
    BY <1>1 DEF CellsInv, FooterShowsLikes
  <1> QED
    BY <1>5, <1>6, <1>7, <1>8, <1>9 DEF IInv

(* The rows of a post are drawn. *)
LEMMA RowsDrawn ==
  ASSUME CellsInv, newsFeed' \in Seq(NewsType), NEW i \in DOMAIN newsFeed',
         cellForRowAt(i, newsFeed'),
         \A n \in newsFeed'[i].likeCount : newsFeed'[i].likeCount = {n}
  PROVE  CellsInv'
  <1>1. newsFeed'[i] \in NewsType /\ i \in Nat /\ i # 0
    BY ListParts
  <1>2. visible' = i /\ media' = newsFeed'[i].photos
    BY DEF cellForRowAt
  <1>3. /\ header' \in Images \cup {camera}
        /\ newsFeed'[i].avatar # {} => header' \in newsFeed'[i].avatar
    BY <1>1 DEF CellsInv, cellForRowAt, configureHeader, NewsType
  <1>4. /\ footer' \in Nat \cup {blank}
        /\ newsFeed'[i].likeCount # {} => footer' \in newsFeed'[i].likeCount
    BY <1>1 DEF CellsInv, cellForRowAt, configureFooter, NewsType
  <1>5. \A n \in newsFeed'[i].likeCount : footer' = n
    BY <1>4
  <1>6. media' \in Seq(Photo) /\ Len(media') \in Nat
    <2>1. media' \in Seq(Photo)
      BY <1>1, <1>2 DEF NewsType
    <2> QED
      BY <2>1, ListParts
  <1> QED
    BY <1>1, <1>2, <1>3, <1>4, <1>5, <1>6 DEF CellsInv, FooterShowsLikes

(* The rows on the screen are drawn again, or a data race ends the process. *)
LEMMA Redrawn ==
  ASSUME CellsInv, newsFeed' \in Seq(NewsType), NEW i \in DOMAIN newsFeed',
         Draw(i, newsFeed'),
         \A n \in newsFeed'[i].likeCount : newsFeed'[i].likeCount = {n},
         DOMAIN newsFeed' = DOMAIN newsFeed,
         \A k \in DOMAIN newsFeed : newsFeed'[k].photos = newsFeed[k].photos
  PROVE  CellsInv'
  <1>1. CASE cellForRowAt(i, newsFeed')
    BY <1>1, RowsDrawn
  <1>2. CASE crashed' = "race" /\ UNCHANGED cells
    <2>1. UNCHANGED <<visible, header, footer, media>> /\ ~alive'
      BY <1>2 DEF cells, alive
    <2> QED
      BY <2>1 DEF CellsInv, FooterShowsLikes
  <1> QED
    BY <1>1, <1>2 DEF Draw

(* The table is reloaded, with a feed that has the same photos. *)
LEMMA Reloaded ==
  ASSUME IInv, newsFeed' \in Seq(NewsType), reloadData(newsFeed'),
         \A k \in DOMAIN newsFeed' : \A n \in newsFeed'[k].likeCount : newsFeed'[k].likeCount = {n},
         DOMAIN newsFeed' = DOMAIN newsFeed,
         \A k \in DOMAIN newsFeed : newsFeed'[k].photos = newsFeed[k].photos
  PROVE  CellsInv' /\ crashed' \in {crashed, "race"}
  <1>1. CASE visible = 0
    <2>1. UNCHANGED <<visible, header, footer, media, crashed>>
      BY <1>1 DEF reloadData, cells
    <2> QED
      BY <1>1, <2>1 DEF IInv, CellsInv, FooterShowsLikes
  <1>2. CASE visible # 0
    <2>1. Draw(visible, newsFeed') /\ visible \in DOMAIN newsFeed'
      BY <1>2 DEF reloadData, IInv, CellsInv
    <2>2. crashed' \in {crashed, "race"}
      BY <2>1 DEF Draw
    <2> QED
      BY <2>1, <2>2, Redrawn DEF IInv
  <1> QED
    BY <1>1, <1>2

(* The threads, and what is downloaded, stay as they are. *)
LEMMA SameThreads ==
  ASSUME IInv, UNCHANGED <<posts, todo, storing>>, DOMAIN newsFeed' = DOMAIN newsFeed,
         mainQueue' \in Seq(Threads), reloaded' \subseteq Threads,
         Range(mainQueue') \cup reloaded' \subseteq Range(mainQueue) \cup reloaded,
         \A k \in DOMAIN newsFeed : /\ newsFeed'[k].photos = newsFeed[k].photos
                                    /\ newsFeed'[k].avatar = newsFeed[k].avatar
  PROVE  ThreadsInv' /\ AvatarsInv' /\ PhotosInv'
  <1>1. \A t, job : current(t, job)' = current(t, job)
    BY DEF current
  <1>2. ThreadsInv'
    BY <1>1 DEF IInv, ThreadsInv
  <1>3. \A u, i : ofAuthor(u, i)' = ofAuthor(u, i)
    BY DEF ofAuthor
  <1>4. AvatarsInv'
    BY <1>3 DEF IInv, AvatarsInv
  <1>5. \A i, l, jobs : placed(i, l, jobs)' = placed(i, l, jobs)
    BY DEF placed
  <1>6. PhotosInv'
    BY <1>5 DEF IInv, PhotosInv
  <1> QED
    BY <1>2, <1>4, <1>6

(* Steps that leave feed and threads alone: the failed request, and none.   *)
LEMMA QuietStep ==
  ASSUME IInv, UNCHANGED <<posts, newsFeed, threads, cells, crashed>>,
         request' = request \/ request' = "failed"
  PROVE  IInv'
  <1>1. UNCHANGED <<todo, storing, mainQueue, reloaded>> /\ UNCHANGED <<visible, header, footer, media>>
    BY DEF threads, cells
  <1>2. FeedInv'
    BY <1>1 DEF IInv, FeedInv
  <1>3. ThreadsInv' /\ AvatarsInv' /\ PhotosInv'
    BY <1>1, SameThreads DEF IInv, ThreadsInv
  <1>4. LikesInv'
    BY DEF IInv, LikesInv, LikesKeepBalance
  <1>5. CellsInv'
    BY <1>1 DEF IInv, CellsInv, FooterShowsLikes, alive
  <1> QED
    BY <1>2, <1>3, <1>4, <1>5 DEF IInv

(* A thread is through. *)
LEMMA EndStep ==
  ASSUME IInv, NEW t \in Threads, threadEnds(t)
  PROVE  IInv'
  <1>1. /\ request = "shown" /\ todo[t] = {} /\ mainQueue' = Append(mainQueue, t)
        /\ UNCHANGED <<request, posts, newsFeed, todo, storing, reloaded, crashed>>
        /\ UNCHANGED <<visible, header, footer, media>>
    BY DEF threadEnds, cells
  <1>2. FeedInv'
    BY <1>1 DEF IInv, FeedInv
  <1>3. mainQueue' \in Seq(Threads) /\ Range(mainQueue') \subseteq Range(mainQueue) \cup {t}
    <2>1. mainQueue \in Seq(Threads)
      BY DEF IInv, ThreadsInv
    <2>2. /\ mainQueue' \in Seq(Threads) /\ Len(mainQueue') = Len(mainQueue) + 1
          /\ \A i \in 1 .. Len(mainQueue) : mainQueue'[i] = mainQueue[i]
          /\ mainQueue'[Len(mainQueue) + 1] = t
      BY <1>1, <2>1, AppendProperties
    <2>3. /\ DOMAIN mainQueue = 1 .. Len(mainQueue) /\ Len(mainQueue) \in Nat
          /\ DOMAIN mainQueue' = 1 .. Len(mainQueue) + 1
      BY <2>1, <2>2, ListParts
    <2>4. \A i \in DOMAIN mainQueue' : i \in DOMAIN mainQueue \/ i = Len(mainQueue) + 1
      BY <2>3
    <2> QED
      BY <2>2, <2>3, <2>4 DEF Range
  <1>4. ThreadsInv'
    <2>1. \A s, job : current(s, job)' = current(s, job)
      BY <1>1 DEF current
    <2> QED
      BY <1>1, <1>3, <2>1 DEF IInv, ThreadsInv
  <1>5. AvatarsInv' /\ PhotosInv'
    <2>1. \A u, i : ofAuthor(u, i)' = ofAuthor(u, i)
      BY <1>1 DEF ofAuthor
    <2>2. \A i, l, jobs : placed(i, l, jobs)' = placed(i, l, jobs)
      BY <1>1 DEF placed
    <2> QED
      BY <1>1, <2>1, <2>2 DEF IInv, AvatarsInv, PhotosInv
  <1>6. LikesInv'
    BY <1>1 DEF IInv, LikesInv, LikesKeepBalance
  <1>7. CellsInv'
    BY <1>1 DEF IInv, CellsInv, FooterShowsLikes, alive
  <1> QED
    BY <1>2, <1>4, <1>5, <1>6, <1>7 DEF IInv

(* The block on the main queue. *)
LEMMA ReloadStep ==
  ASSUME IInv, reload
  PROVE  IInv'
  <1>1. /\ mainQueue # <<>> /\ mainQueue' = Tail(mainQueue)
        /\ reloaded' = reloaded \cup {Head(mainQueue)}
        /\ reloadData(newsFeed) /\ UNCHANGED <<request, posts, newsFeed, todo, storing>>
    BY DEF reload
  <1>2. /\ mainQueue' \in Seq(Threads) /\ Head(mainQueue) \in Threads
        /\ Head(mainQueue) \in Range(mainQueue) /\ Range(mainQueue') \subseteq Range(mainQueue)
    <2>1. mainQueue \in Seq(Threads)
      BY DEF IInv, ThreadsInv
    <2>2. /\ Head(mainQueue) \in Threads /\ mainQueue' \in Seq(Threads)
          /\ Len(mainQueue') = Len(mainQueue) - 1
          /\ \A i \in 1 .. Len(mainQueue') : mainQueue'[i] = mainQueue[i + 1]
      BY <1>1, <2>1, HeadTailProperties
    <2>3. /\ DOMAIN mainQueue = 1 .. Len(mainQueue) /\ Len(mainQueue) \in Nat
          /\ DOMAIN mainQueue' = 1 .. Len(mainQueue') /\ DOMAIN mainQueue # {}
      BY <1>1, <2>1, <2>2, ListParts
    <2>4. 1 \in DOMAIN mainQueue /\ \A i \in DOMAIN mainQueue' : i + 1 \in DOMAIN mainQueue
      BY <2>2, <2>3
    <2>5. Head(mainQueue) = mainQueue[1]
      BY <2>1, <1>1
    <2> QED
      BY <2>2, <2>3, <2>4, <2>5 DEF Range
  <1>3. newsFeed' \in Seq(NewsType) /\ reloadData(newsFeed')
        /\ \A k \in DOMAIN newsFeed' : \A n \in newsFeed'[k].likeCount : newsFeed'[k].likeCount = {n}
    BY <1>1 DEF IInv, FeedInv, LikesInv
  <1>4. CellsInv' /\ crashed' \in {crashed, "race"}
    BY <1>1, <1>3, Reloaded
  <1>5. ThreadsInv' /\ AvatarsInv' /\ PhotosInv'
    <2>1. /\ reloaded' \subseteq Threads
          /\ Range(mainQueue') \cup reloaded' \subseteq Range(mainQueue) \cup reloaded
      BY <1>1, <1>2 DEF IInv, ThreadsInv
    <2> QED
      BY <1>1, <1>2, <2>1, SameThreads
  <1>6. FeedInv'
    BY <1>1, <1>4 DEF IInv, FeedInv
  <1>7. LikesInv'
    BY <1>1 DEF IInv, LikesInv, LikesKeepBalance
  <1> QED
    BY <1>4, <1>5, <1>6, <1>7 DEF IInv

(* The user scrolls. *)
LEMMA ScrollStep ==
  ASSUME IInv, NEW i \in DOMAIN newsFeed, scroll(i)
  PROVE  IInv'
  <1>1. /\ Draw(i, newsFeed) /\ UNCHANGED <<request, posts, newsFeed>>
        /\ UNCHANGED <<todo, storing, mainQueue, reloaded>>
    BY DEF scroll, threads
  <1>2. crashed' \in {crashed, "race"}
    BY <1>1 DEF Draw
  <1>3. CellsInv'
    BY <1>1, Redrawn DEF IInv, FeedInv, LikesInv
  <1>4. FeedInv'
    BY <1>1, <1>2 DEF IInv, FeedInv
  <1>5. ThreadsInv' /\ AvatarsInv' /\ PhotosInv'
    BY <1>1, SameThreads DEF IInv, ThreadsInv
  <1>6. LikesInv'
    BY <1>1 DEF IInv, LikesInv, LikesKeepBalance
  <1> QED
    BY <1>3, <1>4, <1>5, <1>6 DEF IInv

(* The like button. *)
LEMMA LikeStep ==
  ASSUME IInv, likeButtonPressed
  PROVE  IInv'
  <1>1. /\ UNCHANGED <<request, posts>> /\ UNCHANGED <<todo, storing, mainQueue, reloaded>>
        /\ visible # 0 /\ visible \in DOMAIN newsFeed
    BY DEF likeButtonPressed, threads, IInv, CellsInv
  <1>2. CASE newsFeed[visible].likeCount = {} /\ crashed' = "nil likeCount" /\ UNCHANGED <<newsFeed, cells>>
    <2>1. UNCHANGED <<visible, header, footer, media>> /\ ~alive'
      BY <1>2 DEF cells, alive
    <2>2. FeedInv'
      BY <1>1, <1>2 DEF IInv, FeedInv
    <2>3. ThreadsInv' /\ AvatarsInv' /\ PhotosInv'
      BY <1>1, <1>2, SameThreads DEF IInv, ThreadsInv
    <2>4. LikesInv'
      <3>1. UNCHANGED <<posts, newsFeed>>
        BY <1>1, <1>2
      <3> QED
        BY <3>1 DEF IInv, LikesInv, LikesKeepBalance
    <2>5. CellsInv'
      BY <1>1, <1>2, <2>1 DEF IInv, CellsInv, FooterShowsLikes
    <2> QED
      BY <2>2, <2>3, <2>4, <2>5 DEF IInv
  <1>3. CASE /\ newsFeed[visible].likeCount # {}
             /\ newsFeed' = [newsFeed EXCEPT ![visible] = pressed(@)]
             /\ reloadData(newsFeed')
    <2>1. /\ newsFeed \in Seq(NewsType) /\ newsFeed[visible] \in NewsType /\ posts[visible] \in Shapes
      <3>1. newsFeed \in Seq(NewsType) /\ posts \in Seq(Shapes) /\ visible \in DOMAIN posts
        BY <1>1 DEF IInv, FeedInv
      <3> QED
        BY <1>1, <3>1, ListParts
    <2>2. /\ posts[visible].likes # {}
          /\ \A n \in newsFeed[visible].likeCount : newsFeed[visible].likeCount = {n}
          /\ \A n \in newsFeed[visible].likeCount, m \in posts[visible].likes :
               n - Own(newsFeed[visible].liked) = m - Own(posts[visible].user_likes)
      BY <1>1, <1>3 DEF IInv, LikesInv, LikesKeepBalance
    <2>3. PICK new \in NewsType : new = pressed(newsFeed[visible])
      BY <1>3, <2>1, <2>2, PressedLikes
    <2>4. /\ new.photos = newsFeed[visible].photos /\ new.avatar = newsFeed[visible].avatar
          /\ new.likeCount # {}
          /\ \A n \in new.likeCount : new.likeCount = {n}
          /\ \A n \in new.likeCount, m \in posts[visible].likes :
               n - Own(new.liked) = m - Own(posts[visible].user_likes)
      BY <1>3, <2>1, <2>2, <2>3, PressedLikes
    <2>5. newsFeed' = [newsFeed EXCEPT ![visible] = new]
      BY <1>3, <2>3
    <2>6. /\ newsFeed' \in Seq(NewsType) /\ Len(newsFeed') = Len(newsFeed)
          /\ DOMAIN newsFeed' = DOMAIN newsFeed
          /\ newsFeed'[visible] = new
          /\ \A i \in DOMAIN newsFeed : i # visible => newsFeed'[i] = newsFeed[i]
      BY <1>1, <2>1, <2>5, OneChanged
    <2>7. \A k \in DOMAIN newsFeed : /\ newsFeed'[k].photos = newsFeed[k].photos
                                     /\ newsFeed'[k].avatar = newsFeed[k].avatar
      BY <2>4, <2>6
    <2>8. LikesInv'
      <3>1. \A i \in DOMAIN newsFeed' : \A n \in newsFeed'[i].likeCount : newsFeed'[i].likeCount = {n}
        BY <2>4, <2>6 DEF IInv, LikesInv
      <3>2. \A i \in DOMAIN newsFeed' : newsFeed'[i].likeCount # {} => posts'[i].likes # {}
        BY <1>1, <2>2, <2>6 DEF IInv, LikesInv
      <3>3. LikesKeepBalance'
        BY <1>1, <2>4, <2>6 DEF IInv, LikesInv, LikesKeepBalance
      <3> QED
        BY <3>1, <3>2, <3>3 DEF LikesInv
    <2>9. CellsInv' /\ crashed' \in {crashed, "race"}
      BY <1>3, <2>6, <2>7, <2>8, Reloaded DEF LikesInv
    <2>10. FeedInv'
      <3>1. newsFeed' = <<>> <=> newsFeed = <<>>
        BY <2>1, <2>6, ListParts
      <3> QED
        BY <1>1, <2>6, <2>9, <3>1 DEF IInv, FeedInv
    <2>11. ThreadsInv' /\ AvatarsInv' /\ PhotosInv'
      BY <1>1, <2>6, <2>7, SameThreads DEF IInv, ThreadsInv
    <2> QED
      BY <2>8, <2>9, <2>10, <2>11 DEF IInv
  <1> QED
    BY <1>2, <1>3 DEF likeButtonPressed

(* What a download says. *)
LEMMA JobParts ==
  ASSUME IInv, NEW t \in Threads, NEW job \in todo[t]
  PROVE  job.post \in Nat /\ job.place \in Nat /\ job.url \in Images \cup Photos
  <1>1. todo[t] \in SUBSET [post : Nat, place : Nat, url : Images \cup Photos]
    BY DEF IInv, ThreadsInv
  <1>2. job \in [post : Nat, place : Nat, url : Images \cup Photos]
    BY <1>1
  <1> QED
    BY <1>2

(* Fewer downloads are left to do. *)
LEMMA FewerJobs ==
  ASSUME NEW i, NEW l, NEW jobs, NEW fewer \in SUBSET jobs, placed(i, l, jobs)
  PROVE  placed(i, l, fewer)
  BY DEF placed

(* A download is done with: what is left of todo, and who is at it. *)
LEMMA JobDone ==
  ASSUME IInv, NEW t \in Threads, NEW job \in todo[t],
         todo' = [todo EXCEPT ![t] = @ \ {job}], UNCHANGED posts
  PROVE  /\ todo' \in [Threads -> SUBSET [post : Nat, place : Nat, url : Images \cup Photos]]
         /\ todo'[t] = todo[t] \ {job}
         /\ \A s \in Threads : todo'[s] \subseteq todo[s]
         /\ \A s \in Threads : s # t => /\ todo'[s] = todo[s]
                                        /\ \A j : current(s, j)' = current(s, j)
         /\ \A u, i : ofAuthor(u, i)' = ofAuthor(u, i)
         /\ \A i, l, jobs : placed(i, l, jobs)' = placed(i, l, jobs)
  <1>1. /\ todo' \in [Threads -> SUBSET [post : Nat, place : Nat, url : Images \cup Photos]]
        /\ todo'[t] = todo[t] \ {job}
        /\ \A s \in Threads : s # t => todo'[s] = todo[s]
    <2> DEFINE Job == [post : Nat, place : Nat, url : Images \cup Photos]
    <2>1. todo \in [Threads -> SUBSET Job]
      BY DEF IInv, ThreadsInv
    <2> HIDE DEF Job
    <2>2. /\ todo' \in [Threads -> SUBSET Job]
          /\ todo'[t] = todo[t] \ {job}
          /\ \A s \in Threads : s # t => todo'[s] = todo[s]
      BY <2>1
    <2> QED
      BY <2>2 DEF Job
  <1>2. \A s \in Threads : s # t => \A j : current(s, j)' = current(s, j)
    BY <1>1 DEF current
  <1>3. \A u, i : ofAuthor(u, i)' = ofAuthor(u, i)
    BY DEF ofAuthor
  <1>4. \A i, l, jobs : placed(i, l, jobs)' = placed(i, l, jobs)
    BY DEF placed
  <1>5. \A s \in Threads : todo'[s] \subseteq todo[s]
    BY <1>1
  <1> QED
    BY <1>1, <1>2, <1>3, <1>4, <1>5

(* A download fails. *)
LEMMA SkipStep ==
  ASSUME IInv, NEW t \in Threads, skip(t)
  PROVE  IInv'
  <1>1. /\ ~storing[t]
        /\ UNCHANGED <<request, posts, newsFeed, storing, mainQueue, reloaded, crashed>>
        /\ UNCHANGED <<visible, header, footer, media>>
    BY DEF skip, cells
  <1>2. PICK job \in todo[t] : todo' = [todo EXCEPT ![t] = @ \ {job}]
    BY DEF skip
  <1>3. /\ todo' \in [Threads -> SUBSET [post : Nat, place : Nat, url : Images \cup Photos]]
        /\ \A s \in Threads : todo'[s] \subseteq todo[s]
        /\ \A s \in Threads : s # t => \A j : current(s, j)' = current(s, j)
        /\ \A u, i : ofAuthor(u, i)' = ofAuthor(u, i)
        /\ \A i, l, jobs : placed(i, l, jobs)' = placed(i, l, jobs)
    BY <1>1, <1>2, JobDone
  <1>4. FeedInv'
    BY <1>1 DEF IInv, FeedInv
  <1>5. ThreadsInv'
    <2>1. \A s \in Threads : \A j \in todo'[s] : j.post \in DOMAIN newsFeed'
      BY <1>1, <1>3 DEF IInv, ThreadsInv
    <2>2. \A s \in Range(mainQueue') \cup reloaded' : todo'[s] = {}
      <3> SUFFICES ASSUME NEW s \in Range(mainQueue) \cup reloaded PROVE todo'[s] = {}
        BY <1>1
      <3>1. mainQueue \in Seq(Threads) /\ reloaded \subseteq Threads /\ todo[s] = {}
        BY DEF IInv, ThreadsInv
      <3>2. s \in Threads
        BY <3>1, ListParts
      <3> QED
        BY <1>3, <3>1, <3>2
    <2>3. \A s \in Threads : storing'[s] => \A j \in todo'[s] : current(s, j)' => j.url # ""
      BY <1>1, <1>3 DEF IInv, ThreadsInv
    <2> QED
      BY <1>1, <1>3, <2>1, <2>2, <2>3 DEF IInv, ThreadsInv
  <1>6. AvatarsInv'
    BY <1>1, <1>3 DEF IInv, AvatarsInv, Threads
  <1>7. PhotosInv'
    <2>1. todo'["photos"] \in SUBSET todo["photos"]
      BY <1>3 DEF Threads
    <2>2. \A i \in DOMAIN newsFeed : placed(i, newsFeed[i].photos, todo'["photos"])
      BY <2>1, FewerJobs DEF IInv, PhotosInv
    <2> QED
      BY <1>1, <1>3, <2>1, <2>2 DEF IInv, PhotosInv
  <1>8. LikesInv'
    BY <1>1 DEF IInv, LikesInv, LikesKeepBalance
  <1>9. CellsInv'
    BY <1>1 DEF IInv, CellsInv, FooterShowsLikes, alive
  <1> QED
    BY <1>4, <1>5, <1>6, <1>7, <1>8, <1>9 DEF IInv

(* A thread is at one download at a time. *)
LEMMA OneCurrent ==
  ASSUME IInv, NEW t \in Threads, NEW a, NEW b, current(t, a), current(t, b)
  PROVE  a = b
  <1>1. a \in todo[t] /\ b \in todo[t]
    BY DEF current
  <1>2. a.post \in Nat /\ a.place \in Nat /\ b.post \in Nat /\ b.place \in Nat
    BY <1>1, JobParts
  <1>3. ASSUME a # b PROVE FALSE
    <2>1. a.post < b.post \/ (a.post = b.post /\ a.place < b.place)
      BY <1>1, <1>3 DEF current
    <2>2. b.post < a.post \/ (b.post = a.post /\ b.place < a.place)
      BY <1>1, <1>3 DEF current
    <2> QED
      BY <1>2, <2>1, <2>2
  <1> QED
    BY <1>3

(* A download has come in. *)
LEMMA DownloadedStep ==
  ASSUME IInv, NEW t \in Threads, downloaded(t)
  PROVE  IInv'
  <1>1. /\ UNCHANGED <<request, posts, newsFeed, todo, mainQueue, reloaded, crashed>>
        /\ UNCHANGED <<visible, header, footer, media>>
        /\ storing' = [storing EXCEPT ![t] = TRUE]
    BY DEF downloaded, cells
  <1>2. PICK job \in todo[t] : current(t, job) /\ job.url # ""
    BY DEF downloaded
  <1>3. request # "sent"
    <2>1. job.post \in DOMAIN newsFeed
      BY DEF IInv, ThreadsInv
    <2>2. newsFeed # <<>>
      BY <2>1
    <2> QED
      BY <2>2 DEF IInv, FeedInv
  <1>4. FeedInv'
    BY <1>1, <1>3 DEF IInv, FeedInv
  <1>5. ThreadsInv'
    <2>1. \A s, j : current(s, j)' = current(s, j)
      BY <1>1 DEF current
    <2>2. storing' \in [Threads -> BOOLEAN]
      BY <1>1, Zenon DEF IInv, ThreadsInv
    <2>3. \A j \in todo[t] : current(t, j) => j.url # ""
      BY <1>2, OneCurrent
    <2>4. \A s \in Threads : s # t => storing'[s] = storing[s]
      BY <1>1 DEF IInv, ThreadsInv
    <2>5. \A s \in Threads : storing'[s] => \A j \in todo'[s] : current(s, j)' => j.url # ""
      BY <1>1, <2>1, <2>3, <2>4 DEF IInv, ThreadsInv
    <2> QED
      BY <1>1, <2>2, <2>5 DEF IInv, ThreadsInv
  <1>6. AvatarsInv' /\ PhotosInv'
    <2>1. \A u, i : ofAuthor(u, i)' = ofAuthor(u, i)
      BY <1>1 DEF ofAuthor
    <2>2. \A i, l, jobs : placed(i, l, jobs)' = placed(i, l, jobs)
      BY <1>1 DEF placed
    <2> QED
      BY <1>1, <2>1, <2>2 DEF IInv, AvatarsInv, PhotosInv
  <1>7. LikesInv'
    BY <1>1 DEF IInv, LikesInv, LikesKeepBalance
  <1>8. CellsInv'
    BY <1>1 DEF IInv, CellsInv, FooterShowsLikes, alive
  <1> QED
    BY <1>4, <1>5, <1>6, <1>7, <1>8 DEF IInv

(* A store: the parts that are the same for avatars and photos. *)
LEMMA Stored ==
  ASSUME IInv, NEW t \in Threads, store(t), NEW job \in todo[t], current(t, job),
         todo' = [todo EXCEPT ![t] = @ \ {job}],
         NEW new \in NewsType, newsFeed' = [newsFeed EXCEPT ![job.post] = new],
         new.likeCount = newsFeed[job.post].likeCount, new.liked = newsFeed[job.post].liked
  PROVE  /\ FeedInv' /\ ThreadsInv' /\ LikesInv'
         /\ job.post \in DOMAIN newsFeed /\ DOMAIN newsFeed' = DOMAIN newsFeed
         /\ newsFeed'[job.post] = new
         /\ \A i \in DOMAIN newsFeed : i # job.post => newsFeed'[i] = newsFeed[i]
  <1>1. /\ storing[t] /\ storing' = [storing EXCEPT ![t] = FALSE]
        /\ UNCHANGED <<request, posts, mainQueue, reloaded, crashed>>
    BY DEF store
  <1>2. job.post \in DOMAIN newsFeed /\ newsFeed \in Seq(NewsType)
    BY DEF IInv, ThreadsInv, FeedInv
  <1>3. /\ newsFeed' \in Seq(NewsType) /\ Len(newsFeed') = Len(newsFeed)
        /\ DOMAIN newsFeed' = DOMAIN newsFeed
        /\ newsFeed'[job.post] = new
        /\ \A i \in DOMAIN newsFeed : i # job.post => newsFeed'[i] = newsFeed[i]
    BY <1>2, OneChanged
  <1>4. request # "sent"
    BY <1>1 DEF IInv, FeedInv
  <1>5. FeedInv'
    BY <1>1, <1>3, <1>4 DEF IInv, FeedInv
  <1>6. /\ todo' \in [Threads -> SUBSET [post : Nat, place : Nat, url : Images \cup Photos]]
        /\ \A s \in Threads : todo'[s] \subseteq todo[s]
        /\ \A s \in Threads : s # t => \A j : current(s, j)' = current(s, j)
    BY <1>1, JobDone
  <1>7. ThreadsInv'
    <2>1. \A s \in Threads : \A j \in todo'[s] : j.post \in DOMAIN newsFeed'
      BY <1>3, <1>6 DEF IInv, ThreadsInv
    <2>2. \A s \in Range(mainQueue') \cup reloaded' : todo'[s] = {}
      <3> SUFFICES ASSUME NEW s \in Range(mainQueue) \cup reloaded PROVE todo'[s] = {}
        BY <1>1
      <3>1. mainQueue \in Seq(Threads) /\ reloaded \subseteq Threads /\ todo[s] = {}
        BY DEF IInv, ThreadsInv
      <3>2. s \in Threads
        BY <3>1, ListParts
      <3> QED
        BY <1>6, <3>1, <3>2
    <2>3. storing' \in [Threads -> BOOLEAN]
      BY <1>1, Zenon DEF IInv, ThreadsInv
    <2>4. \A s \in Threads : storing'[s] => s # t /\ storing[s]
      BY <1>1 DEF IInv, ThreadsInv
    <2>5. \A s \in Threads : storing'[s] => \A j \in todo'[s] : current(s, j)' => j.url # ""
      BY <1>6, <2>4 DEF IInv, ThreadsInv
    <2> QED
      BY <1>1, <1>6, <2>1, <2>2, <2>3, <2>5 DEF IInv, ThreadsInv
  <1>8. LikesInv'
    <2>1. \A i \in DOMAIN newsFeed : /\ newsFeed'[i].likeCount = newsFeed[i].likeCount
                                     /\ newsFeed'[i].liked = newsFeed[i].liked
      BY <1>3
    <2> QED
      BY <1>1, <1>3, <2>1 DEF IInv, LikesInv, LikesKeepBalance
  <1> QED
    BY <1>2, <1>3, <1>5, <1>7, <1>8

(* An avatar is stored.  Once the reload after the avatars has run, there   *)
(* is none left to store: the header need not be drawn again.               *)
LEMMA AvatarStored ==
  ASSUME IInv, store("avatars"), NEW job \in todo["avatars"], current("avatars", job),
         todo' = [todo EXCEPT !["avatars"] = @ \ {job}],
         newsFeed' = [newsFeed EXCEPT ![job.post].avatar = {job.url}]
  PROVE  IInv'
  <1>1. UNCHANGED <<posts, reloaded, crashed>> /\ UNCHANGED <<visible, header, footer, media>>
    BY DEF store, cells
  <1>2. job.url \in Images /\ ofAuthor(job.url, job.post) /\ "avatars" \in Threads
    BY DEF IInv, AvatarsInv, Threads
  <1>3. newsFeed[job.post] \in NewsType
    <2>1. job.post \in DOMAIN newsFeed /\ newsFeed \in Seq(NewsType)
      BY <1>2 DEF IInv, ThreadsInv, FeedInv
    <2> QED
      BY <2>1, ListParts
  <1>4. PICK new : new = [newsFeed[job.post] EXCEPT !.avatar = {job.url}]
    OBVIOUS
  <1>5. /\ new \in NewsType /\ new.avatar = {job.url} /\ new.photos = newsFeed[job.post].photos
        /\ new.likeCount = newsFeed[job.post].likeCount /\ new.liked = newsFeed[job.post].liked
    BY <1>2, <1>3, <1>4 DEF NewsType
  <1>6. newsFeed' = [newsFeed EXCEPT ![job.post] = new]
    BY <1>4
  <1>7. /\ FeedInv' /\ ThreadsInv' /\ LikesInv'
        /\ job.post \in DOMAIN newsFeed /\ DOMAIN newsFeed' = DOMAIN newsFeed
        /\ newsFeed'[job.post] = new
        /\ \A i \in DOMAIN newsFeed : i # job.post => newsFeed'[i] = newsFeed[i]
    BY <1>2, <1>5, <1>6, Stored
  <1>8. /\ todo'["avatars"] \subseteq todo["avatars"] /\ todo'["photos"] = todo["photos"]
        /\ \A u, i : ofAuthor(u, i)' = ofAuthor(u, i)
        /\ \A i, l, jobs : placed(i, l, jobs)' = placed(i, l, jobs)
    BY <1>1, <1>2, JobDone DEF Threads
  <1>9. AvatarsInv'
    <2>1. \A j \in todo'["avatars"] : j.url \in Images /\ ofAuthor(j.url, j.post)'
      BY <1>8 DEF IInv, AvatarsInv
    <2>2. \A i \in DOMAIN newsFeed : \A u \in newsFeed'[i].avatar :
            newsFeed'[i].avatar = {u} /\ ofAuthor(u, i)
      BY <1>2, <1>5, <1>7 DEF IInv, AvatarsInv
    <2> QED
      BY <1>7, <1>8, <2>1, <2>2 DEF AvatarsInv
  <1>10. \A i \in DOMAIN newsFeed : /\ newsFeed'[i].photos = newsFeed[i].photos
                                    /\ newsFeed'[i].likeCount = newsFeed[i].likeCount
    BY <1>5, <1>7
  <1>11. PhotosInv'
    BY <1>1, <1>7, <1>8, <1>10 DEF IInv, PhotosInv
  <1>12. CellsInv'
    <2>1. "avatars" \notin reloaded
      BY DEF IInv, ThreadsInv
    <2>2. FooterShowsLikes'
      BY <1>1, <1>10 DEF IInv, CellsInv, FooterShowsLikes, alive
    <2> QED
      BY <1>1, <1>7, <1>10, <2>1, <2>2 DEF IInv, CellsInv
  <1> QED
    BY <1>7, <1>9, <1>11, <1>12 DEF IInv

(* A photo that comes before those still to be downloaded, and after those  *)
(* that the post has, goes to their end.                                    *)
LEMMA PhotoPlaced ==
  ASSUME NEW i, NEW photos \in Seq(Photo), NEW jobs, NEW job \in jobs,
         placed(i, photos, jobs), job.post = i,
         DOMAIN posts[i].attachments \subseteq Nat,
         job.place \in DOMAIN posts[i].attachments,
         job.url = posts[i].attachments[job.place], job.url \in Photo,
         \A other \in jobs \ {job} :
           other.post = i => other.place \in Nat /\ job.place < other.place
  PROVE  placed(i, Append(photos, job.url), jobs \ {job})
  <1>1. PICK at \in [DOMAIN photos -> DOMAIN posts[i].attachments] :
          /\ \A m, n \in DOMAIN photos : m < n => at[m] < at[n]
          /\ \A n \in DOMAIN photos : photos[n] = posts[i].attachments[at[n]]
          /\ \A j \in jobs : j.post = i => \A n \in DOMAIN photos : at[n] < j.place
    BY DEF placed
  <1>2. PICK L \in Nat : L = Len(photos) /\ DOMAIN photos = 1 .. L
    BY ListParts
  <1>3. PICK more : more = Append(photos, job.url)
    OBVIOUS
  <1>4. /\ more \in Seq(Photo) /\ Len(more) = L + 1 /\ more[L + 1] = job.url
        /\ \A n \in 1 .. L : more[n] = photos[n]
    BY <1>2, <1>3, AppendProperties
  <1>5. DOMAIN more = 1 .. L + 1
    BY <1>4, ListParts
  <1>6. PICK new : new = [n \in 1 .. L + 1 |-> IF n = L + 1 THEN job.place ELSE at[n]]
    OBVIOUS
  <1>7. /\ new \in [1 .. L + 1 -> DOMAIN posts[i].attachments]
        /\ new[L + 1] = job.place /\ \A n \in 1 .. L : new[n] = at[n]
    BY <1>1, <1>2, <1>6
  <1>8. \A n \in 1 .. L : at[n] < job.place /\ at[n] \in Nat
    BY <1>1, <1>2
  <1>9. \A n \in 1 .. L + 1 : n \in 1 .. L \/ n = L + 1
    OBVIOUS
  <1>10. \A m, n \in 1 .. L + 1 : m < n => new[m] < new[n]
    <2> SUFFICES ASSUME NEW m \in 1 .. L + 1, NEW n \in 1 .. L + 1, m < n
                 PROVE  new[m] < new[n]
      OBVIOUS
    <2>1. m \in 1 .. L
      OBVIOUS
    <2>2. CASE n = L + 1
      BY <1>7, <1>8, <2>1, <2>2
    <2>3. CASE n \in 1 .. L
      BY <1>1, <1>2, <1>7, <2>1, <2>3
    <2> QED
      BY <1>9, <2>2, <2>3
  <1>11. \A n \in 1 .. L + 1 : more[n] = posts[i].attachments[new[n]]
    BY <1>1, <1>2, <1>4, <1>7, <1>9
  <1>12. \A j \in jobs \ {job} : j.post = i => \A n \in 1 .. L + 1 : new[n] < j.place
    BY <1>1, <1>2, <1>7, <1>9
  <1>13. placed(i, more, jobs \ {job})
    <2>1. PICK few : few = jobs \ {job}
      OBVIOUS
    <2>2. /\ new \in [DOMAIN more -> DOMAIN posts[i].attachments]
          /\ \A m, n \in DOMAIN more : m < n => new[m] < new[n]
          /\ \A n \in DOMAIN more : more[n] = posts[i].attachments[new[n]]
          /\ \A j \in few : j.post = i => \A n \in DOMAIN more : new[n] < j.place
      BY <1>5, <1>7, <1>10, <1>11, <1>12, <2>1
    <2>3. placed(i, more, few)
      BY <2>2, Zenon DEF placed
    <2> QED
      BY <2>1, <2>3
  <1> QED
    BY <1>3, <1>13

(* A photo is stored. *)
LEMMA PhotoStored ==
  ASSUME IInv, store("photos"), NEW job \in todo["photos"], current("photos", job),
         todo' = [todo EXCEPT !["photos"] = @ \ {job}],
         newsFeed' = [newsFeed EXCEPT ![job.post].photos = Append(@, job.url)]
  PROVE  IInv'
  <1>1. UNCHANGED <<posts, reloaded, crashed>> /\ UNCHANGED <<visible, header, footer, media>>
    BY DEF store, cells
  <1>2. "photos" \in Threads /\ storing["photos"]
    BY DEF Threads, store
  <1>3. /\ job.post \in DOMAIN newsFeed /\ newsFeed \in Seq(NewsType)
        /\ job.post \in DOMAIN posts /\ posts \in Seq(Shapes)
    BY <1>2 DEF IInv, ThreadsInv, FeedInv
  <1>4. /\ newsFeed[job.post] \in NewsType /\ newsFeed[job.post].photos \in Seq(Photo)
        /\ posts[job.post] \in Shapes
    <2>1. newsFeed[job.post] \in NewsType /\ posts[job.post] \in Shapes
      BY <1>3, ListParts
    <2> QED
      BY <2>1 DEF NewsType
  <1>5. /\ job.place \in DOMAIN posts[job.post].attachments
        /\ job.url = posts[job.post].attachments[job.place]
    BY DEF IInv, PhotosInv
  <1>6. /\ DOMAIN posts[job.post].attachments \subseteq Nat
        /\ job.url \in Photo
    <2>1. posts[job.post].attachments \in Seq(Photos)
      BY <1>4, AttachedPhotos
    <2>2. job.url # ""
      BY <1>2 DEF IInv, ThreadsInv
    <2>3. /\ DOMAIN posts[job.post].attachments = 1 .. Len(posts[job.post].attachments)
          /\ Len(posts[job.post].attachments) \in Nat /\ job.url \in Photos
      BY <1>5, <2>1, ListParts
    <2>4. PICK L \in Nat : DOMAIN posts[job.post].attachments = 1 .. L
      BY <2>3
    <2>5. DOMAIN posts[job.post].attachments \subseteq Nat
      BY <2>4
    <2>6. job.url \in Photo
      BY <2>2, <2>3, Zenon DEF Photo
    <2> QED
      BY <2>5, <2>6
  <1>7. PICK more \in Seq(Photo) : /\ more = Append(newsFeed[job.post].photos, job.url)
                                   /\ Len(more) = Len(newsFeed[job.post].photos) + 1
                                   /\ \A n \in 1 .. Len(newsFeed[job.post].photos) :
                                        more[n] = newsFeed[job.post].photos[n]
    <2>1. PICK old \in Seq(Photo), u \in Photo : old = newsFeed[job.post].photos /\ u = job.url
      BY <1>4, <1>6
    <2>2. /\ Append(old, u) \in Seq(Photo) /\ Len(Append(old, u)) = Len(old) + 1
          /\ \A n \in 1 .. Len(old) : Append(old, u)[n] = old[n]
      BY AppendProperties
    <2> QED
      BY <2>1, <2>2, Zenon
  <1>8. PICK new : new = [newsFeed[job.post] EXCEPT !.photos = more]
    OBVIOUS
  <1>9. /\ new \in NewsType /\ new.photos = more /\ new.avatar = newsFeed[job.post].avatar
        /\ new.likeCount = newsFeed[job.post].likeCount /\ new.liked = newsFeed[job.post].liked
    BY <1>4, <1>8 DEF NewsType
  <1>10. newsFeed' = [newsFeed EXCEPT ![job.post] = new]
    BY <1>4, <1>7, <1>8 DEF NewsType
  <1>11. /\ FeedInv' /\ ThreadsInv' /\ LikesInv'
         /\ DOMAIN newsFeed' = DOMAIN newsFeed /\ newsFeed'[job.post] = new
         /\ \A i \in DOMAIN newsFeed : i # job.post => newsFeed'[i] = newsFeed[i]
    BY <1>2, <1>9, <1>10, Stored
  <1>12. /\ todo'["photos"] = todo["photos"] \ {job} /\ todo'["avatars"] = todo["avatars"]
         /\ \A u, i : ofAuthor(u, i)' = ofAuthor(u, i)
         /\ \A i, l, jobs : placed(i, l, jobs)' = placed(i, l, jobs)
    BY <1>1, <1>2, JobDone DEF Threads
  <1>13. \A i \in DOMAIN newsFeed : /\ newsFeed'[i].avatar = newsFeed[i].avatar
                                    /\ newsFeed'[i].likeCount = newsFeed[i].likeCount
    BY <1>9, <1>11
  <1>14. AvatarsInv'
    BY <1>11, <1>12, <1>13 DEF IInv, AvatarsInv
  <1>15. PhotosInv'
    <2>1. placed(job.post, more, todo["photos"] \ {job})
      <3>1. \A other \in todo["photos"] \ {job} :
              other.post = job.post => other.place \in Nat /\ job.place < other.place
        <4> SUFFICES ASSUME NEW other \in todo["photos"] \ {job}, other.post = job.post
                     PROVE  other.place \in Nat /\ job.place < other.place
          OBVIOUS
        <4>1. other.place \in Nat /\ job.post \in Nat
          BY <1>2, JobParts
        <4> QED
          BY <4>1 DEF current
      <3>2. placed(job.post, newsFeed[job.post].photos, todo["photos"])
        BY <1>3 DEF IInv, PhotosInv
      <3> QED
        BY <1>4, <1>5, <1>6, <1>7, <3>1, <3>2, PhotoPlaced
    <2>2. todo["photos"] \ {job} \in SUBSET todo["photos"]
      OBVIOUS
    <2>3. \A i \in DOMAIN newsFeed : i # job.post =>
            placed(i, newsFeed[i].photos, todo["photos"] \ {job})
      BY <2>2, FewerJobs DEF IInv, PhotosInv
    <2>4. \A i \in DOMAIN newsFeed : placed(i, newsFeed'[i].photos, todo'["photos"])
      BY <1>9, <1>11, <1>12, <2>1, <2>3
    <2>5. \A j \in todo'["photos"] : /\ j.place \in DOMAIN posts[j.post].attachments
                                     /\ j.url = posts[j.post].attachments[j.place]
      BY <1>12 DEF IInv, PhotosInv
    <2> QED
      BY <1>1, <1>11, <1>12, <2>4, <2>5 DEF PhotosInv
  <1>16. CellsInv'
    <2>1. FooterShowsLikes'
      BY <1>1, <1>13 DEF IInv, CellsInv, FooterShowsLikes, alive
    <2>2. /\ Len(newsFeed[job.post].photos) \in Nat /\ Len(media) \in Nat
          /\ DOMAIN media = 1 .. Len(media)
      BY <1>4, ListParts DEF IInv, CellsInv
    <2>3. visible # 0 => /\ Len(media) <= Len(newsFeed'[visible].photos)
                         /\ \A n \in DOMAIN media : media[n] = newsFeed'[visible].photos[n]
      <3>1. CASE visible = job.post
        <4>1. /\ Len(media) <= Len(newsFeed[job.post].photos)
              /\ \A n \in DOMAIN media : media[n] = newsFeed[job.post].photos[n]
          BY <1>3, <3>1, ListParts DEF IInv, CellsInv
        <4>2. newsFeed'[visible].photos = more
          BY <1>9, <1>11, <3>1
        <4>3. \A n \in DOMAIN media : n \in 1 .. Len(newsFeed[job.post].photos)
          BY <2>2, <4>1
        <4>4. Len(media) <= Len(more)
          BY <1>7, <2>2, <4>1
        <4> QED
          BY <1>7, <4>1, <4>2, <4>3, <4>4
      <3>2. CASE visible # job.post
        <4>1. visible # 0 => newsFeed'[visible] = newsFeed[visible]
          BY <1>11, <3>2 DEF IInv, CellsInv
        <4> QED
          BY <4>1 DEF IInv, CellsInv
      <3> QED
        BY <3>1, <3>2
    <2> QED
      BY <1>1, <1>11, <1>13, <2>1, <2>3 DEF IInv, CellsInv, alive
  <1> QED
    BY <1>11, <1>14, <1>15, <1>16 DEF IInv

(* A store is done. *)
LEMMA StoreStep ==
  ASSUME IInv, NEW t \in Threads, store(t)
  PROVE  IInv'
  <1>1. PICK job \in todo[t] : /\ current(t, job)
                               /\ todo' = [todo EXCEPT ![t] = @ \ {job}]
                               /\ newsFeed' = put(t, job)
    BY DEF store
  <1>2. CASE t = "avatars"
    BY <1>1, <1>2, AvatarStored DEF put
  <1>3. CASE t = "photos"
    BY <1>1, <1>3, PhotoStored DEF put
  <1> QED
    BY <1>2, <1>3 DEF Threads

(* A reply is a list of posts. *)
LEMMA FeedsAreLists ==
  ASSUME NEW items \in Feeds
  PROVE  items \in Seq(Shapes) /\ Len(items) \in Nat /\ Len(items) <= MaxPosts
  <1>1. PICK n \in 0 .. MaxPosts : items \in [1 .. n -> Shapes]
    BY DEF Feeds
  <1>2. n \in Nat /\ n <= MaxPosts
    BY <1>1, MaxPostsAssumption
  <1>3. items \in Seq(Shapes) /\ Len(items) = n
    BY <1>1, <1>2, SeqDef
  <1> QED
    BY <1>2, <1>3

(* The feed that is built, post by post. *)
LEMMA FeedBuilt ==
  ASSUME NEW items \in Seq(Shapes), NEW feed, feed = buildNewsFeed(items)
  PROVE  /\ feed \in Seq(NewsType) /\ Len(feed) = Len(items) /\ DOMAIN feed = DOMAIN items
         /\ \A i \in DOMAIN items : items[i] \in Shapes /\ feed[i] = News(items[i])
  <1>1. /\ Len(items) \in Nat /\ DOMAIN items = 1 .. Len(items)
        /\ \A i \in DOMAIN items : items[i] \in Shapes
    BY ListParts
  <1>2. /\ feed = [i \in 1 .. Len(items) |-> News(items[i])]
    BY <1>1 DEF buildNewsFeed
  <1>3. \A i \in 1 .. Len(items) : News(items[i]) \in NewsType
    BY <1>1, NewsOfPost
  <1>4. feed \in [1 .. Len(items) -> NewsType]
    BY <1>2, <1>3
  <1>5. feed \in Seq(NewsType)
    BY <1>1, <1>4, SeqDef
  <1>6. DOMAIN feed = 1 .. Len(items)
    BY <1>2
  <1>7. Len(feed) = Len(items)
    BY <1>1, <1>5, <1>6, LenProperties
  <1> QED
    BY <1>1, <1>2, <1>5, <1>6, <1>7

(* The downloads of the two threads: avatars of the authors, and photos in  *)
(* their places.                                                            *)
LEMMA MediaToDownload ==
  ASSUME NEW items \in Seq(Shapes), NEW feed, feed = buildNewsFeed(items),
         NEW jobs, jobs = downloadMedia(feed)
  PROVE  /\ jobs \in [Threads -> SUBSET [post : Nat, place : Nat, url : Images \cup Photos]]
         /\ \A t \in Threads : \A job \in jobs[t] : job.post \in DOMAIN items
         /\ \A job \in jobs["avatars"] :
              /\ job.url \in Images
              /\ \E id \in items[job.post].source_id : {job.url} \in SignedAuthors(id)
         /\ \A job \in jobs["photos"] :
              /\ job.place \in DOMAIN items[job.post].attachments
              /\ job.url = items[job.post].attachments[job.place]
  <1> DEFINE Job == [post : Nat, place : Nat, url : Images \cup Photos]
  <1>1. /\ DOMAIN feed = DOMAIN items /\ DOMAIN items \subseteq Nat
        /\ \A i \in DOMAIN items : items[i] \in Shapes /\ feed[i] = News(items[i])
    <2>1. DOMAIN items = 1 .. Len(items) /\ Len(items) \in Nat
      BY ListParts
    <2>2. DOMAIN items \subseteq Nat
      BY <2>1
    <2> QED
      BY <2>2, FeedBuilt
  <1>2. /\ DOMAIN jobs = Threads
        /\ jobs["avatars"] = UNION {{[post |-> i, place |-> 1, url |-> u] : u \in feed[i].avatarURL} :
                                      i \in DOMAIN feed}
        /\ jobs["photos"] = UNION {{[post |-> i, place |-> k, url |-> feed[i].photosURL[k]] :
                                      k \in DOMAIN feed[i].photosURL} : i \in DOMAIN feed}
    BY DEF downloadMedia, Threads
  <1>3. ASSUME NEW job \in jobs["avatars"]
        PROVE  /\ job \in Job /\ job.post \in DOMAIN items /\ job.url \in Images
               /\ \E id \in items[job.post].source_id : {job.url} \in SignedAuthors(id)
    <2>0. PICK i \in DOMAIN items :
            job \in {[post |-> i, place |-> 1, url |-> u] : u \in feed[i].avatarURL}
      BY <1>1, <1>2
    <2>1. PICK u \in feed[i].avatarURL : job = [post |-> i, place |-> 1, url |-> u]
      BY <2>0
    <2>2. u \in Images /\ \E id \in items[i].source_id : {u} \in SignedAuthors(id)
      BY <1>1, <2>1, NewsOfPost
    <2>3. job.post = i /\ job.url = u
      BY <2>1
    <2>4. job \in Job
      BY <1>1, <2>1, <2>2
    <2> QED
      BY <2>2, <2>3, <2>4
  <1>4. ASSUME NEW job \in jobs["photos"]
        PROVE  /\ job \in Job /\ job.post \in DOMAIN items
               /\ job.place \in DOMAIN items[job.post].attachments
               /\ job.url = items[job.post].attachments[job.place]
    <2>1. PICK i \in DOMAIN items : job \in {[post |-> i, place |-> k, url |-> feed[i].photosURL[k]] :
                                              k \in DOMAIN feed[i].photosURL}
      BY <1>1, <1>2
    <2>2. feed[i].photosURL = items[i].attachments /\ items[i].attachments \in Seq(Photos)
      BY <1>1, NewsOfPost, AttachedPhotos
    <2>3. PICK k \in DOMAIN items[i].attachments :
            job = [post |-> i, place |-> k, url |-> items[i].attachments[k]]
      BY <2>1, <2>2
    <2>4. job.post = i /\ job.place = k /\ job.url = items[i].attachments[k]
      BY <2>3
    <2>5. k \in Nat /\ items[i].attachments[k] \in Photos
      <3>1. /\ DOMAIN items[i].attachments = 1 .. Len(items[i].attachments)
            /\ Len(items[i].attachments) \in Nat /\ items[i].attachments[k] \in Photos
        BY <2>2, <2>3, ListParts
      <3>2. PICK L \in Nat : DOMAIN items[i].attachments = 1 .. L
        BY <3>1
      <3>3. k \in Nat
        BY <2>3, <3>2
      <3> QED
        BY <3>1, <3>3
    <2>6. job \in Job
      BY <1>1, <2>3, <2>5
    <2> QED
      BY <2>4, <2>6
  <1>5. jobs \in [Threads -> SUBSET Job]
    <2>1. jobs = [t \in Threads |-> jobs[t]]
      BY DEF downloadMedia
    <2>2. \A t \in Threads : jobs[t] \in SUBSET Job
      BY <1>3, <1>4 DEF Threads
    <2> QED
      BY <2>1, <2>2
  <1> QED
    BY <1>3, <1>4, <1>5 DEF Threads

(* The reply comes: the feed is built, or a post without source_id ends the *)
(* process.                                                                 *)
LEMMA BuildStep ==
  ASSUME IInv, NEW items \in Feeds, biuldNewsFeed(items)
  PROVE  IInv'
  <1>1. items \in Seq(Shapes) /\ Len(items) \in Nat /\ Len(items) <= MaxPosts
    BY FeedsAreLists
  <1>2. /\ request = "sent" /\ request' = "shown" /\ posts' = items
        /\ newsFeed = <<>> /\ mainQueue = <<>> /\ reloaded = {} /\ \A t \in Threads : ~storing[t]
    BY DEF biuldNewsFeed, IInv, FeedInv
  <1>3. DOMAIN newsFeed = {} /\ Range(mainQueue) = {}
    BY <1>2 DEF Range
  <1>4. visible = 0 /\ \A t \in Threads : todo[t] = {}
    BY <1>3 DEF IInv, CellsInv, ThreadsInv
  <1>5. CASE /\ crashed' = "nil source_id"
             /\ UNCHANGED <<newsFeed, threads, cells>>
    <2>1. UNCHANGED <<todo, storing, mainQueue, reloaded>> /\ UNCHANGED <<visible, header, footer, media>>
      BY <1>5 DEF threads, cells
    <2>2. FeedInv'
      BY <1>1, <1>2, <1>3, <1>5 DEF IInv, FeedInv
    <2>3. ThreadsInv'
      <3>1. \A s, j : current(s, j)' = current(s, j)
        BY <2>1 DEF current
      <3> QED
        BY <1>5, <2>1, <3>1 DEF IInv, ThreadsInv
    <2>4. AvatarsInv' /\ PhotosInv' /\ LikesInv'
      <3>1. todo'["avatars"] = {} /\ todo'["photos"] = {} /\ DOMAIN newsFeed' = {}
        BY <1>3, <1>4, <1>5, <2>1 DEF Threads
      <3> QED
        BY <3>1 DEF AvatarsInv, PhotosInv, LikesInv, LikesKeepBalance
    <2>5. CellsInv'
      BY <1>4, <2>1 DEF IInv, CellsInv, FooterShowsLikes
    <2> QED
      BY <2>2, <2>3, <2>4, <2>5 DEF IInv
  <1>6. CASE /\ newsFeed' = buildNewsFeed(items)
             /\ IF items = <<>> THEN UNCHANGED cells ELSE cellForRowAt(1, newsFeed')
             /\ todo' = downloadMedia(newsFeed')
             /\ UNCHANGED <<storing, mainQueue, reloaded, crashed>>
    <2>1. /\ newsFeed' \in Seq(NewsType) /\ Len(newsFeed') = Len(items)
          /\ DOMAIN newsFeed' = DOMAIN items
          /\ \A i \in DOMAIN items : items[i] \in Shapes /\ newsFeed'[i] = News(items[i])
      BY <1>1, <1>6, FeedBuilt
    <2>2. /\ todo' \in [Threads -> SUBSET [post : Nat, place : Nat, url : Images \cup Photos]]
          /\ \A t \in Threads : \A job \in todo'[t] : job.post \in DOMAIN items
          /\ \A job \in todo'["avatars"] :
               /\ job.url \in Images
               /\ \E id \in items[job.post].source_id : {job.url} \in SignedAuthors(id)
          /\ \A job \in todo'["photos"] :
               /\ job.place \in DOMAIN items[job.post].attachments
               /\ job.url = items[job.post].attachments[job.place]
      BY <1>1, <1>6, MediaToDownload
    <2>3. \A i \in DOMAIN items :
            /\ newsFeed'[i].avatar = {} /\ newsFeed'[i].photos = <<>>
            /\ newsFeed'[i].likeCount = items[i].likes /\ newsFeed'[i].liked = items[i].user_likes
      BY <2>1, NewsOfPost
    <2>4. FeedInv'
      BY <1>1, <1>2, <1>6, <2>1 DEF IInv, FeedInv
    <2>5. ThreadsInv'
      <3>1. storing' \in [Threads -> BOOLEAN] /\ \A t \in Threads : ~storing'[t]
        BY <1>2, <1>6 DEF IInv, ThreadsInv
      <3>2. mainQueue' \in Seq(Threads) /\ reloaded' \subseteq Threads
            /\ Range(mainQueue') \cup reloaded' = {}
        BY <1>2, <1>3, <1>6
      <3>3. \A t \in Range(mainQueue') \cup reloaded' : todo'[t] = {}
        BY <3>2
      <3> QED
        BY <2>1, <2>2, <3>1, <3>2, <3>3, Zenon DEF ThreadsInv
    <2>6. AvatarsInv'
      <3>1. \A job \in todo'["avatars"] : job.url \in Images /\ ofAuthor(job.url, job.post)'
        BY <1>2, <2>2 DEF ofAuthor
      <3> QED
        BY <2>1, <2>3, <3>1 DEF AvatarsInv
    <2>7. PhotosInv'
      <3>1. ASSUME NEW i \in DOMAIN items
            PROVE  placed(i, newsFeed[i].photos, todo["photos"])'
        <4>1. PICK none : none = newsFeed'[i].photos /\ DOMAIN none = {}
          BY <2>3
        <4>2. PICK at : at = [n \in {} |-> n]
          OBVIOUS
        <4>3. at \in [DOMAIN none -> DOMAIN posts'[i].attachments]
          BY <4>1, <4>2
        <4>4. \E new \in [DOMAIN none -> DOMAIN posts'[i].attachments] :
                /\ \A m, n \in DOMAIN none : m < n => new[m] < new[n]
                /\ \A n \in DOMAIN none : none[n] = posts'[i].attachments[new[n]]
                /\ \A job \in todo'["photos"] : job.post = i =>
                     \A n \in DOMAIN none : new[n] < job.place
          BY <4>1, <4>3, Zenon
        <4> QED
          BY <4>1, <4>4, Zenon DEF placed
      <3> QED
        BY <1>2, <2>1, <2>2, <2>3, <3>1 DEF PhotosInv
    <2>8. LikesInv'
      <3>1. \A i \in DOMAIN items : \A n \in items[i].likes : items[i].likes = {n}
        BY <2>1, ShapesAssumption
      <3> QED
        BY <1>2, <2>1, <2>3, <3>1 DEF LikesInv, LikesKeepBalance
    <2>9. CellsInv'
      <3>1. CASE items = <<>>
        <4>1. UNCHANGED <<visible, header, footer, media>>
          BY <1>6, <3>1 DEF cells
        <4> QED
          BY <1>4, <4>1 DEF IInv, CellsInv, FooterShowsLikes
      <3>2. CASE items # <<>>
        <4>1. 1 \in DOMAIN newsFeed'
          <5>1. DOMAIN items = 1 .. Len(items) /\ DOMAIN items # {}
            BY <1>1, <3>2, ListParts
          <5> QED
            BY <1>1, <2>1, <5>1
        <4>2. cellForRowAt(1, newsFeed')
          BY <1>6, <3>2
        <4> QED
          BY <2>1, <2>8, <4>1, <4>2, RowsDrawn DEF IInv, LikesInv
      <3> QED
        BY <3>1, <3>2
    <2> QED
      BY <2>4, <2>5, <2>6, <2>7, <2>8, <2>9 DEF IInv
  <1> QED
    BY <1>5, <1>6 DEF biuldNewsFeed

(* Every step keeps the invariant. *)
LEMMA NextIInv == IInv /\ [Next]_vars => IInv'
  <1> SUFFICES ASSUME IInv, [Next]_vars PROVE IInv'
    OBVIOUS
  <1>1. CASE newsfeedGetFails
    BY <1>1, QuietStep DEF newsfeedGetFails
  <1>2. ASSUME NEW items \in Feeds, biuldNewsFeed(items) PROVE IInv'
    BY <1>2, BuildStep
  <1>3. ASSUME NEW t \in Threads, skip(t) \/ downloaded(t) \/ store(t) \/ threadEnds(t)
        PROVE  IInv'
    BY <1>3, SkipStep, DownloadedStep, StoreStep, EndStep
  <1>4. CASE reload
    BY <1>4, ReloadStep
  <1>5. ASSUME NEW i \in DOMAIN newsFeed, scroll(i) PROVE IInv'
    BY <1>5, ScrollStep
  <1>6. CASE likeButtonPressed
    BY <1>6, LikeStep
  <1>7. CASE UNCHANGED vars
    BY <1>7, QuietStep DEF vars
  <1> QED
    BY <1>1, <1>2, <1>3, <1>4, <1>5, <1>6, <1>7 DEF Next, Idle

-----------------------------------------------------------------------------
(* The invariant holds in every reachable state of the news screen. *)
THEOREM Invariance == Spec => []IInv
  BY InitIInv, NextIInv, PTL DEF Spec

(* The feed, the threads' downloads and the cells have their types: the     *)
(* counter that likeButtonPressed counts down never falls below zero.       *)
THEOREM TypeCorrect == Spec => []TypeOK
  <1>1. IInv => TypeOK
    <2> SUFFICES ASSUME IInv PROVE TypeOK
      OBVIOUS
    <2>1. posts \in Seq(Shapes) /\ newsFeed \in Seq(NewsType)
      BY DEF IInv, FeedInv
    <2>2. /\ \A i \in DOMAIN posts : posts[i] \in Shapes
          /\ \A i \in DOMAIN newsFeed : newsFeed[i] \in NewsType
          /\ DOMAIN newsFeed = 1 .. Len(newsFeed) /\ Len(newsFeed) \in Nat
      BY <2>1, ListParts
    <2>3. Len(newsFeed) \in 0 .. MaxPosts
      <3>1. PICK n \in Nat : n = Len(newsFeed)
        BY <2>2
      <3>2. n <= MaxPosts
        BY <3>1 DEF IInv, FeedInv
      <3> QED
        BY <3>1, <3>2, MaxPostsAssumption
    <2>4. ASSUME NEW i \in DOMAIN newsFeed
          PROVE  /\ newsFeed[i].avatar \in {{}} \cup {{u} : u \in Images}
                 /\ Range(newsFeed[i].photos) \subseteq Photos \ {""}
                 /\ \A c \in newsFeed[i].likeCount : c \in Nat
                 /\ newsFeed[i].liked \in {{}, {0}, {1}}
      <3>1. newsFeed[i] \in NewsType
        BY <2>2
      <3>2. newsFeed[i].avatar \subseteq Images /\ newsFeed[i].photos \in Seq(Photo)
            /\ newsFeed[i].likeCount \subseteq Nat /\ newsFeed[i].liked \in {{}, {0}, {1}}
        BY <3>1 DEF NewsType
      <3>3. \A u \in newsFeed[i].avatar : newsFeed[i].avatar = {u}
        BY DEF IInv, AvatarsInv
      <3>4. newsFeed[i].avatar \in {{}} \cup {{u} : u \in Images}
        BY <3>2, <3>3
      <3>5. Range(newsFeed[i].photos) \subseteq Photos \ {""}
        BY <3>2, ListParts DEF Photo
      <3> QED
        BY <3>2, <3>4, <3>5
    <2>5. /\ \A t \in Threads : \A job \in todo[t] : job.post \in 1 .. Len(newsFeed)
          /\ storing \in [Threads -> BOOLEAN]
      BY <2>2 DEF IInv, ThreadsInv
    <2>6. Range(mainQueue) \cup reloaded \subseteq Threads
      BY ListParts DEF IInv, ThreadsInv
    <2>7. visible \in 0 .. Len(newsFeed)
      BY <2>2 DEF IInv, CellsInv
    <2>8. header \in Images \cup {camera} /\ footer \in Nat \cup {blank}
      BY DEF IInv, CellsInv
    <2>9. Range(media) \subseteq Photos
      <3>1. media \in Seq(Photo)
        BY DEF IInv, CellsInv
      <3>2. Range(media) \subseteq Photo
        BY <3>1, ListParts
      <3> QED
        BY <3>2, Zenon DEF Photo
    <2>10. /\ request \in {"sent", "failed", "shown"}
           /\ crashed \in {"no", "nil source_id", "nil likeCount", "race"}
      BY DEF IInv, FeedInv
    <2> QED
      BY <2>2, <2>3, <2>4, <2>5, <2>6, <2>7, <2>8, <2>9, <2>10 DEF TypeOK
  <1> QED
    BY <1>1, Invariance, PTL

(* However often likeButtonPressed runs, and whatever the threads and the   *)
(* user do between, the counters stay what the service sent, up to the      *)
(* user's own like.                                                         *)
THEOREM LikesBalance == Spec => []LikesKeepBalance
  <1>1. IInv => LikesKeepBalance
    BY DEF IInv, LikesInv
  <1> QED
    BY <1>1, Invariance, PTL

(* The header is drawn with an avatar of the feed, or keeps its image. *)
LEMMA HeaderDrawn ==
  ASSUME NEW feed, NEW i \in DOMAIN feed, Draw(i, feed)
  PROVE  header' = header \/ \E j \in DOMAIN feed : header' \in feed[j].avatar
  BY DEF Draw, cellForRowAt, configureHeader, cells

LEMMA HeaderReloaded ==
  ASSUME NEW feed, visible = 0 \/ visible \in DOMAIN feed, reloadData(feed)
  PROVE  header' = header \/ \E j \in DOMAIN feed : header' \in feed[j].avatar
  BY HeaderDrawn DEF reloadData, cells

(* A step draws the header from the feed it leaves, or leaves it alone; the *)
(* feed does not change its posts once it is there.                         *)
LEMMA HeaderChange ==
  ASSUME IInv, IInv', Next
  PROVE  /\ header' = header \/ \E j \in DOMAIN newsFeed' : header' \in newsFeed'[j].avatar
         /\ DOMAIN newsFeed = {} \/ (posts' = posts /\ DOMAIN newsFeed' = DOMAIN newsFeed)
  <1>0. visible = 0 \/ visible \in DOMAIN newsFeed
    BY DEF IInv, CellsInv
  <1>1. CASE newsfeedGetFails \/ Idle \/ \E t \in Threads : skip(t) \/ downloaded(t) \/ threadEnds(t)
    BY <1>1 DEF newsfeedGetFails, Idle, skip, downloaded, threadEnds, cells, vars
  <1>2. CASE \E items \in Feeds : biuldNewsFeed(items)
    <2>1. PICK items \in Feeds : biuldNewsFeed(items)
      BY <1>2
    <2>2. DOMAIN newsFeed = {}
      <3>1. request = "sent"
        BY <2>1 DEF biuldNewsFeed
      <3>2. newsFeed = <<>>
        BY <3>1 DEF IInv, FeedInv
      <3> QED
        BY <3>2
    <2>3. CASE UNCHANGED header
      BY <2>2, <2>3
    <2>4. CASE items # <<>> /\ newsFeed' = buildNewsFeed(items) /\ cellForRowAt(1, newsFeed')
      <3>1. 1 \in DOMAIN newsFeed'
        <4>1. items \in Seq(Shapes) /\ Len(items) \in Nat
          BY FeedsAreLists
        <4>2. DOMAIN items = 1 .. Len(items) /\ Len(items) # 0
          BY <2>4, <4>1
        <4>3. 1 \in DOMAIN items
          BY <4>1, <4>2
        <4>4. DOMAIN newsFeed' = DOMAIN items
          BY <2>4 DEF buildNewsFeed
        <4> QED
          BY <4>3, <4>4
      <3> QED
        BY <2>2, <2>4, <3>1, HeaderDrawn DEF cellForRowAt, configureHeader
    <2> QED
      BY <2>1, <2>3, <2>4 DEF biuldNewsFeed, cells
  <1>3. CASE \E t \in Threads : store(t)
    <2>1. PICK t \in Threads : store(t)
      BY <1>3
    <2>2. PICK job : newsFeed' = put(t, job)
      BY <2>1 DEF store
    <2>3. DOMAIN newsFeed' = DOMAIN newsFeed
      BY <2>2 DEF put
    <2> QED
      BY <2>1, <2>3 DEF store, cells
  <1>4. CASE reload
    BY <1>0, <1>4, HeaderReloaded DEF reload
  <1>5. CASE \E i \in DOMAIN newsFeed : scroll(i)
    BY <1>5, HeaderDrawn DEF scroll
  <1>6. CASE likeButtonPressed
    <2>1. CASE newsFeed' = [newsFeed EXCEPT ![visible] = pressed(@)] /\ reloadData(newsFeed')
      <3>1. DOMAIN newsFeed' = DOMAIN newsFeed
        BY <2>1
      <3> QED
        BY <1>0, <1>6, <2>1, <3>1, HeaderReloaded DEF likeButtonPressed
    <2>2. CASE UNCHANGED <<newsFeed, cells>>
      BY <1>6, <2>2 DEF likeButtonPressed, cells
    <2> QED
      BY <1>6, <2>1, <2>2 DEF likeButtonPressed
  <1> QED
    BY <1>1, <1>2, <1>3, <1>4, <1>5, <1>6 DEF Next

LEMMA HeaderStep ==
  ASSUME IInv, IInv', HeaderIsFromFeed, [Next]_vars
  PROVE  HeaderIsFromFeed'
  <1>1. CASE Next
    <2>1. CASE \E j \in DOMAIN newsFeed' : header' \in newsFeed'[j].avatar
      BY <2>1 DEF IInv, AvatarsInv, ofAuthor, HeaderIsFromFeed
    <2>2. CASE header' = header
      BY <1>1, <2>2, HeaderChange DEF HeaderIsFromFeed
    <2> QED
      BY <1>1, <2>1, <2>2, HeaderChange
  <1>2. CASE UNCHANGED vars
    BY <1>2 DEF vars, cells, HeaderIsFromFeed
  <1> QED
    BY <1>1, <1>2

(* The reused cells of cellForRowAt show the counter of the post on the     *)
(* screen, if it has one, and, if it got an avatar and the reload after the *)
(* avatars has run, its author's avatar; in all other cases the header has  *)
(* the storyboard's image or the avatar of an author of some post of the    *)
(* feed.  For feeds and author lists of any length.                         *)
THEOREM CellsShown == Spec => []CellsShowWhatPostHas
  <1>1. ASSUME IInv PROVE FooterShowsLikes /\ HeaderShowsAuthor
    <2>1. FooterShowsLikes
      BY <1>1 DEF IInv, CellsInv
    <2>2. ASSUME alive, visible # 0, "avatars" \in reloaded, newsFeed[visible].avatar # {}
          PROVE  \E id \in posts[visible].source_id : {header} \in SignedAuthors(id)
      <3>1. visible \in DOMAIN newsFeed /\ header \in newsFeed[visible].avatar
        BY <1>1, <2>2 DEF IInv, CellsInv
      <3>2. ofAuthor(header, visible)
        BY <1>1, <3>1 DEF IInv, AvatarsInv
      <3> QED
        BY <3>2 DEF ofAuthor
    <2> QED
      BY <2>1, <2>2 DEF HeaderShowsAuthor
  <1>2. Init => HeaderIsFromFeed
    BY DEF Init, HeaderIsFromFeed
  <1>3. Spec => []HeaderIsFromFeed
    BY <1>2, HeaderStep, Invariance, PTL DEF Spec
  <1> QED
    BY <1>1, <1>3, Invariance, PTL DEF CellsShowWhatPostHas

(* The photos that the thread of downloadMedia appends are the post's own,  *)
(* each once and in order, however the downloads fail between and the rows  *)
(* are drawn; the media cell shows a beginning of them.                     *)
THEOREM PhotosAttached == Spec => []PhotosAreAttached
  <1>1. IInv => PhotosAreAttached
    <2> SUFFICES ASSUME IInv PROVE PhotosAreAttached
      OBVIOUS
    <2>1. \A i \in DOMAIN newsFeed : InOrderOf(newsFeed[i].photos, posts[i].attachments)
      BY DEF IInv, PhotosInv, placed, InOrderOf
    <2>2. ASSUME visible # 0
          PROVE  IsPrefix(media, newsFeed[visible].photos)
      <3>1. /\ visible \in DOMAIN newsFeed /\ newsFeed \in Seq(NewsType) /\ media \in Seq(Photo)
            /\ Len(media) <= Len(newsFeed[visible].photos)
            /\ \A n \in DOMAIN media : media[n] = newsFeed[visible].photos[n]
        BY <2>2 DEF IInv, CellsInv, FeedInv
      <3>2. newsFeed[visible] \in NewsType
        BY <3>1, ListParts
      <3>3. PICK photos \in Seq(Photo) : photos = newsFeed[visible].photos
        BY <3>2 DEF NewsType
      <3>4. Len(media) \in Nat /\ DOMAIN media = 1 .. Len(media) /\ Len(media) <= Len(photos)
            /\ \A n \in 1 .. Len(media) : media[n] = photos[n]
        BY <3>1, <3>3, ListParts
      <3> QED
        BY <3>1, <3>3, <3>4, Beginning
    <2> QED
      BY <2>1, <2>2 DEF PhotosAreAttached
  <1> QED
    BY <1>1, Invariance, PTL
=============================================================================
