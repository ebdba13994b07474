----------------------------- MODULE MCNewsFeed -----------------------------
(* Feeds of up to two posts: by a group and by a user with the same number, *)
(* with and without photos, likes and a source.                             *)
EXTENDS NewsFeed

MCProfiles == <<[id |-> 1, photo_50 |-> {"user1"}]>>
MCGroups == <<[id |-> 1, photo_50 |-> {"group1"}], [id |-> 2, photo_50 |-> {}]>>

MCShapes == {
  [source_id |-> {1}, likes |-> {1}, user_likes |-> {1}, attachments |-> <<"p1", "p2">>],
  [source_id |-> {-1}, likes |-> {0}, user_likes |-> {}, attachments |-> <<"">>],
  [source_id |-> {-2}, likes |-> {}, user_likes |-> {}, attachments |-> <<>>],
  [source_id |-> {}, likes |-> {0}, user_likes |-> {0}, attachments |-> <<>>]}
=============================================================================
