SPECIFICATION PictureFairSpec
CONSTANTS
  NoSession = NoSession
  NoLib = NoLib
  NoPicture = NoPicture
  Serial = Serial
  Password = Password
  OtherPassword = OtherPassword
  NoPassword = NoPassword
  Api = {a1}
  Downloads = {d1}
  Threads = {d1, t2}
  Sessions = {s1, s2, s3}
  Limit = 1
  u1 = u1
  u2 = u2
  Urls = {u1, u2}
  NoUrl = NoUrl
  Other = Other
  Pushes <- MCPushes
  Libs = {l1, l2}
  Pictures <- MCPictures
INVARIANTS
  SessionsHaveOneOwner
  RightKeyIsFound
  DeclaredBeforeUse
  UsableUrlIsTaken
PROPERTIES
  DownloadsNeverHoldTheApi
