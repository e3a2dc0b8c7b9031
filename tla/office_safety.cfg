SPECIFICATION Spec
CONSTANTS
  ann = ann
  bob = bob
  root = root
  other = other
  fancy = fancy
  plain = plain
  wide = wide
  tall = tall
  small = small
  paper = paper
  eve = eve
  tom = tom
  eveMail = eveMail
  tomMail = tomMail
  editors = editors
  staff = staff
  saved = saved
  login = login
  submitted = submitted
  forms = forms
  polls = polls
  slack = slack
  pager = pager
  hello = hello
  bye = bye
  welcome = welcome
  Asset = {1, 2, 3, 4, 5}
  Content = {wide, tall, small, paper}
  Kind <- Kinds
  Size <- Sizes
  Dim <- Dims
  StyleBox <- Boxes
  Second = {"1", "2"}
  FolderWord = {"content", "press", "old", "new"}
  User = {eve, tom}
  Email = {eveMail, tomMail}
  NoEmail = NoEmail
  Role = {editors}
  Group = {staff}
  CoreEvent = {saved, login}
  Event = {saved, login, submitted}
  Notice = {slack, pager}
  Extension = {forms, polls}
  Locale <- Locales
  Embedded <- BuiltIn
  Starter <- First
  Doc <- Guides
  NoString = NoString
  Builtin <- BuiltIns
  Partials <- Parts
  Rendered <- Pages
  Text = {fancy, plain}
  NoText = NoText
  Defining = {fancy}
  Definition <- Definitions
  Numeral <- Numerals
  Printed <- Prints
  Dsn = {"home.sqlite", "shop.sqlite", "blog.sqlite", "typo"}
  Broken = {"typo"}
  Account = {root, other}
  NoUrl = NoUrl
  NoDsn = NoDsn
  None = None
  Worker = {ann, bob}
  Start <- Starts
  Does <- Work
  MaxChanges = 3
  MaxFaults = 1
INVARIANTS
  ThumbShows
  NoticesReach
  EditorsShow
  PagesShow
  LinksLead
  SitesReached
PROPERTY
  FilesKept
CHECK_DEADLOCK FALSE
