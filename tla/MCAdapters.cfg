SPECIFICATION AdaptersSpec
CONSTANTS
    Styles = {"none", "next", "page", "sized"}
    MaxPages = 2  PageSize = 1  MaxHeld = 3
    RetryMax = 1  RetryBase = 2  MaxBackoff = 3  MaxRetryAfter = 2  RetryAfters = {0, 2, 3}
    Timeout = 2  Gap = 2  Budgets = {0, 3, 4}
    MaxRecords = 2  MaxTokens = 5  Inodes = {i1, i2}
    t1 = t1  t2 = t2  Tags = {t1, t2}  TagOf <- Tagged
    WarnLines = 2  None = None
INVARIANTS LookupsAreRight AtMostOneOverdue MailboxIsRight
PROPERTIES RequestsArePaced CallEnds OnlyCorruptLinesRaise
