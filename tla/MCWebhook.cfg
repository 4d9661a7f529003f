CONSTANTS
    MaxMessages = 2
    Matching = {1, 2}
    Page = 1
    Slots = 1
    PurgeAt = {1}
    MaxEnables = 1
    MaxRestarts = 1
SPECIFICATION WebhookSpec
CONSTRAINT OneTrouble
PROPERTY AtLeastOnceInOrder
PROPERTY RowsSettle
