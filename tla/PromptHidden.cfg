SPECIFICATION FairSpec
PROPERTY PromptStaysShown
